-------------------------- MODULE ShadowPromotion --------------------------
(***************************************************************************)
(* The self-learning loop and the promotion of a shadow strategy to live   *)
(* (lib/metaHarnessSafe.ts, the routes under app/api/strategies/           *)
(* self-learning-v5, lib/selfLearningV5Store.ts, app/terminal/page.tsx).   *)
(* The page runs a cycle from the state it holds, the server stores the    *)
(* state that results, whole; a promotion reads the stored state, checks   *)
(* that the strategy was observed long enough, and stores it promoted.     *)
(* The control plane keeps one state of each scope (account, symbol and    *)
(* timeframe); where it fails, the route keeps one in a local file.        *)
(*                                                                         *)
(* The replay data a cycle evaluates is a free choice of the entries that  *)
(* come out on top, in the order of their scores, and of those accepted.   *)
(* An entry's id is made of its rounded score and one parameter, so that   *)
(* entries of one cycle may share an id.  Live deployment by policy is     *)
(* never allowed: the page always sends allowLiveDeployment: false.        *)
(***************************************************************************)
EXTENDS Integers, Sequences, FiniteSetsExt, SequencesExt

CONSTANTS Scopes, Strategies,
          RequiredCycles,   \* requiredShadowCycles
          RequiredHours,    \* requiredObservationHours, in ticks
          KeptCycles,       \* cycles a state keeps (24)
          MaxEntries,       \* entries a state keeps (12)
          MaxTime,          \* bound: ticks
          MaxRuns,          \* bound: cycles
          MaxPromotions     \* bound: promotions asked for

NoId == "none"

ASSUME ScopesAssumption ==
    Scopes # {} /\ Strategies # {} /\ NoId \notin Strategies /\ MaxEntries \in Nat \ {0}

VARIABLES db,           \* self_learning_v5_states of the control plane
          file,         \* the local fallback files
          page,         \* scope shown, state held, whether it is being loaded
          cycle,        \* the cycle requests, by their number
          promotion,    \* the promotion request under way
          now, cyclesRun, promotionsAsked

promotionVars == <<db, file, page, cycle, promotion, now, cyclesRun, promotionsAsked>>

(* "known" is FALSE for a null state.                                      *)
NoState == [known |-> FALSE, live |-> NoId, shadow |-> NoId, entries |-> <<>>,
            cycles |-> <<>>, audit |-> <<>>]

Idle == [phase |-> "idle", scope |-> NoId, state |-> NoState, id |-> NoId]

PromotionInit ==
    /\ db = [s \in Scopes |-> NoState] /\ file = [s \in Scopes |-> NoState]
    /\ \E s \in Scopes : page = [scope |-> s, held |-> NoState, loading |-> TRUE]
    /\ cycle = [n \in 1 .. MaxRuns |-> Idle] /\ promotion = Idle
    /\ now = 0 /\ cyclesRun = 0 /\ promotionsAsked = 0

-----------------------------------------------------------------------------
(* What a cycle finds: the best entries, the first with the highest score. *)
Rankings == UNION {[1 .. n -> [id : Strategies, accepted : BOOLEAN]] : n \in 1 .. MaxEntries}

Entries(top, status) ==
    [i \in DOMAIN top |-> [id |-> top[i].id, accepted |-> top[i].accepted, status |-> status[i]]]

\* For the mutants: the best entry of a cycle goes live by itself.
CycleResultLive(previous, top) ==
    LET live == IF top[1].accepted THEN top[1].id ELSE NoId
    IN  [known   |-> TRUE, live |-> live, shadow |-> NoId,
         entries |-> Entries(top, [i \in DOMAIN top |->
                                       IF top[i].id = live THEN "live" ELSE "registry"]),
         cycles  |-> <<>>,
         audit   |-> previous.audit]

(* runMetaHarnessSafeCycle(): the best entry becomes the shadow if it was  *)
(* accepted and is not the live strategy; the live one stays if its id is  *)
(* still among the entries, and every entry of that id is live, whatever   *)
(* the validation said; the audit trail is carried over.                   *)
CycleResult(previous, top) ==
    LET best   == top[1]
        shadow == IF best.accepted /\ best.id # previous.live THEN best.id ELSE NoId
        live   == IF \E i \in DOMAIN top : top[i].id = previous.live THEN previous.live ELSE NoId
        status == [i \in DOMAIN top |->
                      IF top[i].id = live THEN "live"
                      ELSE IF ~top[i].accepted THEN "rejected"
                      ELSE IF i = 1 \/ top[i].id = shadow THEN "shadow" ELSE "registry"]
    IN  [known   |-> TRUE,
         live    |-> live,
         shadow  |-> shadow,
         entries |-> Entries(top, status),
         cycles  |-> SubSeq(<<[best |-> best.id, at |-> now]>> \o previous.cycles, 1,
                            Min({KeptCycles, Len(previous.cycles) + 1})),
         audit   |-> previous.audit]

Observed(state, id) == SelectSeq(state.cycles, LAMBDA c : c.best = id)

(* computeSelfLearningV5PromotionReadiness() and its twin in the control   *)
(* plane: the first entry of the id is accepted and a shadow, the id is    *)
(* the active shadow's, and it was observed in enough cycles over enough   *)
(* hours.                                                                  *)
Ready(state, id) ==
    LET times == {c.at : c \in ToSet(Observed(state, id))}
    IN  /\ \E i \in DOMAIN state.entries :
               /\ state.entries[i].id = id
               /\ state.entries[i].accepted /\ state.entries[i].status = "shadow"
               /\ \A j \in 1 .. i - 1 : state.entries[j].id # id
        /\ state.shadow = id
        /\ Len(Observed(state, id)) >= RequiredCycles
        /\ \E first, last \in times : last - first >= RequiredHours

\* For the mutants: the entries keep their status.
PromotedPointerOnly(state, id) ==
    [state EXCEPT !.live = id, !.shadow = NoId, !.audit = <<id>> \o @]

(* promoteSelfLearningV5State(): every entry of the id goes live, those    *)
(* live before go back to the registry, and the audit trail grows at its   *)
(* head.                                                                   *)
Promoted(state, id) ==
    LET status == [i \in DOMAIN state.entries |->
                      IF state.entries[i].id = id THEN "live"
                      ELSE IF state.entries[i].status = "live" THEN "registry"
                      ELSE state.entries[i].status]
    IN  [state EXCEPT !.entries = Entries(@, status),
                      !.live = id, !.shadow = NoId,
                      !.audit = <<id>> \o @]

-----------------------------------------------------------------------------
(* The page.                                                               *)

Request(scope, state, id) == [phase |-> "sent", scope |-> scope, state |-> state, id |-> id]

(* runMetaHarnessV5Cycle(): the state of this rendering is sent along.  A  *)
(* cycle under way may or may not keep another one from starting, as the   *)
(* rendering shows it or not (ShadowScheduler).                            *)
StartCycle(scope, held) ==
    /\ cyclesRun < MaxRuns
    /\ cycle' = [cycle EXCEPT ![cyclesRun + 1] = Request(scope, held, NoId)]
    /\ cyclesRun' = cyclesRun + 1

(* The button, or an interval of the shadow scheduler.                     *)
RunCycle ==
    /\ StartCycle(page.scope, page.held)
    /\ UNCHANGED <<db, file, page, promotion, now, promotionsAsked>>

(* Another symbol or timeframe is selected: an effect drops the state held *)
(* and asks for the scope's own.  With the shadow scheduler on, another    *)
(* effect of the same rendering runs a cycle, from the state that          *)
(* rendering still holds.                                                  *)
SelectScope ==
    /\ \E s \in Scopes \ {page.scope} :
        /\ page' = [scope |-> s, held |-> NoState, loading |-> TRUE]
        /\ StartCycle(s, page.held) \/ UNCHANGED <<cycle, cyclesRun>>
    /\ UNCHANGED <<db, file, promotion, now, promotionsAsked>>

(* GET: the control plane's state, the file's when it fails, or null when  *)
(* it cannot be reached; dropped when the scope has changed since.         *)
StateLoaded ==
    /\ page.loading
    /\ \E state \in {db[page.scope], file[page.scope], NoState} :
           page' = [page EXCEPT !.held = state, !.loading = FALSE]
    /\ UNCHANGED <<db, file, cycle, promotion, now, cyclesRun, promotionsAsked>>

(* The answer of a cycle is held whatever scope is selected by now, and    *)
(* whatever another cycle answered before it; a request that failed on the *)
(* way leaves the state as it is.                                          *)
CycleAnswered(n) ==
    /\ cycle[n].phase = "done"
    /\ page' \in {[page EXCEPT !.held = cycle[n].state], page}
    /\ cycle' = [cycle EXCEPT ![n] = Idle]
    /\ UNCHANGED <<db, file, promotion, now, cyclesRun, promotionsAsked>>

(* The promote button, enabled for the shadow of the state held when that  *)
(* state says it is ready.                                                 *)
AskPromotion ==
    /\ promotion.phase = "idle" /\ promotionsAsked < MaxPromotions
    /\ page.held.shadow # NoId
    /\ Ready(page.held, page.held.shadow)
    /\ promotion' = Request(page.scope, NoState, page.held.shadow)
    /\ promotionsAsked' = promotionsAsked + 1
    /\ UNCHANGED <<db, file, page, cycle, now, cyclesRun>>

PromotionAnswered ==
    /\ promotion.phase = "done"
    /\ page' = IF promotion.state.known THEN [page EXCEPT !.held = promotion.state] ELSE page
    /\ promotion' = Idle
    /\ UNCHANGED <<db, file, cycle, now, cyclesRun, promotionsAsked>>

-----------------------------------------------------------------------------
(* The server.                                                             *)

(* POST run-once: the cycle is computed from the page's state and the      *)
(* result is put; when the control plane fails, before or after it has     *)
(* stored the state, the route writes the file.                            *)
RunOnce(n) ==
    /\ cycle[n].phase = "sent"
    /\ \E top \in Rankings :
        LET result == CycleResult(cycle[n].state, top)
            stored(copies) == [copies EXCEPT ![cycle[n].scope] = result]
        IN  /\ cycle' = [cycle EXCEPT ![n].phase = "done", ![n].state = result]
            /\ \/ db' = stored(db) /\ UNCHANGED file
               \/ file' = stored(file) /\ db' \in {db, stored(db)}
    /\ UNCHANGED <<page, promotion, now, cyclesRun, promotionsAsked>>

(* POST promote on one copy: refused unless the stored state is ready.     *)
PromoteIn(copies) ==
    LET state == copies[promotion.scope]
        after == Promoted(state, promotion.id)
        ready == state.known /\ Ready(state, promotion.id)
    IN  [copies |-> IF ready THEN [copies EXCEPT ![promotion.scope] = after] ELSE copies,
         answer |-> IF ready THEN after ELSE NoState]

(* The control plane decides, or it fails and the route promotes the file. *)
Promote ==
    /\ promotion.phase = "sent"
    /\ \/ LET result == PromoteIn(db)
          IN  /\ db' = result.copies
              /\ UNCHANGED file
              /\ promotion' = [promotion EXCEPT !.phase = "done", !.state = result.answer]
       \/ LET result == PromoteIn(file)
          IN  /\ file' = result.copies
              /\ db' \in {db, PromoteIn(db).copies}
              /\ promotion' = [promotion EXCEPT !.phase = "done", !.state = result.answer]
    /\ UNCHANGED <<page, cycle, now, cyclesRun, promotionsAsked>>

TimePasses ==
    /\ now < MaxTime
    /\ now' = now + 1
    /\ UNCHANGED <<db, file, page, cycle, promotion, cyclesRun, promotionsAsked>>

PromotionNext ==
    \/ RunCycle \/ SelectScope \/ StateLoaded
    \/ AskPromotion \/ PromotionAnswered
    \/ \E n \in 1 .. MaxRuns : RunOnce(n) \/ CycleAnswered(n)
    \/ Promote \/ TimePasses

PromotionSpec == PromotionInit /\ [][PromotionNext]_promotionVars

-----------------------------------------------------------------------------
Copies == {db[s] : s \in Scopes} \union {file[s] : s \in Scopes}
              \union {page.held, promotion.state}
              \union {cycle[n].state : n \in 1 .. MaxRuns}

(* In every copy of the state, wherever it was stored, sent or held, the   *)
(* live strategy is the one promoted last in that copy's audit trail: no   *)
(* cycle makes a strategy live, and no overwritten copy leaves a live      *)
(* strategy without its promotion.                                         *)
LiveIsLastPromoted ==
    \A state \in Copies :
        state.live # NoId => state.audit # <<>> /\ state.audit[1] = state.live

(* In every copy the registry agrees with the two pointers: the entries    *)
(* that are live are exactly those of the live strategy's id (entries of   *)
(* equal ids are live together, a rejected one among them), it has one     *)
(* when there is one, and the shadow strategy has an accepted entry that   *)
(* is not live.                                                            *)
RegistryAgrees ==
    \A state \in Copies :
        LET entries == ToSet(state.entries)
        IN  /\ \A e \in entries : e.status = "live" <=> e.id = state.live
            /\ state.live # NoId => \E e \in entries : e.id = state.live
            /\ state.shadow # NoId =>
                   \E e \in entries : e.id = state.shadow /\ e.accepted /\ e.status = "shadow"

=============================================================================
