----------------------------- MODULE FrameGate -----------------------------
(***************************************************************************)
(* The path of a chart frame in the browser: MarketDataBus queues it       *)
(* (lib/marketDataBus.ts), the golden frame worker puts the frames in the  *)
(* order of their depth sequence and holds each one until its trades and   *)
(* its depth agree or it has waited long enough                            *)
(* (public/workers/goldenFrameWorker.js), and the frame becomes the latest *)
(* frame of its feed (lib/chartFrameFeed.ts).  When the worker fails, the  *)
(* bus runs the same gate on its own thread.                               *)
(*                                                                         *)
(* A frame is its feed, its depth sequence, whether its two event times    *)
(* are close enough to be drawn at once, and its age since createdAt.      *)
(* Timers count down; one that reached 0 may still fire late.              *)
(***************************************************************************)
EXTENDS SequenceGuard, Sequences

CONSTANTS Feeds,      \* configuration keys instrument|venue|timeframe
          Market,     \* the instrument and venue of each feed
          Stall,      \* RENDER_FRAME_STALL_TIMEOUT_MS, in ticks
          Buffer,     \* dynamicBufferMs, in ticks
          MaxSeq,     \* bound: depth sequences are 0 .. MaxSeq
          MaxFrames,  \* bound: frames queued in one behaviour
          MaxSwitches, \* bound: changes of configuration
          MaxFallbacks \* bound: refreshes that fall back on the other routes

ASSUME TimerAssumption == Stall \in Nat /\ Buffer \in 1 .. Stall

NoFeed == "none"     \* snapshot.configKey === "", config === null
Off == -1            \* a timer handle that is null

VARIABLES worker,       \* goldenFrameWorker !== null
          active,       \* snapshot.configKey
          gate,         \* the gate in use: the worker's, else the bus's own
          inbox,        \* messages to the worker
          outbox,       \* frames the worker published
          lastSeq,      \* lastDepthSequence
          latestFrames, \* feeds with an entry in latestFrames
          falling,      \* refreshes of each feed that await their fallback
          late,         \* history: feeds a refresh published when not active
          queued,       \* bound: frames queued so far
          switches,     \* bound: changes of configuration so far
          fallbacks     \* bound: refreshes that fell back so far

gateVars == <<worker, active, gate, inbox, outbox, lastSeq, latestFrames>>
refreshVars == <<falling, late, fallbacks>>
framePathVars == <<gateVars, refreshVars, queued, switches>>

Frames == [feed : Feeds, seq : 0 .. MaxSeq \union {NoSeq},
           atomic : BOOLEAN, age : 0 .. Stall]

(* pending: pendingRenderFrame; gateIn, seqIn: the two timers.             *)
EmptyGate == [guard |-> EmptyGuard, pending |-> {}, gateIn |-> Off,
              seqIn |-> Off]

-----------------------------------------------------------------------------
(* The gate, the same code on either thread.                               *)

Arm(g, frame) == [g EXCEPT !.pending = {frame}, !.gateIn = Buffer]

\* For the mutants: no timer is set for the end of the grace window.
AdvanceWithoutTimer(g, grace) ==
    LET polled == Poll(g.guard, grace)
        moved  == [g EXCEPT !.guard = polled.guard]
    IN  IF g.pending # {} THEN g
        ELSE IF polled.ready # {} THEN Arm(moved, CHOOSE f \in polled.ready : TRUE)
        ELSE moved

(* advanceSequencedFrames(): the next frame in order is armed; otherwise   *)
(* the sequence timer is set for the end of the grace window.              *)
Advance(g, grace) ==
    LET polled == Poll(g.guard, grace)
        moved  == [g EXCEPT !.guard = polled.guard]
    IN  IF g.pending # {} THEN g
        ELSE IF polled.ready # {} THEN Arm(moved, CHOOSE f \in polled.ready : TRUE)
        ELSE IF polled.wake = NoWake THEN moved
        ELSE [moved EXCEPT !.seqIn = IF polled.wake < 1 THEN 1 ELSE polled.wake]

(* queueRenderFrame() and queueFrame(): a numbered frame goes through the  *)
(* guard; one without a number replaces the pending frame of another feed  *)
(* or is merged into the pending frame of its own, whose age stays.        *)
QueueFrame(g, frame, grace) ==
    IF frame.seq # NoSeq
    THEN Advance([g EXCEPT !.guard = Enqueue(@, frame)], grace)
    ELSE IF \A p \in g.pending : p.feed # frame.feed THEN Arm(g, frame)
    ELSE [g EXCEPT !.pending = {[p EXCEPT !.atomic = frame.atomic] : p \in @},
                   !.gateIn = Buffer]

Shown(g) == {p \in g.pending : p.atomic \/ p.age = Stall}

\* For the mutants: the frame leaves and the queue behind it is not advanced.
FlushAlone(g, grace) ==
    [g EXCEPT !.gateIn = Off, !.pending = {}]

(* flushRenderGate(false): a frame whose trades and depth are apart waits  *)
(* again until the stall timeout; otherwise it leaves the gate.            *)
Flush(g, grace) ==
    LET fired == [g EXCEPT !.gateIn = Off]
        wait  == CHOOSE n \in 1 .. Stall :
                    \E p \in g.pending : n = Stall - p.age
    IN  IF g.pending = {} THEN fired
        ELSE IF Shown(g) = {}
             THEN [fired EXCEPT !.gateIn = IF wait < Buffer THEN wait ELSE Buffer]
        ELSE Advance([fired EXCEPT !.pending = {}], grace)

OlderFrame(f) == [f EXCEPT !.age = IF @ = Stall THEN @ ELSE @ + 1]
Down(timer) == IF timer \in {Off, 0} THEN timer ELSE timer - 1

OlderGate(g) ==
    LET guard == Older(g.guard)
    IN  [g EXCEPT !.guard = [guard EXCEPT !.queue = {OlderFrame(f) : f \in @}],
                  !.pending = {OlderFrame(f) : f \in @},
                  !.gateIn = Down(@),
                  !.seqIn = Down(@)]

-----------------------------------------------------------------------------
Reset == [type |-> "reset"]
FrameMessage(f) == [type |-> "queue-frame", frame |-> f]

GateInit ==
    /\ worker = TRUE /\ active = NoFeed
    /\ gate = EmptyGate
    /\ inbox = <<>> /\ outbox = <<>>
    /\ lastSeq = NoSeq
    /\ latestFrames = {}
    /\ falling = [f \in Feeds |-> 0] /\ late = {}
    /\ queued = 0 /\ switches = 0 /\ fallbacks = 0

\* For the mutants: connect() clears the bus's own gate and forgets the worker's.
ClearOwnGateOnly ==
    /\ gate' = IF worker THEN gate ELSE EmptyGate
    /\ UNCHANGED inbox

(* clearRenderGate(): the worker learns of it by a message.                *)
ClearRenderGate ==
    IF worker THEN inbox' = Append(inbox, Reset) /\ UNCHANGED gate
              ELSE gate' = EmptyGate /\ UNCHANGED inbox

(* clearChartFrame() of the feed that was active, if there was one.        *)
ClearChartFrame(shown) ==
    /\ latestFrames' = (latestFrames \ {active}) \union shown
    /\ late' = late \ {active}
    /\ UNCHANGED <<falling, fallbacks>>

SameMarket(f, g) == f \in Feeds /\ g \in Feeds /\ Market[f] = Market[g]

(* connect() of another instrument or venue, or of the first one.          *)
ConnectMarket(feed) ==
    /\ ~SameMarket(active, feed)
    /\ ClearChartFrame({})
    /\ ClearRenderGate
    /\ active' = feed /\ lastSeq' = NoSeq
    /\ UNCHANGED <<worker, outbox>>

(* connect() of another timeframe of the same market: the gate keeps its   *)
(* frames, and what the engine holds of the new timeframe is shown.        *)
SwitchTimeframe(feed) ==
    /\ active # feed /\ SameMarket(active, feed)
    /\ active' = feed
    /\ \E shown \in SUBSET {feed} : ClearChartFrame(shown)
    /\ UNCHANGED <<worker, gate, inbox, outbox, lastSeq>>

Disconnect ==
    /\ active # NoFeed
    /\ active' = NoFeed
    /\ ClearChartFrame({})
    /\ ClearRenderGate
    /\ lastSeq' = NoSeq
    /\ UNCHANGED <<worker, outbox>>

Configure ==
    /\ switches < MaxSwitches
    /\ \/ \E feed \in Feeds : ConnectMarket(feed) \/ SwitchTimeframe(feed)
       \/ Disconnect
    /\ switches' = switches + 1
    /\ UNCHANGED queued

(* publishEngineFrame() in gated mode.                                     *)
Gated(seq, atomic) ==
    LET frame == [feed |-> active, seq |-> seq, atomic |-> atomic, age |-> 0]
    IN  IF worker
        THEN inbox' = Append(inbox, FrameMessage(frame)) /\ UNCHANGED gate
        ELSE /\ \E grace \in GraceWindows : gate' = QueueFrame(gate, frame, grace)
             /\ UNCHANGED inbox

(* A depth message of the primary or of another venue: its number, if it   *)
(* has one, becomes lastDepthSequence; the frame carries no trade.         *)
DepthMessage ==
    /\ active # NoFeed /\ queued < MaxFrames
    /\ \E seq \in 0 .. MaxSeq \union {NoSeq} :
        /\ lastSeq' = IF seq = NoSeq THEN lastSeq ELSE seq
        /\ Gated(lastSeq', TRUE)
    /\ queued' = queued + 1
    /\ UNCHANGED <<worker, active, outbox, latestFrames, switches, refreshVars>>

(* drainTradeRings(): the frame takes the number of the last depth message.*)
TradeDrain ==
    /\ active # NoFeed /\ queued < MaxFrames
    /\ \E atomic \in BOOLEAN : Gated(lastSeq, atomic)
    /\ queued' = queued + 1
    /\ UNCHANGED <<worker, active, outbox, lastSeq, latestFrames, switches, refreshVars>>

(* publishEngineFrame() in immediate mode: a price tick, a bar, a refresh  *)
(* whose snapshot had all it needed.                                       *)
PublishNow ==
    /\ active # NoFeed
    /\ latestFrames' = latestFrames \union {active}
    /\ UNCHANGED <<worker, active, gate, inbox, outbox, lastSeq, queued, switches,
                   refreshVars>>

(* refreshNow() has checked that its feed is still the active one; its     *)
(* snapshot lacks bars or depth, and it awaits the routes behind it.       *)
(* (SnapshotRefresh says which refreshes overlap; any may, here.)          *)
RefreshFallsBack ==
    /\ active # NoFeed /\ fallbacks < MaxFallbacks
    /\ falling' = [falling EXCEPT ![active] = @ + 1]
    /\ fallbacks' = fallbacks + 1
    /\ UNCHANGED <<gateVars, late, queued, switches>>

(* The routes have answered, or the refresh was aborted and they did not:  *)
(* the bars there are, if any, become the latest frame of the feed the     *)
(* refresh was for, with no second look at which feed is active.           *)
FallbackPublishes(feed) ==
    /\ falling[feed] > 0
    /\ falling' = [falling EXCEPT ![feed] = @ - 1]
    /\ \E bars \in SUBSET {feed} :
        /\ latestFrames' = latestFrames \union bars
        /\ late' = late \union (bars \ {active})
    /\ UNCHANGED <<worker, active, gate, inbox, outbox, lastSeq, queued, switches,
                   fallbacks>>

-----------------------------------------------------------------------------
(* self.onmessage of the worker.                                           *)
WorkerReceives ==
    /\ worker /\ inbox # <<>>
    /\ LET message == inbox[1]
       IN  IF message.type = "reset" THEN gate' = EmptyGate
           ELSE \E grace \in GraceWindows :
                    gate' = QueueFrame(gate, message.frame, grace)
    /\ inbox' = Tail(inbox)
    /\ UNCHANGED <<worker, active, outbox, lastSeq, latestFrames, queued, switches,
                   refreshVars>>

(* The render gate timer fires, on the worker or on the bus.               *)
GateTimer ==
    /\ gate.gateIn = 0
    /\ \E grace \in GraceWindows : gate' = Flush(gate, grace)
    /\ LET feeds == {p.feed : p \in Shown(gate)}
       IN  IF worker
           THEN /\ \/ feeds = {} /\ UNCHANGED outbox
                   \/ \E f \in feeds : outbox' = Append(outbox, f)
                /\ UNCHANGED latestFrames
           ELSE latestFrames' = latestFrames \union feeds /\ UNCHANGED outbox
    /\ UNCHANGED <<worker, active, inbox, lastSeq, queued, switches,
                   refreshVars>>

SequenceTimer ==
    /\ gate.seqIn = 0
    /\ \E grace \in GraceWindows :
        gate' = Advance([gate EXCEPT !.seqIn = Off], grace)
    /\ UNCHANGED <<worker, active, inbox, outbox, lastSeq, latestFrames, queued, switches,
                   refreshVars>>

\* For the mutants: a frame is shown whatever feed is active.
WorkerEventOfAnyFeed ==
    /\ worker /\ outbox # <<>>
    /\ latestFrames' = latestFrames \union {outbox[1]}
    /\ outbox' = Tail(outbox)
    /\ UNCHANGED <<worker, active, gate, inbox, lastSeq, queued, switches,
                   refreshVars>>

(* handleGoldenFrameWorkerEvent(): a frame of another feed is dropped.     *)
WorkerEvent ==
    /\ worker /\ outbox # <<>>
    /\ latestFrames' = latestFrames \union ({outbox[1]} \intersect {active})
    /\ outbox' = Tail(outbox)
    /\ UNCHANGED <<worker, active, gate, inbox, lastSeq, queued, switches,
                   refreshVars>>

(* worker.onerror: terminate(); what it held and both channels are lost,   *)
(* and the bus starts with its own empty gate.                             *)
WorkerError ==
    /\ worker
    /\ worker' = FALSE
    /\ gate' = EmptyGate
    /\ inbox' = <<>> /\ outbox' = <<>>
    /\ UNCHANGED <<active, lastSeq, latestFrames, queued, switches,
                   refreshVars>>

Tick ==
    /\ gate' = OlderGate(gate)
    /\ inbox' = [i \in DOMAIN inbox |->
                    IF inbox[i].type = "reset" THEN inbox[i]
                    ELSE FrameMessage(OlderFrame(inbox[i].frame))]
    /\ UNCHANGED <<worker, active, outbox, lastSeq, latestFrames, queued, switches,
                   refreshVars>>

GateNext ==
    \/ Configure \/ DepthMessage \/ TradeDrain \/ PublishNow
    \/ RefreshFallsBack \/ (\E feed \in Feeds : FallbackPublishes(feed))
    \/ WorkerReceives \/ GateTimer \/ SequenceTimer \/ WorkerEvent
    \/ WorkerError \/ Tick

(* The browser delivers messages and runs due timers; time passes.         *)
GateFairness ==
    /\ WF_framePathVars(WorkerReceives) /\ WF_framePathVars(WorkerEvent)
    /\ WF_framePathVars(GateTimer) /\ WF_framePathVars(SequenceTimer)
    /\ WF_framePathVars(Tick)

GateSpec == GateInit /\ [][GateNext]_framePathVars /\ GateFairness

-----------------------------------------------------------------------------
(* No wake-up is lost: a held frame always has its gate timer running, and *)
(* frames queued behind nothing have the sequence timer running.  Both are *)
(* re-armed in different functions, and each fires once.                   *)
NoLostWakeup ==
    /\ gate.pending # {} => gate.gateIn # Off
    /\ gate.pending = {} /\ Live(gate.guard) # {} => gate.seqIn # Off

(* Once connect() has left a market, no frame of it is left in the gate    *)
(* after the reset has been seen: frames behind the last reset, or all if  *)
(* none is on its way, belong to the market of the active feed.            *)
GateHoldsThisMarket ==
    LET resets == {i \in DOMAIN inbox : inbox[i].type = "reset"}
        own(f) == SameMarket(f.feed, active)
    IN  /\ \A i \in DOMAIN inbox \ resets :
               (\A r \in resets : r < i) => own(inbox[i].frame)
        /\ resets = {} => \A f \in gate.pending \union gate.guard.queue : own(f)

(* While the worker lives, a feed that connect() or disconnect() cleared   *)
(* does not come back by a late frame of the worker: a feed that is not    *)
(* active is shown only if a refresh brought it back that had passed its   *)
(* check while the feed was active and awaited its fallback since then.    *)
StaleFeedsByRefreshOnly == worker => latestFrames \subseteq {active} \union late

(* Whatever was queued leaves: the gate, its queue and both channels run   *)
(* empty when frames stop coming, in spite of gaps in the numbering and of *)
(* frames whose trades and depth stay apart.                               *)
Idle == /\ inbox = <<>> /\ outbox = <<>>
        /\ gate.pending = {} /\ Live(gate.guard) = {}
EventuallyIdle == <>[]Idle
=============================================================================
