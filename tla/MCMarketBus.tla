---------------------------- MODULE MCMarketBus ----------------------------
(***************************************************************************)
(* Four parts of MarketDataBus: its trade sockets, its REST refresh, its   *)
(* trade rings and its order book.  They are explored one at a time: each  *)
(* moves only while the others are in their initial states.  They share no *)
(* variable, so interleaving them would multiply the states and show       *)
(* nothing more.                                                           *)
(***************************************************************************)
EXTENDS MarketBusStreams, SnapshotRefresh, TradeRings, LocalOrderBook

(* Two public venues of the fusion and a broker venue outside of it.       *)
MCFusion == {"binance", "okx"}
MCVenues == MCFusion \union {"broker"}
MCPriority == [v \in MCFusion |-> IF v = "binance" THEN 1 ELSE 3]

(* Two timeframes of one market and one of another.                        *)
MCConfigs == {"a1", "a5", "b1"}
MCMarket == [a1 |-> "a", a5 |-> "a", b1 |-> "b"]

(* Histories in which every update changes the book.                       *)
Update(l, s) == [level |-> l, size |-> s]
MCHistory ==
    [binance |-> <<Update("l1", 1), Update("l2", 2), Update("l1", 0),
                   Update("l1", 2)>>,
     okx     |-> <<Update("l2", 1), Update("l1", 1)>>]

allVars == <<streamsVars, refreshVars, ringsVars, localBookVars>>

Init == StreamsInit /\ RefreshInit /\ RingsInit /\ BookInit

Next ==
    \/ /\ RefreshInit /\ RingsInit /\ BookInit
       /\ StreamsNext /\ UNCHANGED <<refreshVars, ringsVars, localBookVars>>
    \/ /\ StreamsInit /\ RingsInit /\ BookInit
       /\ RefreshNext /\ UNCHANGED <<streamsVars, ringsVars, localBookVars>>
    \/ /\ StreamsInit /\ RefreshInit /\ BookInit
       /\ RingsNext /\ UNCHANGED <<streamsVars, refreshVars, localBookVars>>
    \/ /\ StreamsInit /\ RefreshInit /\ RingsInit
       /\ BookNext /\ UNCHANGED <<streamsVars, refreshVars, ringsVars>>

(* What is fair in a part is disabled in its initial state, but for the    *)
(* refresh of the book: it is fair where the book is the part that moves.  *)
BookFairness ==
    /\ WF_localBookVars(DeltaArrives)
    /\ WF_localBookVars(StreamsInit /\ RefreshInit /\ RingsInit /\ RestSnapshotArrives)

Spec ==
    /\ Init /\ [][Next]_allVars
    /\ StreamsFairness /\ RefreshFairness /\ WF_ringsVars(DrainFrame) /\ BookFairness
=============================================================================
