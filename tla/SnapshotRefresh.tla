-------------------------- MODULE SnapshotRefresh --------------------------
(***************************************************************************)
(* MarketDataBus.refreshNow() (lib/marketDataBus.ts): the REST snapshot    *)
(* that fills and refreshes the chart beside the sockets.  It awaits the   *)
(* snapshot, checks that it was not overtaken, may await the fallback      *)
(* routes, and writes what it got into the engine and the snapshot of      *)
(* whatever configuration the bus has by then.                             *)
(***************************************************************************)
EXTENDS Integers, FiniteSets

CONSTANTS Configs,      \* instrument|venue|timeframe keys
          Market,       \* the instrument and venue of each
          MaxFlights,   \* bound: refreshes waiting at one time
          MaxConfigures \* bound: connect() and disconnect() calls

NoConfig == "none"

ASSUME ConfigsAssumption == NoConfig \notin Configs

NoFlight == 0
FlightIds == 1 .. MaxFlights

VARIABLES config,      \* this.config
          engine,      \* markets whose bars and trades the engine was given
          fetches,     \* the refreshes and what refreshNow() knows of them
          coolingDown, \* Date.now() < snapshotFailureCooldownUntil
          shown,       \* the configuration of snapshot.nativeTrades
          configures   \* bound: configurations so far

refreshVars == <<config, engine, fetches, coolingDown, shown, configures>>

(* flights: refreshes waiting for an answer, by id; controller and key:    *)
(* sideFetchController and sideFetchConfigKey; timer: sideRefreshTimer.    *)
NoFetches == [flights |-> <<>>, controller |-> NoFlight, key |-> NoConfig,
              timer |-> FALSE]

RefreshInit ==
    /\ config = NoConfig /\ engine = {}
    /\ fetches = NoFetches
    /\ coolingDown = FALSE
    /\ shown = NoConfig /\ configures = 0

Aborted(fs) ==
    [fs EXCEPT !.flights = [i \in DOMAIN @ |->
        IF i = fs.controller THEN [@[i] EXCEPT !.aborted = TRUE] ELSE @[i]]]

FreeIds(fs) == FlightIds \ DOMAIN fs.flights

(* The request of refreshNow(): it aborts the refresh it overtakes.        *)
Request(fs, c) ==
    LET id     == CHOOSE i \in FreeIds(fs) : TRUE
        flight == [config |-> c, awaits |-> "snapshot", ok |-> TRUE, aborted |-> FALSE]
        before == Aborted(fs).flights
    IN  [fs EXCEPT !.flights = [i \in DOMAIN before \union {id} |->
                                   IF i = id THEN flight ELSE before[i]],
                   !.controller = id, !.key = c]

(* refreshNow() up to its first await: nothing while a refresh of this key *)
(* is on its way, a timer during the cooldown, otherwise a new request.    *)
Refresh(fs, c) ==
    /\ FreeIds(fs) # {}
    /\ fetches' = IF c = NoConfig \/ (fs.controller # NoFlight /\ fs.key = c) THEN fs
                  ELSE IF coolingDown THEN [fs EXCEPT !.timer = TRUE]
                  ELSE Request(fs, c)

SameMarket(c, d) == c \in Configs /\ d \in Configs /\ Market[c] = Market[d]

(* disconnectSockets(), as far as the refresh goes.                        *)
Cleared(fs) == [NoFetches EXCEPT !.flights = Aborted(fs).flights]

(* connect() of another timeframe keeps the engine, the timer and the      *)
(* refresh on its way, until refreshNow() overtakes it.                    *)
RefreshTimeframe ==
    /\ \E c \in Configs \ {config} :
        /\ SameMarket(c, config)
        /\ config' = c
        /\ Refresh(fetches, c)
    /\ UNCHANGED <<engine, shown>>

(* connect() of another market: an engine that starts from zero.           *)
RefreshMarket ==
    /\ \E c \in Configs :
        /\ ~SameMarket(c, config)
        /\ config' = c
        /\ Refresh(Cleared(fetches), c)
    /\ engine' = {}
    /\ shown' = NoConfig

StopRefresh ==
    /\ config # NoConfig
    /\ config' = NoConfig
    /\ fetches' = Cleared(fetches)
    /\ engine' = {}
    /\ shown' = NoConfig

Configure ==
    /\ configures < MaxConfigures
    /\ RefreshTimeframe \/ RefreshMarket \/ StopRefresh
    /\ configures' = configures + 1
    /\ UNCHANGED coolingDown

(* The timer of scheduleSideRefresh(), or a caller: a stream in cooldown.  *)
SideRefreshTimer ==
    /\ fetches.timer
    /\ Refresh([fetches EXCEPT !.timer = FALSE], config)
    /\ UNCHANGED <<config, engine, coolingDown, shown, configures>>

RefreshCalled ==
    /\ Refresh(fetches, config)
    /\ UNCHANGED <<config, engine, coolingDown, shown, configures>>

-----------------------------------------------------------------------------
(* releaseSideFetch(), and the flight is over.                             *)
Released(fs, id) ==
    [fs EXCEPT !.flights = [i \in DOMAIN @ \ {id} |-> @[i]],
               !.controller = IF @ = id THEN NoFlight ELSE @,
               !.key = IF fs.controller = id THEN NoConfig ELSE @]

\* For the mutants: the next refresh is not scheduled.
WriteOnce(id) ==
    /\ \/ engine' = engine
       \/ config # NoConfig /\ engine' = engine \union {Market[fetches.flights[id].config]}
    /\ shown' = fetches.flights[id].config
    /\ fetches' = Released(fetches, id)

(* The rest of refreshNow(): bars and trades, if the answer has any, go    *)
(* into the engine there is by now, and the snapshot is rewritten.         *)
Write(id) ==
    /\ \/ engine' = engine
       \/ config # NoConfig /\ engine' = engine \union {Market[fetches.flights[id].config]}
    /\ shown' = fetches.flights[id].config
    /\ fetches' = [Released(fetches, id) EXCEPT !.timer = TRUE]

(* The first await returns: an answer that was aborted or that is for      *)
(* another configuration is dropped; a usable one is written; a failed or  *)
(* incomplete one goes on to the fallback routes.                          *)
SnapshotAnswer(id) ==
    LET flight == fetches.flights[id]
        stale  == flight.aborted \/ flight.config # config
    IN  /\ flight.awaits = "snapshot"
        /\ \/ /\ stale
              /\ fetches' = Released(fetches, id)
              /\ UNCHANGED <<engine, shown, coolingDown>>
           \/ /\ ~stale
              /\ Write(id)
              /\ coolingDown' = FALSE
           \/ /\ ~stale
              /\ \E ok \in BOOLEAN :
                    fetches' = [fetches EXCEPT !.flights[id].awaits = "fallback",
                                               !.flights[id].ok = ok]
              /\ UNCHANGED <<engine, shown, coolingDown>>
        /\ UNCHANGED <<config, configures>>

(* The second await returns, null for what failed or was aborted: there is *)
(* no check after it.                                                      *)
FallbackAnswer(id) ==
    /\ fetches.flights[id].awaits = "fallback"
    /\ Write(id)
    /\ coolingDown' = ~fetches.flights[id].ok
    /\ UNCHANGED <<config, configures>>

Answer(id) ==
    /\ id \in DOMAIN fetches.flights
    /\ SnapshotAnswer(id) \/ FallbackAnswer(id)

SnapshotCooldownEnds ==
    /\ coolingDown
    /\ coolingDown' = FALSE
    /\ UNCHANGED <<config, engine, fetches, shown, configures>>

RefreshNext ==
    \/ Configure \/ SideRefreshTimer \/ RefreshCalled
    \/ \E id \in FlightIds : Answer(id)
    \/ SnapshotCooldownEnds

(* Every request is answered or fails; timers fire; time passes.           *)
RefreshFairness ==
    /\ \A id \in FlightIds : WF_refreshVars(Answer(id))
    /\ WF_refreshVars(SideRefreshTimer) /\ WF_refreshVars(SnapshotCooldownEnds)

RefreshSpec == RefreshInit /\ [][RefreshNext]_refreshVars /\ RefreshFairness

-----------------------------------------------------------------------------
Flights == [config : Configs, awaits : {"snapshot", "fallback"},
            ok : BOOLEAN, aborted : BOOLEAN]

RefreshTypeOK ==
    /\ config \in Configs \union {NoConfig}
    /\ engine \subseteq {Market[c] : c \in Configs}
    /\ DOMAIN fetches.flights \subseteq FlightIds
    /\ \A i \in DOMAIN fetches.flights : fetches.flights[i] \in Flights
    /\ fetches.controller \in DOMAIN fetches.flights \union {NoFlight}
    /\ fetches.key \in Configs \union {NoConfig} /\ fetches.timer \in BOOLEAN
    /\ coolingDown \in BOOLEAN /\ shown \in Configs \union {NoConfig}

(* At most one refresh is neither aborted nor answered, and it is the one  *)
(* whose controller and key the bus holds: what overtakes it aborts it.    *)
OneLiveRefresh ==
    \A i \in DOMAIN fetches.flights : ~fetches.flights[i].aborted
        => i = fetches.controller /\ fetches.flights[i].config = fetches.key

(* Refreshing never stops while a configuration is connected: a refresh of *)
(* it is on its way or a timer will make one.                              *)
RefreshingGoesOn ==
    config # NoConfig =>
        \/ fetches.timer
        \/ \E i \in DOMAIN fetches.flights :
               ~fetches.flights[i].aborted /\ fetches.flights[i].config = config

(* After the last change of configuration the trades shown become those of *)
(* the configuration and stay so, whatever refreshes of earlier ones are   *)
(* still to be answered.                                                   *)
ShownSettles == <>[](config # NoConfig => shown = config)

=============================================================================
