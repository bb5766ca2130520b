-------------------------- MODULE MarketBusProofs --------------------------
(***************************************************************************)
(* Proofs about four parts of MarketDataBus, each from its own             *)
(* specification: the REST refresh, the sockets of a stream, the trade     *)
(* rings and the local order book.                                         *)
(***************************************************************************)
EXTENDS SnapshotRefresh, MarketBusStreams, TradeRings, LocalOrderBook,
        FiniteSetTheorems, FunctionTheorems, WellFoundedInduction, TLAPS

-----------------------------------------------------------------------------
(* The REST refresh.                                                       *)

(* The controller the bus holds is of a refresh that is not aborted and    *)
(* whose configuration is the key: refreshNow() may rely on the two when   *)
(* it decides that there is nothing to do.                                 *)
ControllerIsLive(fs) ==
    fs.controller # NoFlight =>
        /\ fs.controller \in DOMAIN fs.flights
        /\ ~fs.flights[fs.controller].aborted
        /\ fs.flights[fs.controller].config = fs.key

(* The parts of the invariant that are about the refreshes alone.          *)
FetchesOK(fs) ==
    /\ DOMAIN fs = {"flights", "controller", "key", "timer"}
    /\ fs.timer \in BOOLEAN
    /\ fs.key \in Configs \union {NoConfig}
    /\ DOMAIN fs.flights \subseteq FlightIds
    /\ fs.flights = [i \in DOMAIN fs.flights |-> fs.flights[i]]
    /\ \A i \in DOMAIN fs.flights : fs.flights[i] \in Flights
    /\ fs.controller \in DOMAIN fs.flights \union {NoFlight}
    /\ \A i \in DOMAIN fs.flights : ~fs.flights[i].aborted
          => i = fs.controller /\ fs.flights[i].config = fs.key
    /\ ControllerIsLive(fs)

LiveFor(fs, c) ==
    \E i \in DOMAIN fs.flights : ~fs.flights[i].aborted /\ fs.flights[i].config = c

RefreshInv ==
    /\ config \in Configs \union {NoConfig}
    /\ engine \subseteq {Market[c] : c \in Configs}
    /\ coolingDown \in BOOLEAN /\ shown \in Configs \union {NoConfig}
    /\ FetchesOK(fetches)
    /\ config # NoConfig => fetches.timer \/ LiveFor(fetches, config)

LEMMA NoFetchesOK == FetchesOK(NoFetches)
BY DEF NoFetches, FetchesOK, ControllerIsLive, NoFlight, NoConfig

(* The bus starts without a refresh.                                       *)
LEMMA RefreshInvInit == RefreshInit => RefreshInv
BY NoFetchesOK DEF RefreshInit, RefreshInv

(* Aborting marks the refresh of the controller and nothing else.          *)
LEMMA AbortedForm ==
    ASSUME NEW fs, FetchesOK(fs), NEW after, after = Aborted(fs).flights
    PROVE  /\ DOMAIN after = DOMAIN fs.flights
           /\ \A i \in DOMAIN after : after[i] \in Flights /\ after[i].aborted
           /\ after = [i \in DOMAIN after |-> after[i]]
<1>1. after = [i \in DOMAIN fs.flights |->
                  IF i = fs.controller THEN [fs.flights[i] EXCEPT !.aborted = TRUE]
                                       ELSE fs.flights[i]]
    BY DEF Aborted, FetchesOK
<1>2. ASSUME NEW i \in DOMAIN fs.flights
      PROVE  after[i] \in Flights /\ after[i].aborted
    <2>1. CASE i = fs.controller
        <3>1. after[i] = [fs.flights[i] EXCEPT !.aborted = TRUE]
            BY <1>1, <2>1
        <3>2. fs.flights[i] \in Flights
            BY DEF FetchesOK
        <3> QED
            BY <3>1, <3>2 DEF Flights
    <2>2. CASE i # fs.controller
        BY <1>1, <2>2 DEF FetchesOK, Flights
    <2> QED
        BY <2>1, <2>2
<1> QED
    BY <1>1, <1>2

LEMMA ClearedOK ==
    ASSUME NEW fs, FetchesOK(fs) PROVE FetchesOK(Cleared(fs))
<1> DEFINE after == Aborted(fs).flights
<1>1. /\ DOMAIN after = DOMAIN fs.flights
      /\ \A i \in DOMAIN after : after[i] \in Flights /\ after[i].aborted
      /\ after = [i \in DOMAIN after |-> after[i]]
    BY AbortedForm
<1>2. /\ DOMAIN Cleared(fs) = {"flights", "controller", "key", "timer"}
      /\ Cleared(fs).flights = after /\ Cleared(fs).controller = NoFlight
      /\ Cleared(fs).key = NoConfig /\ Cleared(fs).timer = FALSE
    BY DEF Cleared, NoFetches
<1>3. DOMAIN fs.flights \subseteq FlightIds
    BY DEF FetchesOK
<1> HIDE DEF after
<1> QED
    BY <1>1, <1>2, <1>3 DEF FetchesOK, ControllerIsLive

(* A new request is live and for the configuration asked for.              *)
LEMMA RequestOK ==
    ASSUME NEW fs, FetchesOK(fs), NEW c \in Configs, FreeIds(fs) # {}
    PROVE  FetchesOK(Request(fs, c)) /\ LiveFor(Request(fs, c), c)
<1> DEFINE id == CHOOSE i \in FreeIds(fs) : TRUE
           before == Aborted(fs).flights
           flight == [config |-> c, awaits |-> "snapshot", ok |-> TRUE, aborted |-> FALSE]
           flights == [i \in DOMAIN before \union {id} |-> IF i = id THEN flight ELSE before[i]]
<1>1. id \in FlightIds /\ id \notin DOMAIN fs.flights
    BY DEF FreeIds
<1>2. /\ DOMAIN before = DOMAIN fs.flights
      /\ \A i \in DOMAIN before : before[i] \in Flights /\ before[i].aborted
    BY AbortedForm
<1>3. /\ DOMAIN Request(fs, c) = {"flights", "controller", "key", "timer"}
      /\ Request(fs, c).flights = flights /\ Request(fs, c).controller = id
      /\ Request(fs, c).key = c /\ Request(fs, c).timer = fs.timer
    BY DEF Request, FetchesOK
<1>4. flight \in Flights /\ ~flight.aborted /\ flight.config = c
    BY DEF Flights
<1> HIDE DEF id, before, flight
<1>5. /\ DOMAIN flights = DOMAIN fs.flights \union {id}
      /\ flights[id] = flight
      /\ \A i \in DOMAIN fs.flights : flights[i] \in Flights /\ flights[i].aborted
      /\ flights = [i \in DOMAIN flights |-> flights[i]]
    BY <1>1, <1>2
<1>6. DOMAIN fs.flights \subseteq FlightIds /\ fs.timer \in BOOLEAN
    BY DEF FetchesOK
<1> HIDE DEF flights
<1>7. FetchesOK(Request(fs, c))
    BY <1>1, <1>3, <1>4, <1>5, <1>6 DEF FetchesOK, ControllerIsLive
<1>8. LiveFor(Request(fs, c), c)
    BY <1>3, <1>4, <1>5 DEF LiveFor
<1> QED
    BY <1>7, <1>8

(* refreshNow() up to its first await leaves a refresh of its key on its   *)
(* way, or a timer.                                                        *)
LEMMA RefreshCallOK ==
    ASSUME NEW fs, FetchesOK(fs), NEW c \in Configs \union {NoConfig}, Refresh(fs, c)
    PROVE  /\ FetchesOK(fetches')
           /\ c # NoConfig => fetches'.timer \/ LiveFor(fetches', c)
<1>1. CASE c = NoConfig
    BY <1>1 DEF Refresh
<1>2. CASE c # NoConfig /\ fs.controller # NoFlight /\ fs.key = c
    <2>1. fetches' = fs
        BY <1>2 DEF Refresh
    <2>2. LiveFor(fs, c)
        BY <1>2 DEF FetchesOK, ControllerIsLive, LiveFor
    <2> QED
        BY <2>1, <2>2
<1>3. CASE c # NoConfig /\ ~(fs.controller # NoFlight /\ fs.key = c) /\ coolingDown
    <2>1. fetches' = [fs EXCEPT !.timer = TRUE]
        BY <1>3 DEF Refresh
    <2>2. /\ DOMAIN fetches' = {"flights", "controller", "key", "timer"}
          /\ fetches'.flights = fs.flights /\ fetches'.controller = fs.controller
          /\ fetches'.key = fs.key /\ fetches'.timer = TRUE
        BY <2>1 DEF FetchesOK
    <2> QED
        BY <2>2 DEF FetchesOK, ControllerIsLive
<1>4. CASE c # NoConfig /\ ~(fs.controller # NoFlight /\ fs.key = c) /\ ~coolingDown
    <2>1. fetches' = Request(fs, c) /\ FreeIds(fs) # {}
        BY <1>4 DEF Refresh
    <2> QED
        BY <1>4, <2>1, RequestOK
<1> QED
    BY <1>1, <1>2, <1>3, <1>4

LEMMA ConfigureKeeps == RefreshInv /\ Configure => RefreshInv'
<1> SUFFICES ASSUME RefreshInv, Configure PROVE RefreshInv'
    OBVIOUS
<1> USE DEF RefreshInv, Configure
<1>1. CASE RefreshTimeframe
    <2>1. PICK c \in Configs : config' = c /\ Refresh(fetches, c) /\ UNCHANGED <<engine, shown>>
        BY <1>1 DEF RefreshTimeframe
    <2> QED
        BY <2>1, RefreshCallOK
<1>2. CASE RefreshMarket
    <2>1. PICK c \in Configs : config' = c /\ Refresh(Cleared(fetches), c)
        BY <1>2 DEF RefreshMarket
    <2>2. FetchesOK(fetches') /\ (c # NoConfig => fetches'.timer \/ LiveFor(fetches', c))
        BY <2>1, ClearedOK, RefreshCallOK
    <2> QED
        BY <1>2, <2>1, <2>2 DEF RefreshMarket
<1>3. CASE StopRefresh
    BY <1>3, ClearedOK DEF StopRefresh
<1> QED
    BY <1>1, <1>2, <1>3

(* A refresh that is over leaves the refreshes of others alone.            *)
LEMMA ReleasedOK ==
    ASSUME NEW fs, FetchesOK(fs), NEW id \in DOMAIN fs.flights
    PROVE  /\ FetchesOK(Released(fs, id))
           /\ Released(fs, id).timer = fs.timer
           /\ \A c : LiveFor(fs, c) /\ (fs.flights[id].aborted \/ fs.flights[id].config # c)
                => LiveFor(Released(fs, id), c)
<1> DEFINE after == Released(fs, id)
<1>1. /\ DOMAIN after = {"flights", "controller", "key", "timer"}
      /\ after.flights = [i \in DOMAIN fs.flights \ {id} |-> fs.flights[i]]
      /\ after.controller = IF fs.controller = id THEN NoFlight ELSE fs.controller
      /\ after.key = IF fs.controller = id THEN NoConfig ELSE fs.key
      /\ after.timer = fs.timer
    BY DEF Released, FetchesOK
<1> HIDE DEF after
<1>2. /\ DOMAIN after.flights = DOMAIN fs.flights \ {id}
      /\ \A i \in DOMAIN after.flights : after.flights[i] = fs.flights[i]
      /\ after.flights = [i \in DOMAIN after.flights |-> after.flights[i]]
    BY <1>1
<1>3. FetchesOK(after)
    <2>1. CASE fs.controller = id
        BY <1>1, <1>2, <2>1 DEF FetchesOK, ControllerIsLive
    <2>2. CASE fs.controller # id
        BY <1>1, <1>2, <2>2 DEF FetchesOK, ControllerIsLive
    <2> QED
        BY <2>1, <2>2
<1>4. ASSUME NEW c, LiveFor(fs, c), fs.flights[id].aborted \/ fs.flights[id].config # c
      PROVE  LiveFor(after, c)
    BY <1>2, <1>4 DEF LiveFor
<1> QED
    BY <1>1, <1>3, <1>4 DEF after

(* The snapshot and the fallback answer of a refresh.                      *)
LEMMA AnswerKeeps ==
    ASSUME RefreshInv, NEW id \in FlightIds, Answer(id) PROVE RefreshInv'
<1> USE DEF RefreshInv
<1>1. id \in DOMAIN fetches.flights /\ FetchesOK(fetches)
    BY DEF Answer
<1>2. /\ FetchesOK(Released(fetches, id))
      /\ Released(fetches, id).timer = fetches.timer
      /\ \A c : LiveFor(fetches, c)
                  /\ (fetches.flights[id].aborted \/ fetches.flights[id].config # c)
            => LiveFor(Released(fetches, id), c)
    BY <1>1, ReleasedOK
<1>3. fetches.flights[id] \in Flights
    BY <1>1 DEF FetchesOK
<1>4. ASSUME Write(id), UNCHANGED config, coolingDown' \in BOOLEAN
      PROVE  RefreshInv'
    <2>1. /\ DOMAIN fetches' = DOMAIN Released(fetches, id)
          /\ fetches'.flights = Released(fetches, id).flights
          /\ fetches'.controller = Released(fetches, id).controller
          /\ fetches'.key = Released(fetches, id).key
          /\ fetches'.timer = TRUE
        BY <1>2, <1>4 DEF Write, FetchesOK
    <2>2. FetchesOK(fetches')
        BY <1>2, <2>1, ZenonT(30) DEF FetchesOK, ControllerIsLive
    <2>3. fetches.flights[id].config \in Configs
        BY <1>3 DEF Flights
    <2>4. engine' \subseteq {Market[c] : c \in Configs} /\ shown' \in Configs
        BY <1>4, <2>3 DEF Write
    <2> QED
        BY <1>4, <2>1, <2>2, <2>4
<1>5. CASE SnapshotAnswer(id)
    <2> DEFINE stale == fetches.flights[id].aborted \/ fetches.flights[id].config # config
    <2>1. CASE /\ stale
               /\ fetches' = Released(fetches, id)
               /\ UNCHANGED <<engine, shown, coolingDown, config>>
        BY <1>2, <2>1
    <2>2. CASE Write(id) /\ coolingDown' = FALSE /\ UNCHANGED config
        BY <1>4, <2>2
    <2>3. CASE /\ \E ok \in BOOLEAN :
                     fetches' = [fetches EXCEPT !.flights[id].awaits = "fallback",
                                                !.flights[id].ok = ok]
               /\ UNCHANGED <<engine, shown, coolingDown, config>>
        <3>1. PICK ok \in BOOLEAN :
                fetches' = [fetches EXCEPT !.flights[id].awaits = "fallback",
                                           !.flights[id].ok = ok]
            BY <2>3
        <3>2. /\ DOMAIN fetches' = {"flights", "controller", "key", "timer"}
              /\ fetches'.flights =
                    [fetches.flights EXCEPT ![id] = [@ EXCEPT !.awaits = "fallback", !.ok = ok]]
              /\ fetches'.controller = fetches.controller /\ fetches'.key = fetches.key
              /\ fetches'.timer = fetches.timer
            BY <1>1, <3>1 DEF FetchesOK
        <3>3. /\ DOMAIN fetches'.flights = DOMAIN fetches.flights
              /\ \A i \in DOMAIN fetches.flights :
                    /\ fetches'.flights[i] \in Flights
                    /\ fetches'.flights[i].aborted = fetches.flights[i].aborted
                    /\ fetches'.flights[i].config = fetches.flights[i].config
              /\ fetches'.flights = [i \in DOMAIN fetches'.flights |-> fetches'.flights[i]]
            <4> DEFINE flight == [fetches.flights[id] EXCEPT !.awaits = "fallback", !.ok = ok]
            <4>1. /\ flight \in Flights /\ flight.aborted = fetches.flights[id].aborted
                  /\ flight.config = fetches.flights[id].config
                BY <1>3, <3>1 DEF Flights
            <4>2. fetches'.flights = [fetches.flights EXCEPT ![id] = flight]
                BY <3>2
            <4> HIDE DEF flight
            <4>3. /\ DOMAIN fetches'.flights = DOMAIN fetches.flights
                  /\ \A i \in DOMAIN fetches.flights :
                        fetches'.flights[i] = IF i = id THEN flight ELSE fetches.flights[i]
                  /\ fetches'.flights = [i \in DOMAIN fetches'.flights |-> fetches'.flights[i]]
                BY <1>1, <4>2
            <4> QED
                BY <1>1, <4>1, <4>3 DEF FetchesOK
        <3>4. FetchesOK(fetches')
            BY <1>1, <3>2, <3>3 DEF FetchesOK, ControllerIsLive
        <3>5. \A c : LiveFor(fetches, c) => LiveFor(fetches', c)
            BY <3>3 DEF LiveFor
        <3> QED
            BY <2>3, <3>2, <3>4, <3>5
    <2> QED
        BY <1>5, <2>1, <2>2, <2>3 DEF SnapshotAnswer
<1>6. CASE FallbackAnswer(id)
    <2>1. Write(id) /\ UNCHANGED config
        BY <1>6 DEF FallbackAnswer
    <2>2. coolingDown' \in BOOLEAN
        BY <1>6 DEF FallbackAnswer
    <2> QED
        BY <1>4, <2>1, <2>2
<1> QED
    BY <1>5, <1>6 DEF Answer

(* Case by case over the actions of the refresh.                           *)
LEMMA RefreshInvKept == RefreshInv /\ [RefreshNext]_refreshVars => RefreshInv'
<1> SUFFICES ASSUME RefreshInv, [RefreshNext]_refreshVars PROVE RefreshInv'
    OBVIOUS
<1>1. CASE Configure
    BY <1>1, ConfigureKeeps
<1>2. CASE SideRefreshTimer
    <2> DEFINE idle == [fetches EXCEPT !.timer = FALSE]
    <2>1. /\ DOMAIN idle = {"flights", "controller", "key", "timer"}
          /\ idle.flights = fetches.flights /\ idle.controller = fetches.controller
          /\ idle.key = fetches.key /\ idle.timer = FALSE
        BY DEF RefreshInv, FetchesOK
    <2>2. Refresh(idle, config) /\ UNCHANGED <<config, engine, coolingDown, shown>>
        BY <1>2 DEF SideRefreshTimer
    <2> HIDE DEF idle
    <2>3. FetchesOK(idle)
        BY <2>1 DEF RefreshInv, FetchesOK, ControllerIsLive
    <2>4. FetchesOK(fetches') /\ (config # NoConfig => fetches'.timer \/ LiveFor(fetches', config))
        BY <2>2, <2>3, RefreshCallOK DEF RefreshInv
    <2> QED
        BY <2>2, <2>4 DEF RefreshInv
<1>3. CASE RefreshCalled
    <2>1. FetchesOK(fetches') /\ (config # NoConfig => fetches'.timer \/ LiveFor(fetches', config))
        BY <1>3, RefreshCallOK DEF RefreshCalled, RefreshInv
    <2> QED
        BY <1>3, <2>1 DEF RefreshCalled, RefreshInv
<1>4. CASE \E id \in FlightIds : Answer(id)
    BY <1>4, AnswerKeeps
<1>5. CASE SnapshotCooldownEnds
    BY <1>5 DEF SnapshotCooldownEnds, RefreshInv
<1>6. CASE UNCHANGED refreshVars
    BY <1>6 DEF refreshVars, RefreshInv
<1> QED
    BY <1>1, <1>2, <1>3, <1>4, <1>5, <1>6 DEF RefreshNext

(* The controller the bus holds, its key and the one refresh that may still *)
(* be answered agree at every step.                                        *)
THEOREM RefreshInvariant == RefreshSpec => []RefreshInv
BY RefreshInvInit, RefreshInvKept, PTL DEF RefreshSpec

(* The refreshes, their controller and their key stay well-formed.         *)
THEOREM RefreshTypeCorrect == RefreshSpec => []RefreshTypeOK
<1>1. RefreshInv => RefreshTypeOK
    BY DEF RefreshInv, FetchesOK, RefreshTypeOK
<1> QED
    BY <1>1, RefreshInvariant, PTL

(* At most one refresh is neither aborted nor answered, and it is the one  *)
(* whose controller and key the bus holds.                                 *)
THEOREM OneRefreshLives == RefreshSpec => []OneLiveRefresh
<1>1. RefreshInv => OneLiveRefresh
    BY DEF RefreshInv, FetchesOK, OneLiveRefresh
<1> QED
    BY <1>1, RefreshInvariant, PTL

(* While a configuration is connected a refresh of it is on its way or a   *)
(* timer will make one, whatever is aborted, dropped or put off.           *)
THEOREM RefreshingNeverStops == RefreshSpec => []RefreshingGoesOn
<1>1. RefreshInv => RefreshingGoesOn
    BY DEF RefreshInv, LiveFor, RefreshingGoesOn
<1> QED
    BY <1>1, RefreshInvariant, PTL

(* The refreshes under way that were asked for another configuration.      *)
ForeignTo(fs, c) == {i \in DOMAIN fs.flights : fs.flights[i].config # c}

(* Refreshes whose market or timeframe the page has left.                  *)
EarlierFlights == ForeignTo(fetches, config)

(* While the configuration stays no refresh of another one begins, and a   *)
(* late answer that overwrites the shown bars with another configuration's *)
(* is the last of its refresh.                                             *)
RefreshSettles ==
    UNCHANGED config =>
        /\ EarlierFlights' \subseteq EarlierFlights
        /\ shown = config /\ shown' # config => EarlierFlights' # EarlierFlights

(* refreshNow() asks for the present configuration only.                   *)
LEMMA RefreshCallForeign ==
    ASSUME NEW fs, FetchesOK(fs), NEW c \in Configs \union {NoConfig}, Refresh(fs, c)
    PROVE  ForeignTo(fetches', c) \subseteq ForeignTo(fs, c)
<1>1. CASE fetches' = fs
    BY <1>1
<1>2. CASE fetches' = [fs EXCEPT !.timer = TRUE]
    <2>1. fetches'.flights = fs.flights
        BY <1>2 DEF FetchesOK
    <2> QED
        BY <2>1 DEF ForeignTo
<1>3. CASE fetches' = Request(fs, c)
    <2> DEFINE id == CHOOSE i \in FreeIds(fs) : TRUE
               before == Aborted(fs).flights
               flight == [config |-> c, awaits |-> "snapshot", ok |-> TRUE, aborted |-> FALSE]
               flights == [i \in DOMAIN before \union {id} |->
                              IF i = id THEN flight ELSE before[i]]
    <2>1. before = [i \in DOMAIN fs.flights |->
                       IF i = fs.controller THEN [fs.flights[i] EXCEPT !.aborted = TRUE]
                                            ELSE fs.flights[i]]
        BY DEF Aborted, FetchesOK
    <2>2. DOMAIN before = DOMAIN fs.flights
        BY <2>1
    <2>3. ASSUME NEW i \in DOMAIN before PROVE before[i].config = fs.flights[i].config
        <3>1. fs.flights[i] \in Flights
            BY <2>2 DEF FetchesOK
        <3>2. [fs.flights[i] EXCEPT !.aborted = TRUE].config = fs.flights[i].config
            BY <3>1 DEF Flights
        <3> QED
            BY <2>1, <2>2, <3>2
    <2>4. fetches'.flights = flights /\ flight.config = c
        BY <1>3 DEF Request, FetchesOK
    <2> HIDE DEF id, before, flight
    <2>5. DOMAIN flights = DOMAIN before \union {id}
          /\ flights[id] = flight /\ \A i \in DOMAIN before : i # id => flights[i] = before[i]
        OBVIOUS
    <2> HIDE DEF flights
    <2> QED
        BY <2>2, <2>3, <2>4, <2>5 DEF ForeignTo
<1> QED
    BY <1>1, <1>2, <1>3 DEF Refresh

(* An answer ends its refresh, and writes the configuration it was asked   *)
(* for.                                                                    *)
LEMMA WriteForeign ==
    ASSUME RefreshInv, NEW id \in DOMAIN fetches.flights, UNCHANGED config,
           \/ Write(id)
           \/ fetches' = Released(fetches, id) /\ UNCHANGED shown
    PROVE  RefreshSettles
<1>1. fetches'.flights = [i \in DOMAIN fetches.flights \ {id} |-> fetches.flights[i]]
    BY DEF RefreshInv, FetchesOK, Write, Released
<1>2. EarlierFlights' = EarlierFlights \ {id}
    BY <1>1 DEF EarlierFlights, ForeignTo
<1>3. shown' # config /\ shown = config => id \in EarlierFlights
    BY DEF Write, EarlierFlights, ForeignTo
<1> QED
    BY <1>2, <1>3 DEF RefreshSettles

(* Action by action: who begins a refresh, and who writes.                 *)
LEMMA SettlesStep ==
    ASSUME RefreshInv, [RefreshNext]_refreshVars
    PROVE  RefreshSettles
<1> SUFFICES ASSUME UNCHANGED config PROVE RefreshSettles
    BY DEF RefreshSettles
<1>0. config \in Configs \union {NoConfig} /\ FetchesOK(fetches)
    BY DEF RefreshInv
<1>1. CASE Configure
    BY <1>0, <1>1 DEF Configure, RefreshTimeframe, RefreshMarket, StopRefresh, SameMarket
<1>2. CASE SideRefreshTimer
    <2> DEFINE idle == [fetches EXCEPT !.timer = FALSE]
    <2>1. /\ DOMAIN idle = {"flights", "controller", "key", "timer"}
          /\ idle.flights = fetches.flights /\ idle.controller = fetches.controller
          /\ idle.key = fetches.key /\ idle.timer = FALSE
        BY <1>0 DEF FetchesOK
    <2>2. Refresh(idle, config) /\ UNCHANGED shown
        BY <1>2 DEF SideRefreshTimer
    <2> HIDE DEF idle
    <2>3. FetchesOK(idle)
        BY <1>0, <2>1 DEF FetchesOK, ControllerIsLive
    <2>4. ForeignTo(fetches', config) \subseteq ForeignTo(idle, config)
        BY <1>0, <2>2, <2>3, RefreshCallForeign
    <2>5. ForeignTo(idle, config) = ForeignTo(fetches, config)
        BY <2>1 DEF ForeignTo
    <2> QED
        BY <2>2, <2>4, <2>5 DEF RefreshSettles, EarlierFlights
<1>3. CASE RefreshCalled
    BY <1>0, <1>3, RefreshCallForeign DEF RefreshCalled, RefreshSettles, EarlierFlights
<1>4. ASSUME NEW id \in FlightIds, Answer(id) PROVE RefreshSettles
    <2>1. id \in DOMAIN fetches.flights
        BY <1>4 DEF Answer
    <2>2. CASE Write(id) \/ (fetches' = Released(fetches, id) /\ UNCHANGED shown)
        BY <2>1, <2>2, WriteForeign
    <2>3. ASSUME NEW ok \in BOOLEAN,
                 fetches' = [fetches EXCEPT !.flights[id].awaits = "fallback",
                                            !.flights[id].ok = ok],
                 UNCHANGED shown
          PROVE  RefreshSettles
        <3>1. fetches'.flights =
                  [fetches.flights EXCEPT ![id] = [@ EXCEPT !.awaits = "fallback", !.ok = ok]]
            BY <1>0, <2>3 DEF FetchesOK
        <3>2. fetches.flights[id] \in Flights
            BY <1>0, <2>1 DEF FetchesOK
        <3>3. [fetches.flights[id] EXCEPT !.awaits = "fallback", !.ok = ok].config
                  = fetches.flights[id].config
            BY <3>2 DEF Flights
        <3>4. /\ DOMAIN fetches'.flights = DOMAIN fetches.flights
              /\ \A i \in DOMAIN fetches.flights :
                    fetches'.flights[i].config = fetches.flights[i].config
            BY <3>1, <3>3
        <3>5. EarlierFlights' = EarlierFlights
            BY <3>4 DEF EarlierFlights, ForeignTo
        <3> QED
            BY <2>3, <3>5 DEF RefreshSettles
    <2> QED
        BY <1>4, <2>2, <2>3 DEF Answer, SnapshotAnswer, FallbackAnswer
<1>5. CASE SnapshotCooldownEnds \/ UNCHANGED refreshVars
    BY <1>5 DEF SnapshotCooldownEnds, refreshVars, RefreshSettles, EarlierFlights, ForeignTo
<1> QED
    BY <1>1, <1>2, <1>3, <1>4, <1>5 DEF RefreshNext

(* However the answers of refreshNow() are reordered, the bars of a left   *)
(* market can come back only as often as refreshes of it were under way    *)
(* when it was left: what ShownSettles asks for, but for the answers and   *)
(* the timer that must come.                                               *)
THEOREM RefreshOnlySettles == RefreshSpec => [][RefreshSettles]_refreshVars
<1>1. RefreshInv /\ [RefreshNext]_refreshVars => [RefreshSettles]_refreshVars
    BY SettlesStep
<1> QED
    BY <1>1, RefreshInvariant, PTL DEF RefreshSpec

-----------------------------------------------------------------------------
(* The sockets of a stream.                                                *)

(* As long as there is room, every owner of a new socket gets an identity  *)
(* of its own that no attached socket has.                                 *)
LEMMA FreshIdsExist ==
    ASSUME NEW known, DOMAIN known \subseteq SocketIds,
           NEW owners, IsFiniteSet(owners),
           Cardinality(owners) + Cardinality(DOMAIN known) =< MaxSockets
    PROVE  /\ FreshIds(known, owners) \in [owners -> SocketIds \ DOMAIN known]
           /\ \A o, p \in owners :
                 FreshIds(known, owners)[o] = FreshIds(known, owners)[p] => o = p
<1> DEFINE free == SocketIds \ DOMAIN known
           n == Cardinality(owners)
           m == Cardinality(free)
<1>1. IsFiniteSet(SocketIds) /\ Cardinality(SocketIds) = MaxSockets
    BY FS_Interval, SocketsAssumption DEF SocketIds
<1>2. IsFiniteSet(DOMAIN known) /\ IsFiniteSet(free)
    BY <1>1, FS_Subset
<1>3. m = MaxSockets - Cardinality(DOMAIN known)
    <2>1. SocketIds \intersect DOMAIN known = DOMAIN known
        OBVIOUS
    <2> QED
        BY <1>1, <1>2, <2>1, FS_Difference
<1>4. n \in Nat /\ m \in Nat /\ Cardinality(DOMAIN known) \in Nat
    BY <1>2, FS_CardinalityType
<1>5. n =< m
    BY <1>3, <1>4, SocketsAssumption
<1>6. ExistsBijection(1 .. n, owners) /\ ExistsBijection(1 .. m, free)
    BY <1>2, FS_CardinalityType
<1> HIDE DEF n, m, free
<1>7. PICK f \in [1 .. n -> owners] : \A o \in owners : \E k \in 1 .. n : f[k] = o
    BY <1>6 DEF ExistsBijection, Bijection, Surjection
<1>8. PICK g \in [1 .. m -> free] : \A j, k \in 1 .. m : g[j] = g[k] => j = k
    BY <1>6 DEF ExistsBijection, Bijection, Injection, IsInjective
<1> DEFINE number == [o \in owners |-> CHOOSE k \in 1 .. n : f[k] = o]
           ids == [o \in owners |-> g[number[o]]]
<1>9. \A o \in owners : number[o] \in 1 .. n /\ f[number[o]] = o
    BY <1>7
<1> HIDE DEF number
<1>10. \A o \in owners : number[o] \in 1 .. m
    BY <1>4, <1>5, <1>9
<1>11. ids \in [owners -> free] /\ \A o, p \in owners : ids[o] = ids[p] => o = p
    BY <1>8, <1>9, <1>10
<1> QED
    BY <1>11, Zenon DEF FreshIds, free

SocketType ==
    [venue : StreamVenues, role : {"primary", "aux"}, open : BOOLEAN, erred : BOOLEAN]

SocketsOK ==
    /\ DOMAIN sockets \subseteq SocketIds
    /\ \A i \in DOMAIN sockets :
          sockets[i] \in SocketType /\ (sockets[i].role = "aux" => sockets[i].venue \in FusionVenues)
    /\ primary \in SocketIds \union {NoSocket}
    /\ aux \in [FusionVenues -> SocketIds \union {NoSocket}]
    /\ primary # NoSocket => primary \in DOMAIN sockets /\ sockets[primary].role = "primary"
    /\ \A v \in FusionVenues : aux[v] # NoSocket =>
          /\ aux[v] \in DOMAIN sockets
          /\ sockets[aux[v]].role = "aux" /\ sockets[aux[v]].venue = v

TimersOK ==
    /\ venue \in StreamVenues \union {NoVenue}
    /\ auxTimer \subseteq FusionVenues
    /\ lostTimers \in [FusionVenues -> Nat]
    /\ timer => primary = NoSocket /\ venue # NoVenue

(* Whoever clears an auxiliary ping handle stops no primary socket's ping. *)
PingsOK ==
    /\ auxPing \in [FusionVenues -> SocketIds \union {NoSocket}]
    /\ \A v \in FusionVenues : auxPing[v] # NoSocket =>
          /\ auxPing[v] \in DOMAIN sockets
          /\ sockets[auxPing[v]].role = "aux" /\ sockets[auxPing[v]].venue = v

StreamsInv == SocketsOK /\ TimersOK /\ PingsOK /\ OnePrimary /\ PrimaryPinged /\ NeverGivenUp

LEMMA StreamsInvInit == StreamsInit => StreamsInv
BY DEF StreamsInit, StreamsInv, SocketsOK, TimersOK, PingsOK, OnePrimary, PrimaryPinged,
       NeverGivenUp, NoAux, NoSocket, SocketIds

(* The venues whose socket an attempt to connect makes, and what stays.    *)
Missing(v, auxKnown) == {w \in AuxVenues(v) : auxKnown[w] = NoSocket}
Leaving(v, auxKnown) == {w \in FusionVenues \ AuxVenues(v) : auxKnown[w] # NoSocket}
Kept(v, known, auxKnown) == Drop(known, {auxKnown[w] : w \in Leaving(v, auxKnown)})

(* What connecting does: a timer during the cooldown and nothing where no  *)
(* stream is served, otherwise a primary socket, and sockets for the       *)
(* auxiliary venues that miss one, all of them new, while the rest stays   *)
(* or is detached.                                                         *)
Postponed(known, auxKnown) ==
    /\ timer' \/ ~served
    /\ primary' = NoSocket /\ sockets' = known /\ aux' = auxKnown

Connected(v, known, auxKnown, kept) ==
    /\ timer' = FALSE
    /\ DOMAIN kept \subseteq DOMAIN sockets'
    /\ DOMAIN sockets' \subseteq SocketIds
    /\ \A i \in DOMAIN kept : sockets'[i] = known[i]
    /\ primary' \in DOMAIN sockets' \ DOMAIN kept
    /\ sockets'[primary'] = NewSocket(v, "primary")
    /\ aux' \in [FusionVenues -> SocketIds \union {NoSocket}]
    /\ \A w \in Missing(v, auxKnown) :
          aux'[w] \in DOMAIN sockets' \ DOMAIN kept /\ sockets'[aux'[w]] = NewSocket(w, "aux")
    /\ \A w \in Leaving(v, auxKnown) : aux'[w] = NoSocket
    /\ \A w \in FusionVenues \ (Missing(v, auxKnown) \union Leaving(v, auxKnown)) :
          aux'[w] = auxKnown[w]
    /\ \A i \in DOMAIN sockets' \ DOMAIN kept :
          i = primary' \/ \E w \in Missing(v, auxKnown) : i = aux'[w]

LEMMA ConnectForms ==
    ASSUME NEW v \in StreamVenues, NEW known, DOMAIN known \subseteq SocketIds,
           NEW auxKnown \in [FusionVenues -> SocketIds \union {NoSocket}],
           ConnectSocket(v, known, auxKnown)
    PROVE  \/ Postponed(known, auxKnown)
           \/ Connected(v, known, auxKnown, Kept(v, known, auxKnown))
<1> DEFINE missing == Missing(v, auxKnown)
           leaving == Leaving(v, auxKnown)
           kept    == Kept(v, known, auxKnown)
           owners  == {<<v, "primary">>} \union {<<w, "aux">> : w \in missing}
           ids     == FreshIds(kept, owners)
<1>1. CASE cooling \/ ~served
    BY <1>1 DEF ConnectSocket, OpenNothing, Postponed
<1>2. CASE ~cooling /\ served
    <2>1. /\ Cardinality(owners) + Cardinality(DOMAIN kept) =< MaxSockets
          /\ timer' = FALSE
          /\ primary' = ids[<<v, "primary">>]
          /\ sockets' = WithSockets(kept, owners, ids)
          /\ aux' = [w \in FusionVenues |->
                         IF w \in leaving THEN NoSocket
                         ELSE IF w \in missing THEN ids[<<w, "aux">>]
                         ELSE auxKnown[w]]
        BY <1>2 DEF ConnectSocket, OpenSockets, Missing, Leaving, Kept
    <2>2. DOMAIN kept \subseteq SocketIds /\ \A i \in DOMAIN kept : kept[i] = known[i]
        BY DEF Kept, Drop
    <2>3. missing \in SUBSET FusionVenues /\ IsFiniteSet(missing)
        <3>1. missing \in SUBSET FusionVenues
            BY FusionAssumption DEF Missing, AuxVenues
        <3> QED
            BY <3>1, FusionAssumption, FS_Subset
    <2>4. IsFiniteSet(owners)
        <3> DEFINE others == {<<w, "aux">> : w \in missing}
                   named == [w \in missing |-> <<w, "aux">>]
        <3>1. named \in Surjection(missing, others)
            BY DEF Surjection
        <3>2. IsFiniteSet(others)
            BY <2>3, <3>1, FS_Surjection
        <3>3. owners = others \union {<<v, "primary">>}
            OBVIOUS
        <3> HIDE DEF others
        <3> QED
            BY <3>2, <3>3, FS_AddElement
    <2>5. <<v, "primary">> \in owners /\ \A w \in missing : <<w, "aux">> \in owners
        OBVIOUS
    <2>6. \A o \in owners : o = <<v, "primary">> \/ \E w \in missing : o = <<w, "aux">>
        OBVIOUS
    <2> HIDE DEF missing, leaving, kept, owners
    <2>7. /\ ids \in [owners -> SocketIds \ DOMAIN kept]
          /\ \A o, p \in owners : ids[o] = ids[p] => o = p
        BY <2>1, <2>2, <2>4, FreshIdsExist
    <2> HIDE DEF ids
    <2>8. /\ DOMAIN sockets' = DOMAIN kept \union {ids[o] : o \in owners}
          /\ \A i \in DOMAIN kept : sockets'[i] = known[i]
          /\ \A o \in owners : sockets'[ids[o]] = NewSocket(o[1], o[2])
        <3>1. DOMAIN sockets' = DOMAIN kept \union {ids[o] : o \in owners}
            BY <2>1 DEF WithSockets
        <3>2. \A i \in DOMAIN kept : sockets'[i] = known[i]
            BY <2>1, <2>2 DEF WithSockets
        <3>3. ASSUME NEW o \in owners PROVE sockets'[ids[o]] = NewSocket(o[1], o[2])
            <4>1. ids[o] \notin DOMAIN kept
                BY <2>7
            <4>2. o = CHOOSE p \in owners : ids[p] = ids[o]
                BY <2>7
            <4> QED
                BY <2>1, <3>1, <4>1, <4>2 DEF WithSockets
        <3> QED
            BY <3>1, <3>2, <3>3
    <2>9. /\ primary' \in DOMAIN sockets' \ DOMAIN kept
          /\ sockets'[primary'] = NewSocket(v, "primary")
        BY <2>1, <2>7, <2>8, <2>5
    <2>10. \A w \in missing : w \in FusionVenues /\ w \notin leaving
        BY <2>3 DEF missing, leaving, Missing, Leaving
    <2>11. \A w \in missing :
              /\ aux'[w] = ids[<<w, "aux">>]
              /\ aux'[w] \in DOMAIN sockets' \ DOMAIN kept
              /\ sockets'[aux'[w]] = NewSocket(w, "aux")
        BY <2>1, <2>7, <2>8, <2>5, <2>10
    <2>12. aux' \in [FusionVenues -> SocketIds \union {NoSocket}]
        BY <2>1, <2>7, <2>5
    <2>13. /\ \A w \in leaving : aux'[w] = NoSocket
           /\ \A w \in FusionVenues \ (missing \union leaving) : aux'[w] = auxKnown[w]
        BY <2>1 DEF leaving, Leaving
    <2>14. \A i \in DOMAIN sockets' \ DOMAIN kept :
              i = primary' \/ \E w \in missing : i = aux'[w]
        <3> SUFFICES ASSUME NEW i \in DOMAIN sockets' \ DOMAIN kept
                     PROVE  i = primary' \/ \E w \in missing : i = aux'[w]
            OBVIOUS
        <3>1. PICK o \in owners : i = ids[o]
            BY <2>8
        <3>2. CASE o = <<v, "primary">>
            BY <2>1, <3>1, <3>2
        <3>3. ASSUME NEW w \in missing, o = <<w, "aux">> PROVE i = aux'[w]
            BY <2>11, <3>1, <3>3
        <3> QED
            BY <2>6, <3>2, <3>3
    <2>15. DOMAIN sockets' \subseteq SocketIds /\ DOMAIN kept \subseteq DOMAIN sockets'
        BY <2>2, <2>7, <2>8
    <2> QED
        BY <2>1, <2>8, <2>9, <2>11, <2>12, <2>13, <2>14, <2>15 DEF missing, leaving, kept, Connected
<1> QED
    BY <1>1, <1>2

(* An attempt to connect keeps the invariant: when what is known holds no  *)
(* primary socket, and the handles of auxiliary pings are of sockets that  *)
(* stay.                                                                   *)
LEMMA ConnectKeeps ==
    ASSUME venue' \in StreamVenues, NEW known,
           DOMAIN known \subseteq SocketIds,
           \A i \in DOMAIN known : /\ known[i] \in SocketType /\ known[i].role = "aux"
                                   /\ known[i].venue \in FusionVenues,
           NEW auxKnown \in [FusionVenues -> SocketIds \union {NoSocket}],
           \A v \in FusionVenues : auxKnown[v] # NoSocket =>
               auxKnown[v] \in DOMAIN known /\ known[auxKnown[v]].venue = v,
           ConnectSocket(venue', known, auxKnown), UNCHANGED served,
           auxTimer' \subseteq FusionVenues, lostTimers' \in [FusionVenues -> Nat]
    PROVE  /\ SocketsOK' /\ TimersOK' /\ OnePrimary' /\ PrimaryPinged' /\ NeverGivenUp'
<1> DEFINE kept == Kept(venue', known, auxKnown)
<1>1. /\ DOMAIN kept \subseteq DOMAIN known
      /\ \A i \in DOMAIN known : i \in DOMAIN kept
            \/ \E w \in Leaving(venue', auxKnown) : i = auxKnown[w]
    BY DEF Kept, Drop
<1>2. ASSUME Postponed(known, auxKnown)
      PROVE  /\ SocketsOK' /\ TimersOK' /\ OnePrimary' /\ PrimaryPinged' /\ NeverGivenUp'
    BY <1>2, VenueAssumption DEF Postponed, SocketsOK, TimersOK, OnePrimary, PrimaryPinged, NeverGivenUp
<1>3. ASSUME Connected(venue', known, auxKnown, kept)
      PROVE  /\ SocketsOK' /\ TimersOK' /\ OnePrimary' /\ PrimaryPinged' /\ NeverGivenUp'
    <2> USE <1>3 DEF Connected
    <2> HIDE DEF kept
    <2>1. Missing(venue', auxKnown) \subseteq FusionVenues
        BY FusionAssumption DEF Missing, AuxVenues
    <2>2. primary' # NoSocket /\ primary' \in SocketIds
        BY DEF SocketIds, NoSocket
    <2>3. /\ sockets'[primary'] \in SocketType /\ sockets'[primary'].role = "primary"
          /\ sockets'[primary'].venue = venue' /\ ~sockets'[primary'].open
        BY DEF NewSocket, SocketType
    <2>4. ASSUME NEW i \in DOMAIN sockets'
          PROVE  \/ i = primary'
                 \/ /\ sockets'[i] \in SocketType /\ sockets'[i].role = "aux"
                    /\ sockets'[i].venue \in FusionVenues
        <3>1. CASE i \in DOMAIN kept
            BY <1>1, <3>1
        <3>2. ASSUME NEW w \in Missing(venue', auxKnown), i = aux'[w]
              PROVE  /\ sockets'[i] \in SocketType /\ sockets'[i].role = "aux"
                     /\ sockets'[i].venue \in FusionVenues
            <4>1. w \in StreamVenues /\ w \in FusionVenues /\ sockets'[i] = NewSocket(w, "aux")
                BY <2>1, <3>2, FusionAssumption
            <4> QED
                BY <4>1 DEF NewSocket, SocketType
        <3> QED
            BY <3>1, <3>2
    <2>5. ASSUME NEW v \in FusionVenues, aux'[v] # NoSocket
          PROVE  /\ aux'[v] \in DOMAIN sockets'
                 /\ sockets'[aux'[v]].role = "aux" /\ sockets'[aux'[v]].venue = v
        <3>1. CASE v \in Missing(venue', auxKnown)
            <4>1. aux'[v] \in DOMAIN sockets' /\ sockets'[aux'[v]] = NewSocket(v, "aux")
                BY <3>1
            <4> QED
                BY <4>1 DEF NewSocket
        <3>2. CASE v \notin Missing(venue', auxKnown)
            <4>1. v \notin Leaving(venue', auxKnown) /\ aux'[v] = auxKnown[v]
                BY <2>5, <3>2
            <4>2. auxKnown[v] \in DOMAIN known /\ known[auxKnown[v]].venue = v
                BY <2>5, <4>1
            <4>3. \A w \in FusionVenues : auxKnown[w] = auxKnown[v] => w = v
                BY <2>5, <4>1, <4>2
            <4>4. auxKnown[v] \in DOMAIN kept
                BY <1>1, <4>1, <4>2, <4>3 DEF Leaving
            <4> QED
                BY <1>1, <4>1, <4>2, <4>4
        <3> QED
            BY <3>1, <3>2
    <2>6. SocketsOK'
        BY <2>2, <2>3, <2>4, <2>5 DEF SocketsOK
    <2>7. TimersOK'
        BY DEF TimersOK
    <2>8. OnePrimary' /\ PrimaryPinged'
        BY <2>3, <2>4 DEF OnePrimary, PrimaryPinged
    <2>9. NeverGivenUp'
        <3>1. \A v \in AuxVenues(venue') : aux'[v] # NoSocket
            <4> SUFFICES ASSUME NEW v \in AuxVenues(venue') PROVE aux'[v] # NoSocket
                OBVIOUS
            <4>1. v \in FusionVenues /\ v \notin Leaving(venue', auxKnown)
                BY FusionAssumption DEF AuxVenues, Leaving
            <4>2. CASE v \in Missing(venue', auxKnown)
                BY <4>2 DEF SocketIds, NoSocket
            <4>3. CASE v \notin Missing(venue', auxKnown)
                BY <4>1, <4>3 DEF Missing
            <4> QED
                BY <4>2, <4>3
        <3> QED
            BY <2>2, <3>1 DEF NeverGivenUp
    <2> QED
        BY <2>6, <2>7, <2>8, <2>9
<1> QED
    BY <1>2, <1>3, ConnectForms

(* What is left when the known sockets are detached are auxiliary sockets. *)
LEMMA UnknownAreAux ==
    ASSUME StreamsInv
    PROVE  /\ DOMAIN Drop(sockets, Known) \subseteq DOMAIN sockets
           /\ \A i \in DOMAIN Drop(sockets, Known) :
                 /\ i # primary /\ \A w \in FusionVenues : i # aux[w]
                 /\ Drop(sockets, Known)[i] = sockets[i]
                 /\ sockets[i] \in SocketType /\ sockets[i].role = "aux"
                 /\ sockets[i].venue \in FusionVenues
<1>1. /\ DOMAIN Drop(sockets, Known) = DOMAIN sockets \ Known
      /\ \A i \in DOMAIN sockets \ Known : Drop(sockets, Known)[i] = sockets[i]
    BY DEF Drop
<1>2. ASSUME NEW i \in DOMAIN sockets \ Known
      PROVE  /\ i # primary /\ \A w \in FusionVenues : i # aux[w]
             /\ sockets[i] \in SocketType /\ sockets[i].role = "aux"
             /\ sockets[i].venue \in FusionVenues
    <2>1. i # primary /\ \A w \in FusionVenues : i # aux[w]
        BY <1>2 DEF Known
    <2>2. sockets[i] \in SocketType /\ sockets[i].role # "primary"
        BY <2>1 DEF StreamsInv, SocketsOK, OnePrimary
    <2>3. sockets[i].role = "aux"
        BY <2>2 DEF SocketType
    <2> QED
        BY <2>1, <2>2, <2>3 DEF StreamsInv, SocketsOK
<1> QED
    BY <1>1, <1>2

LEMMA HandlesForgotten ==
    ASSUME StreamsInv, ForgetHandles
    PROVE  /\ PingsOK' /\ auxTimer' \subseteq FusionVenues /\ lostTimers' \in [FusionVenues -> Nat]
BY DEF ForgetHandles, PingsOK, NoAux, NoSocket, StreamsInv, TimersOK

LEMMA ConnectStreamsKeeps == StreamsInv /\ ConnectStreams => StreamsInv'
<1> SUFFICES ASSUME StreamsInv, ConnectStreams PROVE StreamsInv'
    OBVIOUS
<1> DEFINE known == Drop(sockets, Known)
<1>1. /\ venue' \in StreamVenues /\ ConnectSocket(venue', known, NoAux) /\ ForgetHandles
      /\ UNCHANGED served
    BY DEF ConnectStreams
<1>2. /\ DOMAIN known \subseteq DOMAIN sockets
      /\ \A i \in DOMAIN known : /\ known[i] \in SocketType /\ known[i].role = "aux"
                                 /\ known[i].venue \in FusionVenues
    BY UnknownAreAux
<1>3. PingsOK' /\ auxTimer' \subseteq FusionVenues /\ lostTimers' \in [FusionVenues -> Nat]
    BY <1>1, HandlesForgotten
<1>4. DOMAIN sockets \subseteq SocketIds
    BY DEF StreamsInv, SocketsOK
<1>5. /\ NoAux \in [FusionVenues -> SocketIds \union {NoSocket}]
      /\ \A v \in FusionVenues : NoAux[v] = NoSocket
    BY DEF NoAux
<1> HIDE DEF known
<1>6. /\ SocketsOK' /\ TimersOK' /\ OnePrimary' /\ PrimaryPinged' /\ NeverGivenUp'
    BY <1>1, <1>2, <1>3, <1>4, <1>5, ConnectKeeps
<1> QED
    BY <1>3, <1>6 DEF StreamsInv

LEMMA DisconnectStreamsKeeps == StreamsInv /\ DisconnectStreams => StreamsInv'
<1> SUFFICES ASSUME StreamsInv, DisconnectStreams PROVE StreamsInv'
    OBVIOUS
<1> DEFINE known == Drop(sockets, Known)
<1>1. /\ venue' = NoVenue /\ sockets' = known /\ primary' = NoSocket /\ aux' = NoAux
      /\ timer' = FALSE /\ ForgetHandles
    BY DEF DisconnectStreams
<1>2. /\ DOMAIN known \subseteq DOMAIN sockets
      /\ \A i \in DOMAIN known : /\ known[i] \in SocketType /\ known[i].role = "aux"
                                 /\ known[i].venue \in FusionVenues
    BY UnknownAreAux
<1>3. PingsOK' /\ auxTimer' \subseteq FusionVenues /\ lostTimers' \in [FusionVenues -> Nat]
    BY <1>1, HandlesForgotten
<1>4. DOMAIN sockets \subseteq SocketIds
    BY DEF StreamsInv, SocketsOK
<1> HIDE DEF known
<1>5. SocketsOK' /\ OnePrimary'
    BY <1>1, <1>2, <1>4 DEF SocketsOK, OnePrimary, NoAux
<1>6. TimersOK' /\ PrimaryPinged' /\ NeverGivenUp'
    BY <1>1, <1>3 DEF TimersOK, PrimaryPinged, NeverGivenUp
<1> QED
    BY <1>3, <1>5, <1>6 DEF StreamsInv

(* Opening or failing changes neither the role nor the venue of a socket.  *)
LEMMA SameSockets ==
    ASSUME StreamsInv, DOMAIN sockets' = DOMAIN sockets,
           \A i \in DOMAIN sockets : /\ sockets'[i] \in SocketType
                                     /\ sockets'[i].role = sockets[i].role
                                     /\ sockets'[i].venue = sockets[i].venue,
           UNCHANGED <<served, venue, primary, aux>>
    PROVE  SocketsOK' /\ OnePrimary'
<1>1. SocketsOK'
    BY DEF StreamsInv, SocketsOK
<1>2. OnePrimary'
    BY DEF StreamsInv, OnePrimary
<1> QED
    BY <1>1, <1>2

LEMMA SocketOpensKeeps == StreamsInv /\ SocketOpens => StreamsInv'
<1> SUFFICES ASSUME StreamsInv, SocketOpens PROVE StreamsInv'
    OBVIOUS
<1>1. PICK i \in DOMAIN sockets :
        /\ sockets' = [sockets EXCEPT ![i].open = TRUE]
        /\ pinging' = pinging \union {i}
        /\ IF sockets[i].role = "primary"
           THEN primaryPing' = i /\ UNCHANGED auxPing
           ELSE auxPing' = [auxPing EXCEPT ![sockets[i].venue] = i] /\ UNCHANGED primaryPing
    BY DEF SocketOpens
<1>2. UNCHANGED <<served, venue, primary, aux, timerVars>>
    BY DEF SocketOpens
<1> USE DEF StreamsInv
<1>3. sockets[i] \in SocketType
    BY DEF SocketsOK
<1>4. /\ DOMAIN sockets' = DOMAIN sockets
      /\ \A j \in DOMAIN sockets : j # i => sockets'[j] = sockets[j]
      /\ sockets'[i] = [sockets[i] EXCEPT !.open = TRUE]
    BY <1>1
<1>5. /\ sockets'[i] \in SocketType /\ sockets'[i].role = sockets[i].role
      /\ sockets'[i].venue = sockets[i].venue
    BY <1>3, <1>4 DEF SocketType
<1>6. SocketsOK' /\ OnePrimary'
    <2>1. \A j \in DOMAIN sockets : /\ sockets'[j] \in SocketType
                                    /\ sockets'[j].role = sockets[j].role
                                    /\ sockets'[j].venue = sockets[j].venue
        BY <1>4, <1>5 DEF SocketsOK
    <2> QED
        BY <1>2, <1>4, <2>1, SameSockets
<1>7. TimersOK' /\ NeverGivenUp'
    BY <1>2 DEF TimersOK, NeverGivenUp, timerVars, PendingAux
<1>8. PrimaryPinged'
    BY <1>1, <1>2, <1>4 DEF PrimaryPinged, SocketsOK
<1>9. PingsOK'
    <2>1. CASE sockets[i].role = "primary"
        BY <1>1, <1>4, <1>5, <2>1 DEF PingsOK
    <2>2. CASE sockets[i].role # "primary"
        <3>1. sockets[i].role = "aux"
            BY <1>3, <2>2 DEF SocketType
        <3>2. i \in SocketIds /\ auxPing' = [auxPing EXCEPT ![sockets[i].venue] = i]
            BY <1>1, <2>2 DEF SocketsOK
        <3>3. auxPing \in [FusionVenues -> SocketIds \union {NoSocket}]
            BY DEF PingsOK
        <3>4. auxPing' \in [FusionVenues -> SocketIds \union {NoSocket}]
            BY <3>2, <3>3
        <3>5. ASSUME NEW v \in FusionVenues
              PROVE  auxPing'[v] = auxPing[v] \/ (auxPing'[v] = i /\ v = sockets[i].venue)
            BY <3>2, <3>3
        <3>6. \A j \in DOMAIN sockets : /\ sockets'[j].role = sockets[j].role
                                        /\ sockets'[j].venue = sockets[j].venue
            BY <1>4, <1>5
        <3>7. ASSUME NEW v \in FusionVenues, auxPing'[v] # NoSocket
              PROVE  /\ auxPing'[v] \in DOMAIN sockets
                     /\ sockets[auxPing'[v]].role = "aux" /\ sockets[auxPing'[v]].venue = v
            BY <3>1, <3>5, <3>7 DEF PingsOK
        <3> QED
            BY <1>4, <3>4, <3>6, <3>7 DEF PingsOK
    <2> QED
        BY <2>1, <2>2
<1> QED
    BY <1>6, <1>7, <1>8, <1>9

LEMMA PrimaryErrorsKeeps == StreamsInv /\ PrimaryErrors => StreamsInv'
<1> SUFFICES ASSUME StreamsInv, PrimaryErrors PROVE StreamsInv'
    OBVIOUS
<1>1. PICK i \in DOMAIN sockets : sockets' = [sockets EXCEPT ![i].erred = TRUE]
    BY DEF PrimaryErrors
<1>2. UNCHANGED <<served, venue, primary, aux, timerVars, pingVars>>
    BY DEF PrimaryErrors
<1> USE DEF StreamsInv
<1>3. sockets[i] \in SocketType
    BY DEF SocketsOK
<1>4. /\ DOMAIN sockets' = DOMAIN sockets
      /\ \A j \in DOMAIN sockets : j # i => sockets'[j] = sockets[j]
      /\ sockets'[i] = [sockets[i] EXCEPT !.erred = TRUE]
    BY <1>1
<1>5. /\ sockets'[i] \in SocketType /\ sockets'[i].role = sockets[i].role
      /\ sockets'[i].venue = sockets[i].venue /\ (sockets'[i].open <=> sockets[i].open)
    BY <1>3, <1>4 DEF SocketType
<1>6. \A j \in DOMAIN sockets : /\ sockets'[j] \in SocketType
                                /\ sockets'[j].role = sockets[j].role
                                /\ sockets'[j].venue = sockets[j].venue
    BY <1>4, <1>5 DEF SocketsOK
<1>7. SocketsOK' /\ OnePrimary'
    BY <1>2, <1>4, <1>6, SameSockets
<1>8. TimersOK' /\ NeverGivenUp'
    BY <1>2 DEF TimersOK, NeverGivenUp, timerVars, PendingAux
<1>9. PingsOK'
    BY <1>2, <1>4, <1>6 DEF PingsOK, pingVars
<1>10. PrimaryPinged'
    BY <1>2, <1>4, <1>5 DEF PrimaryPinged, pingVars, SocketsOK
<1> QED
    BY <1>7, <1>8, <1>9, <1>10

(* The primary socket closes: its ping goes with it and a timer comes.     *)
LEMMA PrimaryClosesKeeps ==
    ASSUME StreamsInv, NEW i \in DOMAIN sockets, PrimaryCloses(i), UNCHANGED <<served, venue>>
    PROVE  StreamsInv'
<1> USE DEF StreamsInv
<1>1. /\ sockets[i].role = "primary" /\ i = primary /\ venue # NoVenue
      /\ \A v \in FusionVenues : aux[v] # i /\ auxPing[v] # i
    <2>1. sockets[i].role = "primary" /\ i = primary /\ sockets[i].venue = venue
        BY DEF PrimaryCloses, OnePrimary
    <2>2. venue # NoVenue
        BY <2>1, VenueAssumption DEF SocketsOK, SocketType
    <2>3. i # NoSocket
        BY DEF SocketsOK, SocketIds, NoSocket
    <2> QED
        BY <2>1, <2>2, <2>3 DEF SocketsOK, PingsOK
<1>2. /\ DOMAIN sockets' = DOMAIN sockets \ {i}
      /\ \A j \in DOMAIN sockets' : sockets'[j] = sockets[j]
      /\ primary' = NoSocket /\ timer' = TRUE
      /\ UNCHANGED <<aux, auxTimer, lostTimers, auxPing>>
    BY DEF PrimaryCloses, Drop
<1>3. SocketsOK' /\ OnePrimary'
    BY <1>1, <1>2 DEF SocketsOK, OnePrimary
<1>4. TimersOK' /\ NeverGivenUp' /\ PrimaryPinged'
    BY <1>1, <1>2 DEF TimersOK, NeverGivenUp, PrimaryPinged
<1>5. PingsOK'
    <2>1. \A v \in FusionVenues : auxPing[v] # NoSocket =>
              auxPing[v] \in DOMAIN sockets' /\ sockets'[auxPing[v]] = sockets[auxPing[v]]
        BY <1>1, <1>2 DEF PingsOK
    <2> QED
        BY <1>2, <2>1 DEF PingsOK
<1> QED
    BY <1>3, <1>4, <1>5

(* An auxiliary socket closes: it takes the ping handle of its venue with  *)
(* it, whoever that pings, but never the primary socket's.                 *)
LEMMA AuxClosesKeeps ==
    ASSUME StreamsInv, NEW i \in DOMAIN sockets, AuxCloses(i), UNCHANGED <<served, venue>>
    PROVE  StreamsInv'
<1> DEFINE v == sockets[i].venue
<1> USE DEF StreamsInv
<1>1. /\ sockets[i].role = "aux" /\ v \in FusionVenues /\ i # primary
      /\ primary = NoSocket \/ auxPing[v] # primary
    <2>1. sockets[i].role = "aux" /\ v \in FusionVenues
        BY DEF AuxCloses, SocketsOK
    <2>2. i \in SocketIds /\ i # NoSocket
        BY DEF SocketsOK, SocketIds, NoSocket
    <2> QED
        BY <2>1, <2>2 DEF SocketsOK, PingsOK
<1>2. /\ DOMAIN sockets' = DOMAIN sockets \ {i}
      /\ \A j \in DOMAIN sockets' : sockets'[j] = sockets[j]
      /\ UNCHANGED <<served, venue, primary, timer>>
      /\ pinging' = pinging \ {i, auxPing[v]}
      /\ auxPing' = [auxPing EXCEPT ![v] = NoSocket]
    BY DEF AuxCloses, Drop
<1>3. \/ /\ aux[v] = i
         /\ aux' = [aux EXCEPT ![v] = NoSocket]
         /\ auxTimer' = auxTimer \union {v}
         /\ lostTimers' = [lostTimers EXCEPT ![v] = IF v \in auxTimer THEN @ + 1 ELSE @]
      \/ aux[v] # i /\ UNCHANGED <<aux, auxTimer, lostTimers>>
    BY DEF AuxCloses
<1>4. lostTimers' \in [FusionVenues -> Nat] /\ auxTimer' \subseteq FusionVenues
    BY <1>1, <1>3 DEF TimersOK
<1>5. \A w \in FusionVenues : aux'[w] # NoSocket => aux'[w] = aux[w] /\ aux[w] # i
    BY <1>1, <1>3 DEF SocketsOK
<1>6. aux' \in [FusionVenues -> SocketIds \union {NoSocket}]
    BY <1>1, <1>3 DEF SocketsOK
<1>7. SocketsOK' /\ OnePrimary'
    BY <1>1, <1>2, <1>5, <1>6 DEF SocketsOK, OnePrimary
<1>8. TimersOK'
    BY <1>2, <1>4 DEF TimersOK
<1>9. \A w \in FusionVenues : auxPing'[w] # NoSocket =>
          auxPing'[w] = auxPing[w] /\ auxPing[w] # i
    BY <1>1, <1>2 DEF PingsOK
<1>10. PingsOK'
    <2>1. \A w \in FusionVenues : auxPing'[w] # NoSocket =>
              /\ auxPing'[w] \in DOMAIN sockets'
              /\ sockets'[auxPing'[w]].role = "aux" /\ sockets'[auxPing'[w]].venue = w
        BY <1>2, <1>9 DEF PingsOK
    <2>2. auxPing' \in [FusionVenues -> SocketIds \union {NoSocket}]
        BY <1>1, <1>2 DEF PingsOK
    <2> QED
        BY <2>1, <2>2 DEF PingsOK
<1>11. PrimaryPinged'
    BY <1>1, <1>2 DEF PrimaryPinged, SocketsOK
<1>12. NeverGivenUp'
    <2>1. \A w \in AuxVenues(venue) : w \in FusionVenues
        BY DEF AuxVenues
    <2>2. \A w \in FusionVenues : aux[w] # NoSocket \/ w \in PendingAux
              => aux'[w] # NoSocket \/ w \in PendingAux'
        BY <1>1, <1>3 DEF PendingAux, SocketsOK, TimersOK
    <2> QED
        BY <1>2, <2>1, <2>2 DEF NeverGivenUp
<1> QED
    BY <1>7, <1>8, <1>10, <1>11, <1>12

LEMMA PrimaryTimerKeeps == StreamsInv /\ PrimaryTimer => StreamsInv'
<1> SUFFICES ASSUME StreamsInv, PrimaryTimer PROVE StreamsInv'
    OBVIOUS
<1> USE DEF StreamsInv
<1>1. timer /\ primary = NoSocket /\ venue \in StreamVenues
    BY DEF PrimaryTimer, TimersOK
<1>2. /\ venue' = venue /\ ConnectSocket(venue', sockets, aux)
      /\ UNCHANGED <<served, auxTimer, lostTimers, primaryPing>>
    BY DEF PrimaryTimer
<1>3. \A i \in DOMAIN sockets : /\ sockets[i] \in SocketType /\ sockets[i].role = "aux"
                                /\ sockets[i].venue \in FusionVenues
    <2> SUFFICES ASSUME NEW i \in DOMAIN sockets
                 PROVE  /\ sockets[i] \in SocketType /\ sockets[i].role = "aux"
                        /\ sockets[i].venue \in FusionVenues
        OBVIOUS
    <2>1. i # primary
        BY <1>1 DEF SocketsOK, SocketIds, NoSocket
    <2>2. sockets[i] \in SocketType /\ sockets[i].role # "primary"
        BY <2>1 DEF SocketsOK, OnePrimary
    <2>3. sockets[i].role = "aux"
        BY <2>2 DEF SocketType
    <2> QED
        BY <2>2, <2>3 DEF SocketsOK
<1>4. /\ SocketsOK' /\ TimersOK' /\ OnePrimary' /\ PrimaryPinged' /\ NeverGivenUp'
    BY <1>1, <1>2, <1>3, ConnectKeeps DEF SocketsOK, TimersOK
<1>5. PingsOK'
    <2> DEFINE open == {i \in DOMAIN sockets' : sockets'[i].open}
    <2>1. auxPing' = [v \in FusionVenues |->
                         IF auxPing[v] \in open THEN auxPing[v] ELSE NoSocket]
        BY DEF PrimaryTimer
    <2>2. \A i \in open : i \in SocketIds /\ i \in DOMAIN sockets' /\ sockets'[i].open
        BY <1>4 DEF SocketsOK
    <2>3. \A i \in open : i \in DOMAIN sockets /\ sockets'[i] = sockets[i]
        <3>1. CASE Postponed(sockets, aux)
            BY <2>2, <3>1 DEF Postponed
        <3>2. CASE Connected(venue', sockets, aux, Kept(venue', sockets, aux))
            <4> DEFINE kept == Kept(venue', sockets, aux)
            <4>1. Connected(venue', sockets, aux, kept) /\ DOMAIN kept \subseteq DOMAIN sockets
                BY <3>2 DEF Kept, Drop
            <4> HIDE DEF kept
            <4>2. ASSUME NEW i \in DOMAIN sockets' \ DOMAIN kept PROVE ~sockets'[i].open
                <5>1. PICK w, role : sockets'[i] = NewSocket(w, role)
                    BY <4>1 DEF Connected
                <5> QED
                    BY <5>1 DEF NewSocket
            <4> QED
                BY <2>2, <4>1, <4>2 DEF Connected
        <3> QED
            BY <1>1, <1>2, <3>1, <3>2, ConnectForms DEF SocketsOK
    <2>4. \A i \in open : sockets'[i].role = "aux"
        BY <1>3, <2>3
    <2> HIDE DEF open
    <2>5. ASSUME NEW v \in FusionVenues, auxPing[v] \in open
          PROVE  sockets'[auxPing[v]].venue = v
        BY <2>2, <2>3, <2>5 DEF PingsOK, SocketIds, NoSocket
    <2>6. auxPing' \in [FusionVenues -> SocketIds \union {NoSocket}]
        BY <2>1, <2>2
    <2> QED
        BY <2>1, <2>2, <2>4, <2>5, <2>6 DEF PingsOK
<1> QED
    BY <1>4, <1>5

(* An id for one new socket, when there is room.                           *)
LEMMA OneFreshId ==
    ASSUME NEW known, DOMAIN known \subseteq SocketIds, NEW owner,
           Cardinality(DOMAIN known) < MaxSockets
    PROVE  FreshIds(known, {owner})[owner] \in SocketIds \ DOMAIN known
<1> DEFINE owners == {owner}
<1>1. IsFiniteSet(owners) /\ Cardinality(owners) = 1 /\ owner \in owners
    BY FS_Singleton
<1>2. Cardinality(DOMAIN known) \in Nat
    <2>1. IsFiniteSet(SocketIds)
        BY SocketsAssumption, FS_Interval DEF SocketIds
    <2> QED
        BY <2>1, FS_Subset, FS_CardinalityType
<1>3. Cardinality(owners) + Cardinality(DOMAIN known) =< MaxSockets
    BY <1>1, <1>2, SocketsAssumption
<1> HIDE DEF owners
<1>4. FreshIds(known, owners) \in [owners -> SocketIds \ DOMAIN known]
    BY <1>1, <1>3, FreshIdsExist
<1>5. FreshIds(known, owners)[owner] \in SocketIds \ DOMAIN known
    BY <1>1, <1>4
<1> QED
    BY <1>5 DEF owners

(* The one socket a timer of an auxiliary venue makes.                     *)
LEMMA NewAuxSocket ==
    ASSUME StreamsInv, NEW v \in FusionVenues, Cardinality(DOMAIN sockets) < MaxSockets,
           NEW ids, ids = FreshIds(sockets, {<<v, "aux">>}),
           NEW i, i = ids[<<v, "aux">>],
           sockets' = WithSockets(sockets, {<<v, "aux">>}, ids)
    PROVE  /\ i \in SocketIds /\ i \notin DOMAIN sockets
           /\ DOMAIN sockets' = DOMAIN sockets \union {i}
           /\ \A j \in DOMAIN sockets : sockets'[j] = sockets[j]
           /\ sockets'[i] = NewSocket(v, "aux")
<1> DEFINE owner == <<v, "aux">>
           owners == {owner}
<1>1. DOMAIN sockets \subseteq SocketIds
    BY DEF StreamsInv, SocketsOK
<1>2. i \in SocketIds /\ i \notin DOMAIN sockets
    BY <1>1, OneFreshId
<1>3. /\ DOMAIN sockets' = DOMAIN sockets \union {i}
      /\ \A j \in DOMAIN sockets : sockets'[j] = sockets[j]
    BY DEF WithSockets
<1>4. sockets'[i] = NewSocket(v, "aux")
    <2>1. (CHOOSE o \in owners : ids[o] = i) = owner
        OBVIOUS
    <2> QED
        BY <1>2, <2>1 DEF WithSockets
<1> QED
    BY <1>2, <1>3, <1>4

(* The timer of an auxiliary venue: nothing but the timer goes when nothing *)
(* is configured or served; otherwise a new socket of that venue.                    *)
LEMMA AuxTimerKeeps == StreamsInv /\ AuxTimer => StreamsInv'
<1> SUFFICES ASSUME StreamsInv, AuxTimer PROVE StreamsInv'
    OBVIOUS
<1> USE DEF StreamsInv
<1>1. PICK v \in PendingAux :
        /\ \/ v \in auxTimer /\ auxTimer' = auxTimer \ {v} /\ UNCHANGED lostTimers
           \/ /\ lostTimers[v] > 0
              /\ lostTimers' = [lostTimers EXCEPT ![v] = @ - 1]
              /\ UNCHANGED auxTimer
        /\ IF venue = NoVenue \/ ~served THEN UNCHANGED <<sockets, aux>>
           ELSE LET ids == FreshIds(sockets, {<<v, "aux">>})
                IN  /\ Cardinality(DOMAIN sockets) < MaxSockets
                    /\ sockets' = WithSockets(sockets, {<<v, "aux">>}, ids)
                    /\ aux' = [aux EXCEPT ![v] = ids[<<v, "aux">>]]
    BY DEF AuxTimer
<1>2. UNCHANGED <<served, venue, primary, timer, pinging, auxPing>>
    BY DEF AuxTimer, pingVars
<1>3. v \in FusionVenues /\ v \in StreamVenues
    BY FusionAssumption DEF PendingAux, TimersOK
<1>4. TimersOK'
    <2>1. lostTimers' \in [FusionVenues -> Nat] /\ auxTimer' \subseteq FusionVenues
        BY <1>1, <1>3 DEF TimersOK
    <2> QED
        BY <1>2, <2>1 DEF TimersOK
<1>5. CASE venue = NoVenue \/ ~served
    <2>1. UNCHANGED <<sockets, aux>>
        BY <1>1, <1>5
    <2> QED
        BY <1>2, <1>4, <1>5, <2>1
           DEF SocketsOK, PingsOK, OnePrimary, PrimaryPinged, NeverGivenUp
<1>6. CASE venue # NoVenue /\ served
    <2> DEFINE ids == FreshIds(sockets, {<<v, "aux">>})
               i == ids[<<v, "aux">>]
    <2>1. /\ Cardinality(DOMAIN sockets) < MaxSockets
          /\ sockets' = WithSockets(sockets, {<<v, "aux">>}, ids)
          /\ aux' = [aux EXCEPT ![v] = i]
        BY <1>1, <1>6
    <2> HIDE DEF ids
    <2>2. /\ i \in SocketIds /\ i \notin DOMAIN sockets
          /\ DOMAIN sockets' = DOMAIN sockets \union {i}
          /\ \A j \in DOMAIN sockets : sockets'[j] = sockets[j]
          /\ sockets'[i] = NewSocket(v, "aux")
        BY <1>3, <2>1, NewAuxSocket DEF ids
    <2>3. i \in SocketIds /\ i \notin DOMAIN sockets
        BY <2>2
    <2>4. /\ DOMAIN sockets' = DOMAIN sockets \union {i}
          /\ \A j \in DOMAIN sockets : sockets'[j] = sockets[j]
        BY <2>2
    <2>5. sockets'[i] = NewSocket(v, "aux")
        BY <2>2
    <2> HIDE DEF i
    <2>6. /\ sockets'[i] \in SocketType /\ sockets'[i].role = "aux"
          /\ sockets'[i].venue = v
        BY <1>3, <2>5 DEF NewSocket, SocketType
    <2>7. i # NoSocket /\ i # primary
        BY <2>3 DEF SocketsOK, SocketIds, NoSocket
    <2>8. SocketsOK'
        <3>1. aux' \in [FusionVenues -> SocketIds \union {NoSocket}]
            BY <2>1, <2>3 DEF SocketsOK
        <3>2. ASSUME NEW w \in FusionVenues, aux'[w] # NoSocket
              PROVE  /\ aux'[w] \in DOMAIN sockets'
                     /\ sockets'[aux'[w]].role = "aux" /\ sockets'[aux'[w]].venue = w
            <4>1. CASE w = v
                BY <1>3, <2>1, <2>4, <2>6, <4>1 DEF SocketsOK
            <4>2. CASE w # v
                <5>1. aux'[w] = aux[w] /\ aux[w] # NoSocket
                    BY <2>1, <3>2, <4>2 DEF SocketsOK
                <5> QED
                    BY <2>4, <5>1 DEF SocketsOK
            <4> QED
                BY <4>1, <4>2
        <3>3. \A j \in DOMAIN sockets' :
                  j = i \/ (j \in DOMAIN sockets /\ sockets'[j] = sockets[j])
            BY <2>4
        <3>4. DOMAIN sockets' \subseteq SocketIds
            BY <2>3, <2>4 DEF SocketsOK
        <3> QED
            BY <1>2, <1>3, <2>4, <2>6, <3>1, <3>2, <3>3, <3>4 DEF SocketsOK
    <2>9. OnePrimary'
        BY <1>2, <2>4, <2>6 DEF OnePrimary
    <2>10. PrimaryPinged'
        BY <1>2, <2>4 DEF PrimaryPinged, SocketsOK
    <2>11. PingsOK'
        BY <1>2, <2>4 DEF PingsOK
    <2>12. NeverGivenUp'
        <3>1. \A w \in FusionVenues : aux[w] # NoSocket \/ w \in PendingAux
                  => aux'[w] # NoSocket \/ w \in PendingAux'
            <4> SUFFICES ASSUME NEW w \in FusionVenues, w # v,
                                aux[w] # NoSocket \/ w \in PendingAux
                         PROVE  aux'[w] # NoSocket \/ w \in PendingAux'
                BY <2>1, <2>7 DEF SocketsOK
            <4>1. aux'[w] = aux[w]
                BY <2>1 DEF SocketsOK
            <4>2. w \in PendingAux => w \in PendingAux'
                BY <1>1 DEF PendingAux, TimersOK
            <4> QED
                BY <4>1, <4>2
        <3>2. \A w \in AuxVenues(venue) : w \in FusionVenues
            BY DEF AuxVenues
        <3> QED
            BY <1>2, <3>1, <3>2 DEF NeverGivenUp
    <2> QED
        BY <1>4, <2>8, <2>9, <2>10, <2>11, <2>12
<1> QED
    BY <1>5, <1>6

LEMMA StreamsInvKept == StreamsInv /\ [StreamsNext]_streamsVars => StreamsInv'
<1> SUFFICES ASSUME StreamsInv, [StreamsNext]_streamsVars PROVE StreamsInv'
    OBVIOUS
<1>1. CASE ConnectStreams
    BY <1>1, ConnectStreamsKeeps
<1>2. CASE DisconnectStreams
    BY <1>2, DisconnectStreamsKeeps
<1>3. CASE SocketOpens
    BY <1>3, SocketOpensKeeps
<1>4. CASE PrimaryErrors
    BY <1>4, PrimaryErrorsKeeps
<1>5. CASE SocketCloses
    BY <1>5, AuxClosesKeeps, PrimaryClosesKeeps DEF SocketCloses
<1>6. CASE FailedCloses
    BY <1>6, PrimaryClosesKeeps DEF FailedCloses
<1>7. CASE PrimaryTimer
    BY <1>7, PrimaryTimerKeeps
<1>8. CASE AuxTimer
    BY <1>8, AuxTimerKeeps
<1>9. CASE StreamCooldownEnds \/ UNCHANGED streamsVars
    <2>1. UNCHANGED <<served, venue, socketVars, timerVars, pingVars>>
        BY <1>9 DEF StreamCooldownEnds, streamsVars
    <2> QED
        BY <2>1 DEF StreamsInv, SocketsOK, TimersOK, PingsOK, OnePrimary, PrimaryPinged,
                    NeverGivenUp, PendingAux, socketVars, timerVars, pingVars
<1> QED
    BY <1>1, <1>2, <1>3, <1>4, <1>5, <1>6, <1>7, <1>8, <1>9 DEF StreamsNext

(* The sockets, timers and pings of a stream stay as StreamsInv says,      *)
(* whatever opens, fails, closes or is reconfigured in whatever order.     *)
THEOREM StreamsInvariant == StreamsSpec => []StreamsInv
<1> QED
    BY StreamsInvInit, StreamsInvKept, PTL DEF StreamsSpec

(* No event of an earlier primary socket is taken for one of this stream:  *)
(* connectOhlcvSocket() and connectDepthSocket() never leave two attached. *)
THEOREM OnePrimarySocket == StreamsSpec => []OnePrimary
<1>1. StreamsInv => OnePrimary
    BY DEF StreamsInv
<1> QED
    BY <1>1, StreamsInvariant, PTL

(* The interval that keeps an open primary socket alive is cleared by no   *)
(* close of an auxiliary socket and no late event.                         *)
THEOREM OpenPrimaryIsPinged == StreamsSpec => []PrimaryPinged
<1>1. StreamsInv => PrimaryPinged
    BY DEF StreamsInv
<1> QED
    BY <1>1, StreamsInvariant, PTL

(* A configured stream always has its socket or a timer that makes one,    *)
(* but on the hosts where the URL builders of marketDataBus.ts give none:  *)
(* no order of failures, closes and reconfigurations loses the reconnect.  *)
THEOREM StreamNeverGivenUp == StreamsSpec => []NeverGivenUp
<1>1. StreamsInv => NeverGivenUp
    BY DEF StreamsInv
<1> QED
    BY <1>1, StreamsInvariant, PTL

-----------------------------------------------------------------------------
(* Sockets nobody knows.                                                   *)

(* Until timers overlap, an auxiliary venue has its socket or its timer,   *)
(* and every socket is one the bus holds for a venue of the fusion.        *)
AllKnown ==
    /\ \A i \in DOMAIN sockets :
          /\ i = primary \/ (aux[sockets[i].venue] = i /\ sockets[i].venue \in AuxVenues(venue))
          /\ sockets[i].open => i \in pinging
    /\ \A v \in FusionVenues : lostTimers[v] = 0
    /\ \A v \in auxTimer : aux[v] = NoSocket /\ v \in AuxVenues(venue)

KnownInv == primaryPing \in {NoSocket, primary} /\ (~overlap => AllKnown)

LEMMA KnownInvInit == StreamsInit => KnownInv
BY DEF StreamsInit, KnownInv, AllKnown

(* Reconfiguring detaches every socket, so what connects starts afresh.    *)
LEMMA ConfiguredKnows ==
    ASSUME StreamsInv, KnownInv, ForgetHandles, UNCHANGED overlap,
           \/ venue' \in StreamVenues /\ ConnectSocket(venue', Drop(sockets, Known), NoAux)
           \/ sockets' = Drop(sockets, Known) /\ aux' = NoAux
    PROVE  KnownInv'
<1> DEFINE known == Drop(sockets, Known)
<1>1. primaryPing' = NoSocket /\ auxTimer' = {} /\ lostTimers' = lostTimers
    BY DEF ForgetHandles
<1> SUFFICES ASSUME ~overlap PROVE AllKnown'
    BY <1>1 DEF KnownInv
<1>2. DOMAIN known = {}
    <2>1. \A i \in DOMAIN sockets : i \in Known
        BY DEF KnownInv, AllKnown, Known, AuxVenues
    <2> QED
        BY <2>1 DEF Drop
<1>3. \A v \in FusionVenues : lostTimers'[v] = 0
    BY <1>1 DEF KnownInv, AllKnown
<1> HIDE DEF known
<1>4. CASE sockets' = known
    BY <1>1, <1>2, <1>3, <1>4 DEF AllKnown
<1>5. CASE venue' \in StreamVenues /\ ConnectSocket(venue', known, NoAux) /\ sockets' # known
    <2> DEFINE kept == Kept(venue', known, NoAux)
    <2>1. Connected(venue', known, NoAux, kept)
        <3>1. /\ NoAux \in [FusionVenues -> SocketIds \union {NoSocket}]
              /\ DOMAIN known \subseteq SocketIds
            BY <1>2 DEF NoAux
        <3> QED
            BY <1>5, <3>1, ConnectForms DEF Postponed
    <2>2. DOMAIN kept = {}
        BY <1>2 DEF Kept, Drop
    <2> HIDE DEF kept
    <2>3. \A w \in Missing(venue', NoAux) : w \in AuxVenues(venue')
        BY DEF Missing
    <2>4. ASSUME NEW i \in DOMAIN sockets'
          PROVE  /\ \/ i = primary'
                    \/ /\ aux'[sockets'[i].venue] = i
                       /\ sockets'[i].venue \in AuxVenues(venue')
                 /\ ~sockets'[i].open
        <3>1. CASE i = primary'
            BY <2>1, <3>1 DEF Connected, NewSocket
        <3>2. ASSUME NEW w \in Missing(venue', NoAux), i = aux'[w]
              PROVE  /\ aux'[sockets'[i].venue] = i
                     /\ sockets'[i].venue \in AuxVenues(venue')
                     /\ ~sockets'[i].open
            <4>1. sockets'[i] = NewSocket(w, "aux")
                BY <2>1, <3>2 DEF Connected
            <4> QED
                BY <2>3, <3>2, <4>1 DEF NewSocket
        <3> QED
            BY <2>1, <2>2, <3>1, <3>2 DEF Connected
    <2> QED
        BY <1>1, <1>3, <2>4 DEF AllKnown
<1> QED
    BY <1>4, <1>5 DEF known

(* A socket that opens or fails stays where it is known.                   *)
LEMMA OpenedKnows ==
    ASSUME StreamsInv, KnownInv, NEW i \in DOMAIN sockets,
           DOMAIN sockets' = DOMAIN sockets,
           \A j \in DOMAIN sockets : j # i => sockets'[j] = sockets[j],
           sockets'[i].venue = sockets[i].venue,
           sockets'[i].open => i \in pinging',
           pinging \subseteq pinging', primaryPing' \in {primaryPing, primary},
           UNCHANGED <<venue, primary, aux, timerVars, overlap>>
    PROVE  KnownInv'
<1>1. primaryPing' \in {NoSocket, primary'}
    BY DEF KnownInv
<1>2. ASSUME ~overlap PROVE AllKnown'
    BY <1>2 DEF KnownInv, AllKnown, timerVars
<1> QED
    BY <1>1, <1>2 DEF KnownInv

LEMMA SocketOpensKnows == ASSUME StreamsInv, KnownInv, SocketOpens PROVE KnownInv'
<1>1. PICK i \in DOMAIN sockets :
        /\ sockets' = [sockets EXCEPT ![i].open = TRUE]
        /\ pinging' = pinging \union {i}
        /\ primaryPing' = IF sockets[i].role = "primary" THEN i ELSE primaryPing
    BY DEF SocketOpens
<1>2. UNCHANGED <<venue, primary, aux, timerVars, overlap>>
    BY DEF SocketOpens
<1>3. sockets[i] \in SocketType /\ (sockets[i].role = "primary" => i = primary)
    BY DEF StreamsInv, SocketsOK, OnePrimary
<1>4. /\ DOMAIN sockets' = DOMAIN sockets
      /\ \A j \in DOMAIN sockets : j # i => sockets'[j] = sockets[j]
      /\ sockets'[i].venue = sockets[i].venue
    BY <1>1, <1>3 DEF SocketType
<1> QED
    BY <1>1, <1>2, <1>3, <1>4, OpenedKnows

LEMMA PrimaryErrorsKnows == ASSUME StreamsInv, KnownInv, PrimaryErrors PROVE KnownInv'
<1>1. PICK i \in DOMAIN sockets :
        ~sockets[i].open /\ sockets' = [sockets EXCEPT ![i].erred = TRUE]
    BY DEF PrimaryErrors
<1>2. UNCHANGED <<venue, primary, aux, timerVars, pinging, primaryPing, overlap>>
    BY DEF PrimaryErrors, pingVars
<1>3. sockets[i] \in SocketType
    BY DEF StreamsInv, SocketsOK
<1>4. /\ DOMAIN sockets' = DOMAIN sockets
      /\ \A j \in DOMAIN sockets : j # i => sockets'[j] = sockets[j]
      /\ sockets'[i].venue = sockets[i].venue /\ ~sockets'[i].open
    BY <1>1, <1>3 DEF SocketType
<1> QED
    BY <1>2, <1>4, OpenedKnows

LEMMA PrimaryClosesKnows ==
    ASSUME StreamsInv, KnownInv, NEW i \in DOMAIN sockets, PrimaryCloses(i),
           UNCHANGED <<venue, overlap>>
    PROVE  KnownInv'
<1>1. i = primary
    BY DEF StreamsInv, OnePrimary, PrimaryCloses
<1>2. /\ DOMAIN sockets' = DOMAIN sockets \ {i}
      /\ \A j \in DOMAIN sockets' : sockets'[j] = sockets[j]
      /\ primary' = NoSocket /\ primaryPing' = NoSocket
      /\ pinging' = pinging \ {i, primaryPing}
      /\ UNCHANGED <<aux, auxTimer, lostTimers>>
    BY DEF PrimaryCloses, Drop
<1>3. \A j \in DOMAIN sockets' : j # primary /\ j # NoSocket
    BY <1>1, <1>2 DEF StreamsInv, SocketsOK, SocketIds, NoSocket
<1>4. ASSUME ~overlap PROVE AllKnown'
    BY <1>1, <1>2, <1>3, <1>4 DEF KnownInv, AllKnown
<1> QED
    BY <1>2, <1>4 DEF KnownInv

LEMMA AuxClosesKnows ==
    ASSUME StreamsInv, KnownInv, NEW i \in DOMAIN sockets, AuxCloses(i),
           UNCHANGED <<venue, overlap>>
    PROVE  KnownInv'
<1> DEFINE v == sockets[i].venue
<1>1. v \in FusionVenues /\ i # primary /\ i # NoSocket
    BY DEF AuxCloses, StreamsInv, SocketsOK, SocketIds, NoSocket
<1>2. /\ DOMAIN sockets' = DOMAIN sockets \ {i}
      /\ \A j \in DOMAIN sockets' : sockets'[j] = sockets[j]
      /\ UNCHANGED <<primary, primaryPing>>
      /\ pinging' = pinging \ {i, auxPing[v]}
    BY DEF AuxCloses, Drop
<1>3. primaryPing' \in {NoSocket, primary'}
    BY <1>2 DEF KnownInv
<1>4. ASSUME ~overlap PROVE AllKnown'
    <2>1. aux[v] = i /\ v \in AuxVenues(venue) /\ v \notin auxTimer
        BY <1>1, <1>4 DEF KnownInv, AllKnown
    <2>2. /\ aux' = [aux EXCEPT ![v] = NoSocket]
          /\ auxTimer' = auxTimer \union {v}
          /\ lostTimers' = [lostTimers EXCEPT ![v] = IF v \in auxTimer THEN @ + 1 ELSE @]
        BY <2>1 DEF AuxCloses
    <2>3. auxPing[v] \in {NoSocket, i}
        <3> SUFFICES ASSUME auxPing[v] # NoSocket PROVE auxPing[v] = i
            OBVIOUS
        <3>1. /\ auxPing[v] \in DOMAIN sockets /\ sockets[auxPing[v]].venue = v
              /\ sockets[auxPing[v]].role = "aux"
            BY <1>1 DEF StreamsInv, PingsOK
        <3>2. auxPing[v] # primary
            BY <3>1 DEF StreamsInv, SocketsOK
        <3> QED
            BY <1>4, <2>1, <3>1, <3>2 DEF KnownInv, AllKnown
    <2>4. ASSUME NEW j \in DOMAIN sockets'
          PROVE  /\ \/ j = primary'
                    \/ aux'[sockets'[j].venue] = j /\ sockets'[j].venue \in AuxVenues(venue')
                 /\ sockets'[j].open => j \in pinging'
        <3>1. j \in DOMAIN sockets /\ j # i /\ sockets'[j] = sockets[j] /\ j # NoSocket
            BY <1>2 DEF StreamsInv, SocketsOK, SocketIds, NoSocket
        <3>2. sockets[j].open => j \in pinging'
            BY <1>2, <1>4, <2>3, <3>1 DEF KnownInv, AllKnown
        <3>3. CASE j = primary
            BY <1>2, <3>1, <3>2, <3>3
        <3>4. CASE aux[sockets[j].venue] = j /\ sockets[j].venue \in AuxVenues(venue)
            <4>1. sockets[j].venue # v /\ aux'[sockets[j].venue] = aux[sockets[j].venue]
                BY <2>1, <2>2, <3>1, <3>4 DEF StreamsInv, SocketsOK, AuxVenues
            <4> QED
                BY <3>1, <3>2, <3>4, <4>1
        <3> QED
            BY <1>4, <3>1, <3>3, <3>4 DEF KnownInv, AllKnown
    <2>5. \A w \in FusionVenues : lostTimers'[w] = 0
        BY <1>4, <2>1, <2>2 DEF KnownInv, AllKnown, StreamsInv, TimersOK
    <2>6. \A w \in auxTimer' : aux'[w] = NoSocket /\ w \in AuxVenues(venue')
        BY <1>1, <1>4, <2>1, <2>2 DEF KnownInv, AllKnown, StreamsInv, SocketsOK, TimersOK
    <2> QED
        BY <2>4, <2>5, <2>6 DEF AllKnown
<1> QED
    BY <1>3, <1>4 DEF KnownInv

(* The reconnect keeps the auxiliary sockets there are; where a timer is   *)
(* pending it makes one all the same, which is the overlap.                *)
LEMMA PrimaryTimerKnows == ASSUME StreamsInv, KnownInv, PrimaryTimer PROVE KnownInv'
<1>1. /\ primary = NoSocket /\ venue \in StreamVenues
      /\ venue' = venue /\ ConnectSocket(venue, sockets, aux)
      /\ UNCHANGED <<auxTimer, lostTimers, primaryPing>>
      /\ pinging' = pinging \intersect {i \in DOMAIN sockets' : sockets'[i].open}
      /\ overlap' = (overlap \/ \E v \in PendingAux : aux'[v] # aux[v])
    BY DEF PrimaryTimer, StreamsInv, TimersOK
<1>2. primaryPing' = NoSocket
    BY <1>1 DEF KnownInv
<1>3. ASSUME ~overlap' PROVE AllKnown'
    <2>1. ~overlap /\ \A v \in auxTimer : aux'[v] = aux[v]
        BY <1>1, <1>3 DEF PendingAux
    <2>2. ASSUME NEW i \in DOMAIN sockets
          PROVE  /\ aux[sockets[i].venue] = i /\ sockets[i].venue \in AuxVenues(venue)
                 /\ sockets[i].open => i \in pinging
                 /\ i # NoSocket
        BY <1>1, <2>1 DEF KnownInv, AllKnown, StreamsInv, SocketsOK, SocketIds, NoSocket
    <2>3. ASSUME NEW i \in DOMAIN sockets'
          PROVE  /\ \/ i = primary'
                    \/ aux'[sockets'[i].venue] = i /\ sockets'[i].venue \in AuxVenues(venue')
                 /\ sockets'[i].open => i \in pinging'
        <3>1. CASE Postponed(sockets, aux)
            BY <1>1, <2>2, <3>1 DEF Postponed
        <3>2. CASE Connected(venue, sockets, aux, Kept(venue, sockets, aux))
            <4> DEFINE kept == Kept(venue, sockets, aux)
            <4>1. Connected(venue, sockets, aux, kept) /\ DOMAIN kept \subseteq DOMAIN sockets
                BY <3>2 DEF Kept, Drop
            <4> HIDE DEF kept
            <4>2. CASE i = primary'
                BY <4>1, <4>2 DEF Connected, NewSocket
            <4>3. ASSUME NEW w \in Missing(venue, aux), i = aux'[w], i \notin DOMAIN kept
                  PROVE  /\ aux'[sockets'[i].venue] = i
                         /\ sockets'[i].venue \in AuxVenues(venue')
                         /\ ~sockets'[i].open
                <5>1. sockets'[i] = NewSocket(w, "aux") /\ w \in AuxVenues(venue)
                    BY <4>1, <4>3 DEF Connected, Missing
                <5> QED
                    BY <1>1, <4>3, <5>1 DEF NewSocket
            <4>4. CASE i \in DOMAIN kept
                <5> DEFINE w == sockets[i].venue
                <5>1. i \in DOMAIN sockets /\ sockets'[i] = sockets[i]
                    BY <4>1, <4>4 DEF Connected
                <5>2. aux[w] = i /\ w \in AuxVenues(venue) /\ aux[w] # NoSocket
                    BY <2>2, <5>1
                <5>3. w \in FusionVenues \ (Missing(venue, aux) \union Leaving(venue, aux))
                    BY <5>2 DEF AuxVenues, Missing, Leaving
                <5>4. aux'[w] = i
                    BY <4>1, <5>2, <5>3 DEF Connected
                <5> QED
                    BY <1>1, <2>2, <5>1, <5>2, <5>4
            <4> QED
                BY <4>1, <4>2, <4>3, <4>4 DEF Connected
        <3> QED
            BY <1>1, <3>1, <3>2, ConnectForms DEF StreamsInv, SocketsOK
    <2>4. \A v \in FusionVenues : lostTimers'[v] = 0
        BY <1>1, <2>1 DEF KnownInv, AllKnown
    <2>5. \A v \in auxTimer' : aux'[v] = NoSocket /\ v \in AuxVenues(venue')
        BY <1>1, <2>1 DEF KnownInv, AllKnown
    <2> QED
        BY <2>3, <2>4, <2>5 DEF AllKnown
<1> QED
    BY <1>2, <1>3 DEF KnownInv

LEMMA AuxTimerKnows == ASSUME StreamsInv, KnownInv, AuxTimer PROVE KnownInv'
<1>1. PICK v \in PendingAux :
        /\ \/ v \in auxTimer /\ auxTimer' = auxTimer \ {v} /\ UNCHANGED lostTimers
           \/ lostTimers[v] > 0
        /\ IF venue = NoVenue \/ ~served THEN UNCHANGED <<sockets, aux>>
           ELSE LET ids == FreshIds(sockets, {<<v, "aux">>})
                IN  /\ Cardinality(DOMAIN sockets) < MaxSockets
                    /\ sockets' = WithSockets(sockets, {<<v, "aux">>}, ids)
                    /\ aux' = [aux EXCEPT ![v] = ids[<<v, "aux">>]]
    BY DEF AuxTimer
<1>2. UNCHANGED <<venue, primary, pinging, primaryPing, overlap>>
    BY DEF AuxTimer, pingVars
<1>3. v \in FusionVenues
    BY DEF PendingAux, StreamsInv, TimersOK
<1> SUFFICES ASSUME ~overlap PROVE AllKnown'
    BY <1>2 DEF KnownInv
<1>4. /\ auxTimer' = auxTimer \ {v} /\ UNCHANGED lostTimers
      /\ aux[v] = NoSocket /\ v \in AuxVenues(venue)
    BY <1>1, <1>3 DEF KnownInv, AllKnown
<1>5. CASE venue = NoVenue \/ ~served
    BY <1>1, <1>2, <1>4, <1>5 DEF KnownInv, AllKnown
<1>6. CASE venue # NoVenue /\ served
    <2> DEFINE ids == FreshIds(sockets, {<<v, "aux">>})
               i == ids[<<v, "aux">>]
    <2>1. /\ Cardinality(DOMAIN sockets) < MaxSockets
          /\ sockets' = WithSockets(sockets, {<<v, "aux">>}, ids)
          /\ aux' = [aux EXCEPT ![v] = i]
        BY <1>1, <1>6
    <2> HIDE DEF ids
    <2>2. /\ i \notin DOMAIN sockets
          /\ DOMAIN sockets' = DOMAIN sockets \union {i}
          /\ \A j \in DOMAIN sockets : sockets'[j] = sockets[j]
          /\ sockets'[i] = NewSocket(v, "aux")
        BY <1>3, <2>1, NewAuxSocket DEF ids
    <2> HIDE DEF i
    <2>3. aux'[v] = i /\ \A w \in FusionVenues : w # v => aux'[w] = aux[w]
        BY <1>3, <2>1 DEF StreamsInv, SocketsOK
    <2>4. ASSUME NEW j \in DOMAIN sockets'
          PROVE  /\ \/ j = primary'
                    \/ aux'[sockets'[j].venue] = j /\ sockets'[j].venue \in AuxVenues(venue')
                 /\ sockets'[j].open => j \in pinging'
        <3>1. CASE j = i
            BY <1>2, <1>4, <2>2, <2>3, <3>1 DEF NewSocket
        <3>2. CASE j \in DOMAIN sockets
            <4>1. sockets'[j] = sockets[j] /\ j # NoSocket
                BY <2>2, <3>2 DEF StreamsInv, SocketsOK, SocketIds, NoSocket
            <4>2. aux[sockets[j].venue] = j /\ sockets[j].venue \in AuxVenues(venue)
                     => aux'[sockets[j].venue] = j
                BY <1>4, <2>3, <4>1 DEF AuxVenues
            <4> QED
                BY <1>2, <3>2, <4>1, <4>2 DEF KnownInv, AllKnown
        <3> QED
            BY <2>2, <3>1, <3>2
    <2>5. \A w \in auxTimer' : aux'[w] = NoSocket /\ w \in AuxVenues(venue')
        BY <1>2, <1>4, <2>3 DEF KnownInv, AllKnown, StreamsInv, TimersOK
    <2> QED
        BY <1>4, <2>4, <2>5 DEF KnownInv, AllKnown
<1> QED
    BY <1>5, <1>6

LEMMA KnownInvKept == StreamsInv /\ KnownInv /\ [StreamsNext]_streamsVars => KnownInv'
<1> SUFFICES ASSUME StreamsInv, KnownInv, [StreamsNext]_streamsVars PROVE KnownInv'
    OBVIOUS
<1>1. CASE ConnectStreams
    BY <1>1, ConfiguredKnows DEF ConnectStreams
<1>2. CASE DisconnectStreams
    BY <1>2, ConfiguredKnows DEF DisconnectStreams
<1>3. CASE SocketCloses \/ FailedCloses
    BY <1>3, AuxClosesKnows, PrimaryClosesKnows DEF SocketCloses, FailedCloses
<1>4. CASE StreamCooldownEnds \/ UNCHANGED streamsVars
    <2>1. UNCHANGED <<venue, socketVars, timerVars, pingVars, overlap>>
        BY <1>4 DEF StreamCooldownEnds, streamsVars
    <2> QED
        BY <2>1 DEF KnownInv, AllKnown, socketVars, timerVars, pingVars
<1> QED
    BY <1>1, <1>2, <1>3, <1>4, SocketOpensKnows, PrimaryErrorsKnows, PrimaryTimerKnows,
       AuxTimerKnows DEF StreamsNext

(* For any venues and any order of troubles, a socket the bus has lost     *)
(* sight of comes from one thing only, a primary reconnect that opened an  *)
(* auxiliary socket while the timer of its venue was pending.              *)
THEOREM OrphansNeedOverlap == StreamsSpec => []OrphansOnlyByOverlap
<1>1. KnownInv => OrphansOnlyByOverlap
    BY DEF KnownInv, AllKnown, OrphansOnlyByOverlap
<1>2. StreamsSpec => []KnownInv
    BY StreamsInvariant, KnownInvInit, KnownInvKept, PTL DEF StreamsSpec
<1> QED
    BY <1>1, <1>2, PTL

-----------------------------------------------------------------------------
(* Sums and folds.  The library defines both by recursion over a set; what *)
(* they return is got from the least counterexample, which stands in for   *)
(* induction.                                                              *)

(* A set of numbers that is not empty has a least one: what stands in for  *)
(* induction below.                                                        *)
LEMMA LeastNumber ==
    ASSUME NEW S \in SUBSET Nat, S # {}
    PROVE  \E n \in S : \A m \in S : n <= m
<1>1. PICK n \in S : \A m \in S : ~(<<m, n>> \in OpToRel(<, Nat))
    BY NatLessThanWellFounded, WFMin
<1>2. \A m \in S : n <= m
    <2> SUFFICES ASSUME NEW m \in S, m < n PROVE FALSE
        OBVIOUS
    <2>1. <<m, n>> \in Nat \X Nat
        OBVIOUS
    <2>2. <<m, n>>[1] < <<m, n>>[2]
        OBVIOUS
    <2> QED
        BY <1>1, <2>1, <2>2 DEF OpToRel
<1> QED
    BY <1>2

(* A sum over a finite set, as the library defines it: one summand at a    *)
(* time, until the set is empty.                                           *)
SumsOf(f, S) ==
    {it \in [SUBSET S -> Nat] : \A s \in SUBSET S :
        it[s] = IF s = {} THEN 0 ELSE f[CHOOSE x \in s : TRUE] + it[s \ {CHOOSE x \in s : TRUE}]}

(* The recursion over the subsets has a solution: one that is right up to  *)
(* a size can be made right for the next.                                  *)
LEMMA SumExists ==
    ASSUME NEW S, IsFiniteSet(S), NEW f \in [S -> Nat]
    PROVE  SumsOf(f, S) # {}
<1> DEFINE Upto(n) == {s \in SUBSET S : Cardinality(s) <= n}
           Next1(it, s) == IF s = {} THEN 0
                          ELSE f[CHOOSE x \in s : TRUE] + it[s \ {CHOOSE x \in s : TRUE}]
           Good(n) == \E it \in [Upto(n) -> Nat] : \A s \in Upto(n) : it[s] = Next1(it, s)
           bad == {n \in Nat : ~Good(n)}
<1>1. \A s \in SUBSET S : Cardinality(s) \in Nat /\ (Cardinality(s) = 0 <=> s = {})
    BY FS_Subset, FS_CardinalityType, FS_EmptySet
<1>2. ASSUME NEW s \in SUBSET S, s # {}
      PROVE  /\ (CHOOSE x \in s : TRUE) \in s
             /\ Cardinality(s \ {CHOOSE x \in s : TRUE}) = Cardinality(s) - 1
             /\ s \ {CHOOSE x \in s : TRUE} \in SUBSET S
    <2>1. (CHOOSE x \in s : TRUE) \in s
        BY <1>2
    <2>2. IsFiniteSet(s)
        BY FS_Subset
    <2> QED
        BY <2>1, <2>2, FS_RemoveElement
<1>3. Good(0)
    <2> DEFINE it == [s \in Upto(0) |-> 0]
    <2>1. \A s \in Upto(0) : s = {}
        BY <1>1
    <2>2. it \in [Upto(0) -> Nat]
        OBVIOUS
    <2>3. \A s \in Upto(0) : it[s] = Next1(it, s)
        BY <2>1
    <2> HIDE DEF it
    <2> QED
        BY <2>2, <2>3
<1>4. ASSUME NEW n \in Nat, Good(n) PROVE Good(n + 1)
    <2>1. PICK it \in [Upto(n) -> Nat] : \A s \in Upto(n) : it[s] = Next1(it, s)
        BY <1>4
    <2> DEFINE more == [s \in Upto(n + 1) |-> IF s \in Upto(n) THEN it[s] ELSE Next1(it, s)]
    <2>2. ASSUME NEW s \in Upto(n + 1), s # {}
          PROVE  /\ s \ {CHOOSE x \in s : TRUE} \in Upto(n) /\ s \ {CHOOSE x \in s : TRUE} \in Upto(n + 1)
                 /\ Next1(it, s) \in Nat /\ Next1(more, s) = Next1(it, s)
        <3>1. s \ {CHOOSE x \in s : TRUE} \in Upto(n) /\ s \ {CHOOSE x \in s : TRUE} \in Upto(n + 1)
            BY <1>1, <1>2, <2>2
        <3>2. f[CHOOSE x \in s : TRUE] \in Nat
            BY <1>2, <2>2
        <3> QED
            BY <2>2, <3>1, <3>2
    <2>3. more \in [Upto(n + 1) -> Nat]
        BY <2>1, <2>2
    <2>4. \A s \in Upto(n + 1) : more[s] = Next1(more, s)
        BY <2>1, <2>2
    <2> QED
        BY <2>3, <2>4
<1>5. \A n \in Nat : Good(n)
    <2> SUFFICES ASSUME bad # {} PROVE FALSE
        OBVIOUS
    <2>1. PICK n \in bad : \A m \in bad : n <= m
        BY LeastNumber
    <2> HIDE DEF Good
    <2>2. n # 0
        BY <1>3, <2>1
    <2>3. n - 1 \in Nat /\ Good(n - 1)
        BY <2>1, <2>2
    <2> QED
        BY <1>4, <2>1, <2>3
<1>6. Upto(Cardinality(S)) = SUBSET S /\ Cardinality(S) \in Nat
    <2>1. \A s \in SUBSET S : Cardinality(s) <= Cardinality(S)
        BY FS_Subset
    <2> QED
        BY <2>1, FS_CardinalityType
<1>7. PICK it \in [SUBSET S -> Nat] : \A s \in SUBSET S : it[s] = Next1(it, s)
    <2>1. Good(Cardinality(S))
        BY <1>5, <1>6
    <2> HIDE DEF Next1, Upto
    <2> QED
        BY <1>6, <2>1
<1>8. it \in SumsOf(f, S)
    <2>1. it \in {g \in [SUBSET S -> Nat] : \A s \in SUBSET S : g[s] = Next1(g, s)}
        <3> HIDE DEF Next1
        <3> QED
            BY <1>7
    <2> QED
        BY <2>1, Zenon DEF SumsOf
<1> QED
    BY <1>8

(* Whatever satisfies the equation of such a sum is a number.              *)
SumsAlong(sum, f, S) ==
    \A s \in SUBSET S :
        sum[s] = IF s = {} THEN 0 ELSE f[CHOOSE x \in s : TRUE] + sum[s \ {CHOOSE x \in s : TRUE}]

(* A sum of numbers is a number: no smallest set has another one.          *)
LEMMA SumIsNat ==
    ASSUME NEW S, IsFiniteSet(S), NEW f \in [S -> Nat], NEW sum, SumsAlong(sum, f, S)
    PROVE  sum[S] \in Nat
<1> DEFINE bad == {Cardinality(s) : s \in {s \in SUBSET S : sum[s] \notin Nat}}
<1>1. \A s \in SUBSET S : IsFiniteSet(s) /\ Cardinality(s) \in Nat
    BY FS_Subset, FS_CardinalityType
<1>2. bad = {}
    <2> SUFFICES ASSUME bad # {} PROVE FALSE
        OBVIOUS
    <2>0. bad \in SUBSET Nat
        BY <1>1
    <2>1. PICK n \in bad : \A m \in bad : n <= m
        <3> HIDE DEF bad
        <3> QED
            BY <2>0, LeastNumber
    <2>2. PICK s \in SUBSET S : sum[s] \notin Nat /\ Cardinality(s) = n
        OBVIOUS
    <2>3. s # {}
        <3>1. {} \in SUBSET S
            OBVIOUS
        <3>2. sum[{}] = 0
            BY <3>1 DEF SumsAlong
        <3> QED
            BY <2>2, <3>2
    <2> DEFINE x == CHOOSE x \in s : TRUE
    <2>4. x \in s /\ s \ {x} \in SUBSET S
        BY <2>3
    <2>5. sum[s] = f[x] + sum[s \ {x}]
        BY <2>3 DEF SumsAlong
    <2> HIDE DEF x
    <2>6. Cardinality(s \ {x}) = n - 1
        BY <1>1, <2>2, <2>4, FS_RemoveElement
    <2>7. sum[s \ {x}] \in Nat
        BY <1>1, <2>1, <2>4, <2>6
    <2> QED
        BY <2>2, <2>4, <2>5, <2>7
<1> QED
    BY <1>2

(* A fold of a sequence from the left, as the library defines it: over the *)
(* set of its indices, the greatest one last.                              *)
IsFold(it, base0, step, seq, n) ==
    \A s \in SUBSET (1 .. n) :
        it[s] = IF s = {} THEN base0 ELSE step[<<it[s \ {Max(s)}], seq[Max(s)]>>]

(* Max() returns the greatest member of a set that has one.                *)
LEMMA MaxIs ==
    ASSUME NEW s \in SUBSET Nat, NEW m \in s, \A x \in s : x <= m
    PROVE  Max(s) = m
<1>1. m \in s /\ \A y \in s : m >= y
    OBVIOUS
<1>2. \E x \in s : \A y \in s : x >= y
    BY <1>1
<1> DEFINE top == Max(s)
<1>3. top \in s /\ \A y \in s : top >= y
    BY <1>2, Zenon DEF Max
<1> HIDE DEF top
<1>4. top \in Nat /\ m \in Nat /\ top >= m /\ top <= m
    BY <1>3
<1>5. top = m
    BY <1>4
<1> QED
    BY <1>5 DEF top

(* A set of indices has a greatest one.                                    *)
LEMMA MaxOfIndices ==
    ASSUME NEW n \in Nat, NEW s \in SUBSET (1 .. n), s # {}
    PROVE  Max(s) \in s
<1> DEFINE gaps == {n - x : x \in s}
<1>1. gaps \in SUBSET Nat /\ gaps # {}
    <2>1. \A x \in s : n - x \in Nat
        OBVIOUS
    <2> QED
        BY <2>1
<1>2. PICK g \in gaps : \A h \in gaps : g <= h
    <2> HIDE DEF gaps
    <2> QED
        BY <1>1, LeastNumber
<1>3. PICK m \in s : g = n - m
    BY <1>2
<1>4. \A x \in s : x <= m
    <2> SUFFICES ASSUME NEW x \in s PROVE x <= m
        OBVIOUS
    <2>1. n - x \in gaps
        OBVIOUS
    <2>2. n - m <= n - x /\ x \in Nat /\ m \in Nat
        BY <1>2, <1>3, <2>1
    <2> QED
        BY <2>2
<1>5. s \in SUBSET Nat
    OBVIOUS
<1> QED
    BY <1>3, <1>4, <1>5, MaxIs

(* The recursion of a fold has a solution.                                 *)
LEMMA FoldExists ==
    ASSUME NEW E, NEW D, NEW step \in [E \X D -> E], NEW base0 \in E, NEW seq \in Seq(D)
    PROVE  \E it \in [SUBSET (1 .. Len(seq)) -> E] : IsFold(it, base0, step, seq, Len(seq))
<1> DEFINE Good(n) == \E it \in [SUBSET (1 .. n) -> E] : IsFold(it, base0, step, seq, n)
           bad == {n \in 0 .. Len(seq) : ~Good(n)}
<1>1. Good(0)
    <2> DEFINE it == [s \in SUBSET (1 .. 0) |-> base0]
    <2>1. \A s \in SUBSET (1 .. 0) : s = {}
        OBVIOUS
    <2>2. it \in [SUBSET (1 .. 0) -> E] /\ IsFold(it, base0, step, seq, 0)
        BY <2>1 DEF IsFold
    <2> HIDE DEF it
    <2> QED
        BY <2>2
<1>2. ASSUME NEW n \in Nat, n + 1 <= Len(seq), Good(n) PROVE Good(n + 1)
    <2>1. PICK it \in [SUBSET (1 .. n) -> E] : IsFold(it, base0, step, seq, n)
        BY <1>2
    <2> DEFINE more == [s \in SUBSET (1 .. n + 1) |->
                           IF n + 1 \in s THEN step[<<it[s \ {n + 1}], seq[n + 1]>>] ELSE it[s]]
    <2>2. seq[n + 1] \in D
        BY <1>2
    <2>3. \A s \in SUBSET (1 .. n + 1) :
             /\ s \ {n + 1} \in SUBSET (1 .. n)
             /\ n + 1 \notin s => s \in SUBSET (1 .. n)
             /\ n + 1 \in s => Max(s) = n + 1
        <3> SUFFICES ASSUME NEW s \in SUBSET (1 .. n + 1)
                     PROVE  /\ s \ {n + 1} \in SUBSET (1 .. n)
                            /\ n + 1 \notin s => s \in SUBSET (1 .. n)
                            /\ n + 1 \in s => Max(s) = n + 1
            OBVIOUS
        <3>1. n + 1 \in s => Max(s) = n + 1
            <4>1. s \in SUBSET Nat /\ \A x \in s : x <= n + 1
                OBVIOUS
            <4> QED
                BY <4>1, MaxIs
        <3> QED
            BY <3>1
    <2>4. more \in [SUBSET (1 .. n + 1) -> E]
        <3> SUFFICES ASSUME NEW s \in SUBSET (1 .. n + 1) PROVE more[s] \in E
            BY Zenon
        <3> QED
            BY <2>1, <2>2, <2>3
    <2>5. ASSUME NEW s \in SUBSET (1 .. n + 1)
          PROVE  more[s] = IF s = {} THEN base0 ELSE step[<<more[s \ {Max(s)}], seq[Max(s)]>>]
        <3>1. CASE n + 1 \in s
            <4>1. Max(s) = n + 1 /\ s # {} /\ s \ {n + 1} \in SUBSET (1 .. n + 1)
                BY <2>3, <3>1
            <4>2. more[s \ {n + 1}] = it[s \ {n + 1}]
                BY <4>1
            <4>3. more[s] = step[<<it[s \ {n + 1}], seq[n + 1]>>]
                BY <3>1
            <4> HIDE DEF more
            <4> QED
                BY <4>1, <4>2, <4>3
        <3>2. CASE n + 1 \notin s
            <4>1. s \in SUBSET (1 .. n)
                BY <2>3, <3>2
            <4>2. more[s] = it[s]
                BY <3>2
            <4>3. it[s] = IF s = {} THEN base0 ELSE step[<<it[s \ {Max(s)}], seq[Max(s)]>>]
                BY <2>1, <4>1 DEF IsFold
            <4>4. n + 1 \notin s \ {Max(s)} /\ s \ {Max(s)} \in SUBSET (1 .. n + 1)
                BY <3>2
            <4>5. more[s \ {Max(s)}] = it[s \ {Max(s)}]
                BY <4>4
            <4> HIDE DEF more
            <4> QED
                BY <4>2, <4>3, <4>5
        <3> QED
            BY <3>1, <3>2
    <2> HIDE DEF more
    <2>6. IsFold(more, base0, step, seq, n + 1)
        BY <2>5 DEF IsFold
    <2> QED
        BY <2>4, <2>6
<1>3. bad = {}
    <2> SUFFICES ASSUME bad # {} PROVE FALSE
        OBVIOUS
    <2>1. bad \in SUBSET Nat
        OBVIOUS
    <2>2. PICK n \in bad : \A m \in bad : n <= m
        <3> HIDE DEF bad
        <3> QED
            BY <2>1, LeastNumber
    <2> HIDE DEF Good
    <2>3. n # 0 /\ n \in 0 .. Len(seq)
        BY <1>1, <2>2
    <2>4. n - 1 \in Nat /\ n - 1 \in 0 .. Len(seq) /\ (n - 1) + 1 = n
        BY <2>3
    <2>5. Good(n - 1)
        BY <2>2, <2>4
    <2> QED
        BY <1>2, <2>2, <2>3, <2>4, <2>5
<1>4. Len(seq) \in 0 .. Len(seq)
    OBVIOUS
<1> QED
    BY <1>3, <1>4

(* The last index of a prefix.                                             *)
LEMMA MaxOfSegment ==
    ASSUME NEW k \in Nat \ {0}
    PROVE  Max(1 .. k) = k /\ (1 .. k) \ {k} = 1 .. (k - 1) /\ 1 .. k # {}
<1>1. k \in 1 .. k /\ 1 .. k \in SUBSET Nat /\ \A x \in 1 .. k : x <= k
    OBVIOUS
<1>2. Max(1 .. k) = k
    BY <1>1, MaxIs
<1>3. (1 .. k) \ {k} = 1 .. (k - 1)
    OBVIOUS
<1> QED
    BY <1>1, <1>2, <1>3

(* The values a fold of seq goes through.                                  *)
IsRun(run, E, base0, step, seq) ==
    /\ run \in [0 .. Len(seq) -> E]
    /\ run[0] = base0
    /\ \A k \in 1 .. Len(seq) : run[k] = step[<<run[k - 1], seq[k]>>]

(* Read at the prefixes of the sequence, a fold is a run.                  *)
LEMMA FoldRuns ==
    ASSUME NEW E, NEW D, NEW step, NEW base0, NEW seq \in Seq(D),
           NEW it \in [SUBSET (1 .. Len(seq)) -> E], IsFold(it, base0, step, seq, Len(seq))
    PROVE  \E run : IsRun(run, E, base0, step, seq) /\ run[Len(seq)] = it[1 .. Len(seq)]
<1> DEFINE run == [k \in 0 .. Len(seq) |-> it[1 .. k]]
<1>1. Len(seq) \in Nat
    OBVIOUS
<1>2. \A k \in 0 .. Len(seq) : 1 .. k \in SUBSET (1 .. Len(seq))
    BY <1>1
<1>3. run \in [0 .. Len(seq) -> E]
    BY <1>2
<1>4. run[0] = base0
    <2>1. 1 .. 0 = {}
        OBVIOUS
    <2>2. run[0] = it[{}] /\ {} \in SUBSET (1 .. Len(seq))
        BY <1>1, <2>1
    <2> QED
        BY <2>2 DEF IsFold
<1>5. ASSUME NEW k \in 1 .. Len(seq) PROVE run[k] = step[<<run[k - 1], seq[k]>>]
    <2>1. Max(1 .. k) = k /\ (1 .. k) \ {k} = 1 .. (k - 1) /\ 1 .. k # {}
        <3>1. k \in Nat \ {0}
            BY <1>1
        <3> QED
            BY <3>1, MaxOfSegment
    <2>2. run[k] = it[1 .. k] /\ run[k - 1] = it[1 .. (k - 1)] /\ 1 .. k \in SUBSET (1 .. Len(seq))
        BY <1>1, <1>2
    <2> HIDE DEF run
    <2> QED
        BY <2>1, <2>2, SMTT(20) DEF IsFold
<1>6. run[Len(seq)] = it[1 .. Len(seq)]
    BY <1>1
<1> HIDE DEF run
<1>7. IsRun(run, E, base0, step, seq)
    BY <1>3, <1>4, <1>5 DEF IsRun
<1> QED
    BY <1>6, <1>7

(* The equation of a fold on the initial segments: whatever satisfies it   *)
(* ends where the run does.                                                *)
FoldsAlong(fold, E, base0, step, seq) ==
    /\ fold[{}] = base0
    /\ \A k \in 1 .. Len(seq) : fold[1 .. (k - 1)] \in E =>
           fold[1 .. k] = step[<<fold[1 .. (k - 1)], seq[k]>>]

(* What solves the recursion at the prefixes ends where the run ends.      *)
LEMMA FoldEndsRun ==
    ASSUME NEW E, NEW D, NEW step, NEW base0, NEW seq \in Seq(D),
           NEW run, IsRun(run, E, base0, step, seq),
           NEW fold, FoldsAlong(fold, E, base0, step, seq)
    PROVE  fold[1 .. Len(seq)] = run[Len(seq)]
<1> DEFINE bad == {k \in 0 .. Len(seq) : fold[1 .. k] # run[k]}
<1>1. Len(seq) \in Nat
    OBVIOUS
<1>2. bad = {}
    <2> SUFFICES ASSUME bad # {} PROVE FALSE
        OBVIOUS
    <2>1. bad \in SUBSET Nat
        OBVIOUS
    <2>2. PICK k \in bad : \A m \in bad : k <= m
        <3> HIDE DEF bad
        <3> QED
            BY <2>1, LeastNumber
    <2>3. k \in 0 .. Len(seq) /\ fold[1 .. k] # run[k]
        BY <2>2
    <2>4. k # 0
        <3>1. 1 .. 0 = {}
            OBVIOUS
        <3> QED
            BY <2>3, <3>1 DEF IsRun, FoldsAlong
    <2>5. k \in 1 .. Len(seq) /\ k - 1 \in 0 .. Len(seq) /\ k - 1 < k
        BY <1>1, <2>3, <2>4
    <2>6. fold[1 .. (k - 1)] = run[k - 1]
        BY <2>2, <2>3, <2>5
    <2>7. run[k - 1] \in E /\ run[k] = step[<<run[k - 1], seq[k]>>]
        BY <2>5 DEF IsRun
    <2> QED
        BY <2>3, <2>5, <2>6, <2>7 DEF FoldsAlong
<1> QED
    BY <1>1, <1>2

(* Runs over sequences that begin alike begin alike.                       *)
SharePrefix(seq, seq2, n) ==
    n <= Len(seq) /\ n <= Len(seq2) /\ \A k \in 1 .. n : seq[k] = seq2[k]

(* What two runs have computed of a common prefix is the same.             *)
LEMMA RunsAgree ==
    ASSUME NEW E, NEW D, NEW step, NEW base0, NEW seq \in Seq(D), NEW seq2 \in Seq(D),
           NEW n \in Nat, SharePrefix(seq, seq2, n),
           NEW run, IsRun(run, E, base0, step, seq),
           NEW run2, IsRun(run2, E, base0, step, seq2)
    PROVE  run[n] = run2[n]
<1> DEFINE bad == {k \in 0 .. n : run[k] # run2[k]}
<1>1. Len(seq) \in Nat /\ Len(seq2) \in Nat
    OBVIOUS
<1>2. bad = {}
    <2> SUFFICES ASSUME bad # {} PROVE FALSE
        OBVIOUS
    <2>1. bad \in SUBSET Nat
        OBVIOUS
    <2>2. PICK k \in bad : \A m \in bad : k <= m
        <3> HIDE DEF bad
        <3> QED
            BY <2>1, LeastNumber
    <2>3. k # 0 /\ k \in 0 .. n
        BY <2>2 DEF IsRun
    <2>4. k \in 1 .. Len(seq) /\ k \in 1 .. Len(seq2) /\ k \in 1 .. n /\ k - 1 \in 0 .. n
        BY <1>1, <2>3 DEF SharePrefix
    <2>5. run[k - 1] = run2[k - 1]
        BY <2>2, <2>3, <2>4
    <2>6. run[k] = step[<<run[k - 1], seq[k]>>] /\ run2[k] = step[<<run2[k - 1], seq2[k]>>]
        BY <2>4 DEF IsRun
    <2> QED
        BY <2>2, <2>4, <2>5, <2>6 DEF SharePrefix
<1> QED
    BY <1>2

-----------------------------------------------------------------------------
(* The trade rings.  A ring is two growing indices into a fixed storage;   *)
(* what lies between them is the queue its venue promises.                 *)

(* The fields of a TradeRingBuffer.                                        *)
Ring == [storage : [0 .. Capacity - 1 -> Trades \union {NoTrade}], read : Nat, write : Nat]

(* What lies between the indices was written, and is all there.            *)
RingOK(r) ==
    /\ r \in Ring
    /\ r.read <= r.write /\ r.write - r.read <= Capacity
    /\ \A k \in r.read .. r.write - 1 : r.storage[k % Capacity] \in Trades

(* An index has a slot.                                                    *)
LEMMA SlotOfIndex ==
    ASSUME NEW a \in Nat
    PROVE  a % Capacity \in 0 .. Capacity - 1
BY RingAssumption

(* Fewer than Capacity apart, two indices have two slots.                  *)
LEMMA SlotsDiffer ==
    ASSUME NEW a \in Nat, NEW b \in Nat, a < b, b - a < Capacity
    PROVE  a % Capacity # b % Capacity
<1> SUFFICES ASSUME a % Capacity = b % Capacity PROVE FALSE
    OBVIOUS
<1>1. Capacity \in Nat /\ Capacity > 0
    BY RingAssumption
<1> DEFINE p == a \div Capacity
           q == b \div Capacity
           s == a % Capacity
<1>2. p \in Int /\ q \in Int /\ s \in Int
    BY <1>1
<1>3. a = Capacity * p + s /\ b = Capacity * q + s
    BY <1>1
<1> HIDE DEF p, q, s
<1>4. b - a = Capacity * (q - p)
    BY <1>1, <1>2, <1>3
<1>5. q - p \in Int /\ q - p >= 1
    BY <1>1, <1>2, <1>4
<1>6. Capacity * (q - p) >= Capacity
    BY <1>1, <1>5
<1> QED
    BY <1>1, <1>2, <1>4, <1>6

(* A ring is its storage and its two indices.                              *)
LEMMA RingFields ==
    ASSUME NEW r, RingOK(r)
    PROVE  \E st \in [0 .. Capacity - 1 -> Trades \union {NoTrade}], rd \in Nat, wr \in Nat :
              /\ r = [storage |-> st, read |-> rd, write |-> wr]
              /\ rd <= wr /\ wr - rd <= Capacity
              /\ \A k \in rd .. wr - 1 : st[k % Capacity] \in Trades
BY DEF RingOK, Ring

(* A function on 1 .. n is a sequence.                                     *)
LEMMA SequenceOf ==
    ASSUME NEW S, NEW n \in Nat, NEW f \in [1 .. n -> S]
    PROVE  f \in Seq(S) /\ Len(f) = n
OBVIOUS

(* What the ring holds, counted and addressed from its read index.         *)
LEMMA ContentsOfRing ==
    ASSUME NEW r, RingOK(r)
    PROVE  /\ Size(r) = r.write - r.read /\ Size(r) \in 0 .. Capacity
           /\ Contents(r) \in Seq(Trades) /\ Len(Contents(r)) = r.write - r.read
           /\ \A i \in 1 .. r.write - r.read :
                 Contents(r)[i] = r.storage[(r.read + i - 1) % Capacity]
<1>1. PICK st \in [0 .. Capacity - 1 -> Trades \union {NoTrade}], rd \in Nat, wr \in Nat :
          /\ r = [storage |-> st, read |-> rd, write |-> wr]
          /\ rd <= wr /\ wr - rd <= Capacity
          /\ \A k \in rd .. wr - 1 : st[k % Capacity] \in Trades
    BY RingFields
<1>2. Capacity \in Nat
    BY RingAssumption
<1>3. r.storage = st /\ r.read = rd /\ r.write = wr
    BY <1>1
<1>4. Size(r) = wr - rd /\ Size(r) \in 0 .. Capacity
    BY <1>1, <1>2, <1>3 DEF Size
<1>5. Contents(r) = [i \in 1 .. wr - rd |-> st[(rd + i - 1) % Capacity]]
    BY <1>3, <1>4 DEF Contents, Shifted
<1>6. wr - rd \in Nat /\ \A i \in 1 .. wr - rd : rd + i - 1 \in rd .. wr - 1
    BY <1>1
<1>7. \A i \in 1 .. wr - rd : st[(rd + i - 1) % Capacity] \in Trades
    BY <1>1, <1>6
<1>8. Contents(r) \in [1 .. wr - rd -> Trades]
    BY <1>5, <1>7
<1>9. Contents(r) \in Seq(Trades) /\ Len(Contents(r)) = wr - rd
    BY <1>6, <1>8, SequenceOf
<1> QED
    BY <1>3, <1>4, <1>5, <1>9

(* A new ring is a ring, and holds nothing.                                *)
LEMMA EmptyRingOK == RingOK(EmptyRing) /\ Contents(EmptyRing) = <<>>
<1>1. EmptyRing \in Ring /\ EmptyRing.read = 0 /\ EmptyRing.write = 0
    BY RingAssumption DEF EmptyRing, Ring
<1>2. RingOK(EmptyRing)
    BY <1>1, RingAssumption DEF RingOK
<1>3. Contents(EmptyRing) \in Seq(Trades) /\ Len(Contents(EmptyRing)) = 0
    BY <1>1, <1>2, ContentsOfRing
<1> QED
    BY <1>2, <1>3

(* Push() is what Arrive does to a queue: append, and let the oldest go.   *)
LEMMA PushAppends ==
    ASSUME NEW r, RingOK(r), NEW t \in Trades
    PROVE  /\ RingOK(Push(r, t))
           /\ LET more == Append(Contents(r), t)
              IN  Contents(Push(r, t)) = IF Len(more) > Capacity THEN Tail(more) ELSE more
<1>1. PICK st \in [0 .. Capacity - 1 -> Trades \union {NoTrade}], rd \in Nat, wr \in Nat :
          /\ r = [storage |-> st, read |-> rd, write |-> wr]
          /\ rd <= wr /\ wr - rd <= Capacity
          /\ \A k \in rd .. wr - 1 : st[k % Capacity] \in Trades
    BY RingFields
<1>2. /\ Capacity \in Nat /\ Capacity > 0
      /\ rd \in Nat /\ wr \in Nat /\ rd <= wr /\ wr - rd <= Capacity
    BY <1>1, RingAssumption
<1> DEFINE old == Contents(r)
<1>3. /\ old \in Seq(Trades) /\ Len(old) = wr - rd
      /\ \A i \in 1 .. wr - rd : old[i] = st[(rd + i - 1) % Capacity]
    <2>1. r.storage = st /\ r.read = rd /\ r.write = wr
        BY <1>1
    <2> QED
        BY <2>1, ContentsOfRing
<1> HIDE DEF old
<1> DEFINE first == IF wr + 1 - rd > Capacity THEN wr + 1 - Capacity ELSE rd
<1>4. /\ first \in Nat
      /\ wr + 1 - rd > Capacity => first = wr + 1 - Capacity
      /\ ~(wr + 1 - rd > Capacity) => first = rd
    BY <1>2
<1> HIDE DEF first
<1>5. first >= rd /\ first <= wr /\ wr + 1 - first <= Capacity
    BY <1>2, <1>4
<1>6. wr % Capacity \in 0 .. Capacity - 1
    BY SlotOfIndex
<1>7. PICK st2 : st2 = [st EXCEPT ![wr % Capacity] = t]
    OBVIOUS
<1>8. st2 \in [0 .. Capacity - 1 -> Trades \union {NoTrade}] /\ st2[wr % Capacity] = t
    BY <1>6, <1>7
<1>9. ASSUME NEW k \in first .. wr - 1
      PROVE  st2[k % Capacity] = st[k % Capacity] /\ st[k % Capacity] \in Trades
    <2>1. k \in Nat /\ k < wr /\ wr - k < Capacity /\ k \in rd .. wr - 1
        BY <1>2, <1>4, <1>5
    <2>2. k % Capacity # wr % Capacity
        BY <2>1, SlotsDiffer
    <2>3. k % Capacity \in 0 .. Capacity - 1
        BY <2>1, SlotOfIndex
    <2> QED
        BY <1>1, <1>6, <1>7, <2>1, <2>2, <2>3
<1>10. Push(r, t) = [storage |-> st2, read |-> first, write |-> wr + 1]
    <2>1. r.storage = st /\ r.read = rd /\ r.write = wr
        BY <1>1
    <2> QED
        BY <1>2, <1>7, <2>1 DEF Push, first
<1>11. \A k \in first .. (wr + 1) - 1 : st2[k % Capacity] \in Trades
    <2> SUFFICES ASSUME NEW k \in first .. (wr + 1) - 1 PROVE st2[k % Capacity] \in Trades
        OBVIOUS
    <2>1. CASE k = wr
        BY <1>8, <2>1
    <2>2. CASE k # wr
        BY <1>9, <2>2
    <2> QED
        BY <2>1, <2>2
<1> DEFINE pushed == Push(r, t)
           new == Contents(pushed)
           more == Append(old, t)
<1>12. RingOK(pushed) /\ pushed.storage = st2 /\ pushed.read = first /\ pushed.write = wr + 1
    <2>1. /\ pushed.storage = st2 /\ pushed.read = first /\ pushed.write = wr + 1
          /\ pushed \in Ring
        BY <1>2, <1>4, <1>8, <1>10 DEF Ring
    <2> HIDE DEF pushed
    <2> QED
        BY <1>2, <1>4, <1>5, <1>11, <2>1 DEF RingOK
<1>13. /\ RingOK(Push(r, t))
       /\ new \in Seq(Trades) /\ Len(new) = (wr + 1) - first
       /\ \A i \in 1 .. (wr + 1) - first : new[i] = st2[(first + i - 1) % Capacity]
    <2> HIDE DEF pushed
    <2>1. RingOK(pushed) /\ new \in Seq(Trades) /\ Len(new) = (wr + 1) - first
        BY <1>12, ContentsOfRing
    <2>2. \A i \in 1 .. (wr + 1) - first : new[i] = st2[(first + i - 1) % Capacity]
        BY <1>12, ContentsOfRing
    <2> QED
        BY <2>1, <2>2 DEF pushed
<1>14. /\ more \in Seq(Trades) /\ Len(more) = wr - rd + 1 /\ more[wr - rd + 1] = t
       /\ \A i \in 1 .. wr - rd : more[i] = st[(rd + i - 1) % Capacity]
    <2>1. /\ more \in Seq(Trades) /\ Len(more) = Len(old) + 1 /\ more[Len(old) + 1] = t
          /\ \A i \in 1 .. Len(old) : more[i] = old[i]
        BY <1>3
    <2> QED
        BY <1>3, <2>1
<1> HIDE DEF new, more
<1>15. ASSUME NEW i \in 1 .. (wr + 1) - first
       PROVE  new[i] = more[i + (first - rd)]
    <2>1. i + (first - rd) \in 1 .. wr - rd + 1 /\ rd + (i + (first - rd)) - 1 = first + i - 1
        BY <1>2, <1>4, <1>5
    <2>2. CASE i = (wr + 1) - first
        <3>1. first + i - 1 = wr /\ i + (first - rd) = wr - rd + 1
            BY <1>2, <1>4, <2>2
        <3> QED
            BY <1>8, <1>13, <1>14, <3>1
    <2>3. CASE i # (wr + 1) - first
        <3>1. first + i - 1 \in first .. wr - 1 /\ i + (first - rd) \in 1 .. wr - rd
            BY <1>2, <1>4, <1>5, <2>1, <2>3
        <3> QED
            BY <1>9, <1>13, <1>14, <2>1, <3>1
    <2> QED
        BY <2>2, <2>3
<1>16. new = IF Len(more) > Capacity THEN Tail(more) ELSE more
    <2>1. CASE Len(more) > Capacity
        <3>1. first - rd = 1 /\ Len(new) = Len(more) - 1
            BY <1>2, <1>4, <1>13, <1>14, <2>1
        <3>2. ASSUME NEW i \in 1 .. Len(new)
              PROVE  new[i] = more[i + 1]
            <4>1. Len(new) = (wr + 1) - first
                BY <1>13
            <4>2. i \in 1 .. (wr + 1) - first
                BY <4>1
            <4>3. new[i] = more[i + (first - rd)]
                BY <4>2, <1>15
            <4> QED
                BY <4>3, <3>1
        <3>3. Tail(more) \in Seq(Trades) /\ Len(Tail(more)) = Len(more) - 1
              /\ \A i \in 1 .. Len(more) - 1 : Tail(more)[i] = more[i + 1]
            BY <1>2, <1>14
        <3>4. new = Tail(more)
            BY <1>13, <3>1, <3>2, <3>3
        <3> QED
            BY <2>1, <3>4
    <2>2. CASE ~(Len(more) > Capacity)
        <3>1. first = rd /\ Len(new) = Len(more)
            BY <1>2, <1>4, <1>13, <1>14, <2>2
        <3>2. ASSUME NEW i \in 1 .. Len(new)
              PROVE  new[i] = more[i]
            <4>1. Len(new) = (wr + 1) - first
                BY <1>13
            <4>2. i \in 1 .. (wr + 1) - first
                BY <4>1
            <4>3. new[i] = more[i + (first - rd)]
                BY <4>2, <1>15
            <4>4. i + (first - rd) = i
                BY <1>2, <1>4, <3>1
            <4> QED
                BY <4>3, <4>4
        <3>3. new = more
            BY <1>13, <1>14, <3>1, <3>2
        <3> QED
            BY <2>2, <3>3
    <2> QED
        BY <2>1, <2>2
<1> QED
    BY <1>13, <1>16 DEF new, more, old, pushed

(* Shift() is what Take does to a queue.                                   *)
LEMMA ShiftTakes ==
    ASSUME NEW r, RingOK(r), NEW n \in 0 .. Size(r)
    PROVE  /\ RingOK(Shift(r, n))
           /\ Shifted(r, n) = SubSeq(Contents(r), 1, n)
           /\ Contents(Shift(r, n)) = SubSeq(Contents(r), n + 1, Len(Contents(r)))
<1>1. PICK st \in [0 .. Capacity - 1 -> Trades \union {NoTrade}], rd \in Nat, wr \in Nat :
          /\ r = [storage |-> st, read |-> rd, write |-> wr]
          /\ rd <= wr /\ wr - rd <= Capacity
          /\ \A k \in rd .. wr - 1 : st[k % Capacity] \in Trades
    BY RingFields
<1> DEFINE old == Contents(r)
           left == Shift(r, n)
           new == Contents(left)
<1>2. /\ Size(r) = wr - rd /\ old \in Seq(Trades) /\ Len(old) = wr - rd
      /\ \A i \in 1 .. wr - rd : old[i] = st[(rd + i - 1) % Capacity]
    <2>1. r.storage = st /\ r.read = rd /\ r.write = wr
        BY <1>1
    <2> QED
        BY <2>1, ContentsOfRing
<1>3. /\ Capacity \in Nat /\ rd \in Nat /\ wr \in Nat /\ wr - rd <= Capacity
      /\ n \in Nat /\ n <= wr - rd
    BY <1>1, <1>2, RingAssumption
<1> HIDE DEF old
<1>4. Shift(r, n) = [storage |-> st, read |-> rd + n, write |-> wr]
    BY <1>1 DEF Shift
<1>5. rd + n \in Nat /\ rd + n <= wr /\ wr - (rd + n) <= Capacity
    BY <1>3
<1>6. \A k \in rd + n .. wr - 1 : st[k % Capacity] \in Trades
    <2>1. \A k \in rd + n .. wr - 1 : k \in rd .. wr - 1
        BY <1>3
    <2> QED
        BY <1>1, <2>1
<1>7. /\ RingOK(left)
      /\ left.storage = st /\ left.read = rd + n /\ left.write = wr
    <2>1. /\ left.storage = st /\ left.read = rd + n /\ left.write = wr
          /\ left \in Ring
        BY <1>1, <1>3, <1>4, <1>5 DEF Ring
    <2> HIDE DEF left
    <2> QED
        BY <1>5, <1>6, <2>1 DEF RingOK
<1>8. /\ RingOK(Shift(r, n))
      /\ new \in Seq(Trades) /\ Len(new) = wr - (rd + n)
      /\ \A i \in 1 .. wr - (rd + n) : new[i] = st[((rd + n) + i - 1) % Capacity]
    <2> HIDE DEF left
    <2>1. RingOK(left) /\ new \in Seq(Trades) /\ Len(new) = wr - (rd + n)
        BY <1>7, ContentsOfRing, ZenonT(30)
    <2>2. \A i \in 1 .. wr - (rd + n) : new[i] = st[((rd + n) + i - 1) % Capacity]
        BY <1>7, ContentsOfRing, ZenonT(30)
    <2> QED
        BY <2>1, <2>2 DEF left
<1> HIDE DEF new
<1>9. Shifted(r, n) = SubSeq(old, 1, n)
    <2>1. r.storage = st /\ r.read = rd
        BY <1>1
    <2>2. Shifted(r, n) = [i \in 1 .. n |-> st[(rd + i - 1) % Capacity]]
        BY <2>1 DEF Shifted
    <2>3. SubSeq(old, 1, n) = [i \in 1 .. n |-> old[i]]
        BY <1>3, <1>2
    <2>4. \A i \in 1 .. n : old[i] = st[(rd + i - 1) % Capacity]
        BY <1>3, <1>2
    <2> QED
        BY <2>2, <2>3, <2>4
<1>10. new = SubSeq(old, n + 1, Len(old))
    <2> DEFINE rest == SubSeq(old, n + 1, Len(old))
    <2>1. /\ rest \in Seq(Trades) /\ Len(rest) = wr - (rd + n)
          /\ \A i \in 1 .. wr - (rd + n) : rest[i] = old[n + i]
        BY <1>3, <1>2
    <2> HIDE DEF rest
    <2>2. ASSUME NEW i \in 1 .. wr - (rd + n) PROVE new[i] = rest[i]
        <3>1. n + i \in 1 .. wr - rd /\ rd + (n + i) - 1 = (rd + n) + i - 1
            BY <1>3
        <3> QED
            BY <1>2, <1>8, <2>1, <3>1
    <2> QED
        BY <1>8, <2>1, <2>2, SMTT(20) DEF rest
<1> QED
    BY <1>8, <1>9, <1>10 DEF old, new, left

(* The trades of some venues can be counted.                               *)
LEMMA SumOfSizesIsNat ==
    ASSUME NEW venues \in SUBSET RingVenues, \A v \in venues : Size(Present[v]) \in Nat
    PROVE  SumOfSizes(venues) \in Nat
<1> DEFINE f == [v \in venues |-> Size(Present[v])]
           Next1(it, s) == IF s = {} THEN 0
                          ELSE Size(Present[CHOOSE x \in s : TRUE]) + it[s \ {CHOOSE x \in s : TRUE}]
           sum == CHOOSE it : it = [s \in SUBSET venues |-> Next1(it, s)]
<1>1. IsFiniteSet(venues) /\ f \in [venues -> Nat]
    BY RingAssumption, FS_Subset
<1>2. PICK it \in SumsOf(f, venues) : TRUE
    <2> HIDE DEF f
    <2> QED
        BY <1>1, SumExists
<1>3. \A s \in SUBSET venues : s # {} =>
         f[CHOOSE x \in s : TRUE] = Size(Present[CHOOSE x \in s : TRUE])
    OBVIOUS
<1>4. it = [s \in SUBSET venues |-> Next1(it, s)]
    <2>1. it \in [SUBSET venues -> Nat] /\ \A s \in SUBSET venues :
             it[s] = IF s = {} THEN 0
                     ELSE f[CHOOSE x \in s : TRUE] + it[s \ {CHOOSE x \in s : TRUE}]
        BY <1>2 DEF SumsOf
    <2> HIDE DEF f
    <2> QED
        BY <1>3, <2>1
<1>5. sum = [s \in SUBSET venues |-> Next1(sum, s)]
    <2> HIDE DEF Next1
    <2> QED
        BY <1>4, Zenon
<1>6. SumOfSizes(venues) = sum[venues]
    BY Zenon DEF SumOfSizes, MapThenSumSet, MapThenFoldSet
<1> HIDE DEF sum, f
<1>7. SumsAlong(sum, f, venues)
    BY <1>3, <1>5 DEF SumsAlong
<1> QED
    BY <1>1, <1>6, <1>7, SumIsNat

(* Every ring of every market is sound; those of markets to come are       *)
(* empty.                                                                  *)
RingsInv ==
    /\ markets \in 0 .. MaxMarkets /\ market \in 0 .. markets
    /\ arrived \in 0 .. MaxTrades
    /\ rings \in [1 .. MaxMarkets -> [RingVenues -> Ring]]
    /\ \A m \in 1 .. MaxMarkets, v \in RingVenues : RingOK(rings[m][v])
    /\ \A m \in 1 .. MaxMarkets : m > markets => rings[m] = [v \in RingVenues |-> EmptyRing]

(* What the rings of the present market hold, venue by venue.              *)
Held == [v \in RingVenues |-> IF market = 0 THEN <<>> ELSE Contents(Present[v])]

(* At first there is no market, and nothing is held.                       *)
LEMMA RingsInvInit == RingsInit => RingsInv /\ Held = [v \in RingVenues |-> <<>>]
<1> SUFFICES ASSUME RingsInit PROVE RingsInv /\ Held = [v \in RingVenues |-> <<>>]
    OBVIOUS
<1>1. RingOK(EmptyRing) /\ EmptyRing \in Ring
    BY EmptyRingOK DEF RingOK
<1> QED
    BY <1>1, RingBoundsAssumption DEF RingsInit, RingsInv, Held

(* What the drain takes of a ring is there.                                *)
LEMMA DrainTakesHeld ==
    ASSUME RingsInv, market # 0, NEW count \in Nat, NEW v \in RingVenues
    PROVE  TakenFrom(v, count) \in 0 .. Size(Present[v]) /\ Size(Present[v]) \in 0 .. Capacity
<1>1. \A u \in RingVenues : Size(Present[u]) \in 0 .. Capacity
    <2>1. market \in 1 .. MaxMarkets
        BY RingBoundsAssumption DEF RingsInv
    <2> QED
        BY <2>1, ContentsOfRing DEF RingsInv, Present
<1>2. Capacity \in Nat
    BY RingAssumption
<1> DEFINE before == SumOfSizes({u \in RingVenues : Priority[u] < Priority[v]})
<1>3. before \in Nat
    BY <1>1, <1>2, SumOfSizesIsNat
<1> HIDE DEF before
<1>4. TakenFrom(v, count) = LET left == IF count > before THEN count - before ELSE 0
                            IN  IF left < Size(Present[v]) THEN left ELSE Size(Present[v])
    BY DEF TakenFrom, before
<1> QED
    BY <1>1, <1>2, <1>3, <1>4

(* A trade of the present market is an arrival at its queue; one of a      *)
(* market that was left changes no queue of this one.                      *)
LEMMA TradeMessageArrives ==
    RingsInv /\ TradeMessage => RingsInv' /\ [Queues!QNext]_Queues!qVars
<1> SUFFICES ASSUME RingsInv, TradeMessage PROVE RingsInv' /\ [Queues!QNext]_Queues!qVars
    OBVIOUS
<1>1. PICK m \in 1 .. markets, v \in RingVenues :
          /\ arrived < MaxTrades /\ arrived' = arrived + 1
          /\ rings' = [rings EXCEPT ![m][v] = Push(@, [id |-> arrived', market |-> m])]
          /\ UNCHANGED <<market, markets, taken>>
    BY DEF TradeMessage
<1> DEFINE t == [id |-> arrived', market |-> m]
           r == rings[m][v]
<1>2. m \in 1 .. MaxMarkets /\ t \in Trades /\ RingOK(r)
    BY <1>1, RingBoundsAssumption DEF RingsInv, Trades
<1> HIDE DEF t
<1>3. /\ RingOK(Push(r, t)) /\ Push(r, t) \in Ring
      /\ LET more == Append(Contents(r), t)
         IN  Contents(Push(r, t)) = IF Len(more) > Capacity THEN Tail(more) ELSE more
    BY <1>2, PushAppends DEF RingOK
<1>4. /\ rings' = [rings EXCEPT ![m] = [rings[m] EXCEPT ![v] = Push(r, t)]]
      /\ rings[m] \in [RingVenues -> Ring]
    BY <1>1, <1>2 DEF t, RingsInv
<1>5. /\ \A n \in 1 .. MaxMarkets : n # m => rings'[n] = rings[n]
      /\ \A u \in RingVenues : rings'[m][u] = IF u = v THEN Push(r, t) ELSE rings[m][u]
      /\ rings' \in [1 .. MaxMarkets -> [RingVenues -> Ring]]
    BY <1>2, <1>3, <1>4 DEF RingsInv
<1>6. RingsInv'
    BY <1>1, <1>2, <1>3, <1>5, RingBoundsAssumption DEF RingsInv
<1>7. CASE market = m
    <2>1. m # 0 /\ market' = m
        BY <1>1, <1>7
    <2>2. Held[v] = Contents(r) /\ \A u \in RingVenues : Held[u] = Contents(rings[m][u])
        BY <1>7, <2>1 DEF Held, Present
    <2>3. Held' = [u \in RingVenues |-> Contents(rings'[m][u])]
        BY <2>1 DEF Held, Present
    <2>4. Held' = [Held EXCEPT ![v] = LET more == Append(Held[v], t)
                                      IN  IF Len(more) > Capacity THEN Tail(more) ELSE more]
        <3>1. \A u \in RingVenues : u # v => rings'[m][u] = rings[m][u]
            BY <1>5
        <3>2. rings'[m][v] = Push(r, t)
            BY <1>5
        <3>3. \A u \in RingVenues : u # v => Held'[u] = Held[u]
            BY <2>2, <2>3, <3>1
        <3>4. Held'[v] = Contents(Push(r, t))
            BY <2>3, <3>2
        <3>5. Held'[v] = LET more == Append(Held[v], t)
                         IN  IF Len(more) > Capacity THEN Tail(more) ELSE more
            BY <1>3, <2>2, <3>4
        <3>6. Held = [u \in RingVenues |-> Held[u]] /\ Held' = [u \in RingVenues |-> Held'[u]]
            BY <2>3 DEF Held
        <3> HIDE DEF Held, r
        <3> QED
            BY <3>3, <3>5, <3>6
    <2>5. Queues!Arrive
        BY <1>1, <1>2, <2>4 DEF Queues!Arrive, Held
    <2> QED
        BY <1>6, <2>5 DEF Queues!QNext
<1>8. CASE market # m
    <2>1. Held' = Held
        <3>1. CASE market = 0
            BY <1>1, <3>1 DEF Held
        <3>2. CASE market # 0
            <4>1. market \in 1 .. MaxMarkets /\ market' = market
                BY <1>1, <3>2, RingBoundsAssumption DEF RingsInv
            <4>2. rings'[market'] = rings[market]
                BY <1>5, <1>8, <4>1
            <4> QED
                BY <4>1, <4>2 DEF Held, Present
        <3> QED
            BY <3>1, <3>2
    <2> QED
        BY <1>1, <1>6, <2>1 DEF Queues!qVars, Held
<1> QED
    BY <1>7, <1>8

(* A drain takes what was held longest, venue by venue, and hands it on in *)
(* that order.                                                             *)
LEMMA DrainFrameTakes ==
    RingsInv /\ DrainFrame => RingsInv' /\ [Queues!QNext]_Queues!qVars
<1> SUFFICES ASSUME RingsInv, DrainFrame PROVE RingsInv' /\ [Queues!QNext]_Queues!qVars
    OBVIOUS
<1>1. UNCHANGED <<market, markets, arrived>>
    BY DEF DrainFrame
<1>2. CASE UNCHANGED <<rings, taken>>
    <2>1. Held' = Held
        BY <1>1, <1>2 DEF Held, Present
    <2> QED
        BY <1>1, <1>2, <2>1 DEF RingsInv, Queues!qVars, Held
<1>3. CASE ~UNCHANGED <<rings, taken>>
    <2>1. PICK count \in 1 .. Capacity * Cardinality(RingVenues) :
              /\ market # 0
              /\ taken' = [v \in RingVenues |-> Shifted(Present[v], TakenFrom(v, count))]
              /\ rings' = [rings EXCEPT ![market] =
                              [v \in RingVenues |-> Shift(@[v], TakenFrom(v, count))]]
        BY <1>3 DEF DrainFrame
    <2>2. market \in 1 .. MaxMarkets /\ count \in Nat /\ market' = market
        BY <1>1, <2>1, RingBoundsAssumption DEF RingsInv
    <2> DEFINE n == [v \in RingVenues |-> TakenFrom(v, count)]
    <2>3. \A v \in RingVenues : RingOK(Present[v]) /\ n[v] \in 0 .. Size(Present[v])
                                /\ Size(Present[v]) \in 0 .. Capacity
        BY <2>1, <2>2, DrainTakesHeld DEF RingsInv, Present
    <2>4. /\ taken' = [v \in RingVenues |-> Shifted(Present[v], n[v])]
          /\ rings' = [rings EXCEPT ![market] = [v \in RingVenues |-> Shift(Present[v], n[v])]]
        BY <2>1 DEF Present
    <2>5. n \in [RingVenues -> 0 .. Capacity]
        BY <2>3, RingAssumption
    <2> HIDE DEF n
    <2>6. ASSUME NEW v \in RingVenues
          PROVE  /\ RingOK(Shift(Present[v], n[v])) /\ Shift(Present[v], n[v]) \in Ring
                 /\ Shifted(Present[v], n[v]) = SubSeq(Held[v], 1, n[v])
                 /\ Contents(Shift(Present[v], n[v])) = SubSeq(Held[v], n[v] + 1, Len(Held[v]))
                 /\ n[v] <= Len(Held[v])
        <3>1. Held[v] = Contents(Present[v]) /\ Len(Held[v]) = Size(Present[v])
            BY <2>1, <2>3, ContentsOfRing DEF Held
        <3>2. n[v] \in 0 .. Size(Present[v]) /\ n[v] \in Nat /\ Size(Present[v]) \in Nat
            BY <2>3, <2>5, RingAssumption
        <3>3. n[v] <= Size(Present[v])
            BY <3>2
        <3>4. RingOK(Present[v])
            BY <2>3
        <3>5. /\ RingOK(Shift(Present[v], n[v]))
              /\ Shifted(Present[v], n[v]) = SubSeq(Contents(Present[v]), 1, n[v])
              /\ Contents(Shift(Present[v], n[v]))
                    = SubSeq(Contents(Present[v]), n[v] + 1, Len(Contents(Present[v])))
            BY <3>2, <3>4, ShiftTakes
        <3> QED
            BY <3>1, <3>3, <3>5 DEF RingOK
    <2>7. /\ \A m \in 1 .. MaxMarkets : m # market => rings'[m] = rings[m]
          /\ rings'[market] = [v \in RingVenues |-> Shift(Present[v], n[v])]
          /\ rings' \in [1 .. MaxMarkets -> [RingVenues -> Ring]]
        BY <2>2, <2>4, <2>6 DEF RingsInv
    <2>8. RingsInv'
        BY <1>1, <2>2, <2>6, <2>7 DEF RingsInv
    <2>9. Held' = [v \in RingVenues |-> SubSeq(Held[v], n[v] + 1, Len(Held[v]))]
        <3>1. Held' = [v \in RingVenues |-> Contents(rings'[market][v])]
            BY <2>1, <2>2 DEF Held, Present
        <3> QED
            BY <2>6, <2>7, <3>1
    <2>10. taken' = [v \in RingVenues |-> SubSeq(Held[v], 1, n[v])]
        BY <2>4, <2>6
    <2>11. Queues!Take
        BY <2>5, <2>6, <2>9, <2>10 DEF Queues!Take, Held
    <2> QED
        BY <2>8, <2>11 DEF Queues!QNext
<1> QED
    BY <1>2, <1>3

(* A new market begins with empty queues.                                  *)
LEMMA ConnectRingsEmpties ==
    RingsInv /\ ConnectRings => RingsInv' /\ [Queues!QNext]_Queues!qVars
<1> SUFFICES ASSUME RingsInv, ConnectRings PROVE RingsInv' /\ [Queues!QNext]_Queues!qVars
    OBVIOUS
<1>1. /\ markets < MaxMarkets /\ markets' = markets + 1 /\ market' = markets'
      /\ UNCHANGED <<rings, arrived, taken>>
    BY DEF ConnectRings
<1>2. RingsInv'
    BY <1>1, RingBoundsAssumption DEF RingsInv
<1>3. rings'[market'] = [v \in RingVenues |-> EmptyRing] /\ market' # 0
    BY <1>1, RingBoundsAssumption DEF RingsInv
<1>4. Held' = [v \in RingVenues |-> <<>>]
    BY <1>3, EmptyRingOK DEF Held, Present
<1>5. Queues!Empty
    BY <1>1, <1>4 DEF Queues!Empty, Held
<1> QED
    BY <1>2, <1>5 DEF Queues!QNext

(* So does none.                                                           *)
LEMMA DropRingsEmpties ==
    RingsInv /\ DropRings => RingsInv' /\ [Queues!QNext]_Queues!qVars
<1> SUFFICES ASSUME RingsInv, DropRings PROVE RingsInv' /\ [Queues!QNext]_Queues!qVars
    OBVIOUS
<1>1. market' = 0 /\ UNCHANGED <<markets, rings, arrived, taken>>
    BY DEF DropRings
<1>2. RingsInv'
    BY <1>1 DEF RingsInv
<1>3. Held' = [v \in RingVenues |-> <<>>]
    BY <1>1 DEF Held
<1>4. Queues!Empty
    BY <1>1, <1>3 DEF Queues!Empty, Held
<1> QED
    BY <1>2, <1>4 DEF Queues!QNext

(* The trade rings of MarketDataBus are bounded queues that lose only      *)
(* their oldest entries, for any capacity, venues and priorities: the      *)
(* wrapping of the indices, the overwriting of push() and the order of     *)
(* drainTradeRings() show nowhere.                                         *)
THEOREM RingsAreQueues == RingsSpec => QueuesSpec
<1>1. RingsInit => RingsInv /\ Queues!QInit
    <2> SUFFICES ASSUME RingsInit PROVE RingsInv /\ Queues!QInit
        OBVIOUS
    <2>1. RingsInv /\ Held = [v \in RingVenues |-> <<>>]
        BY RingsInvInit
    <2> QED
        BY <2>1 DEF Queues!QInit, Held, RingsInit
<1>2. RingsInv /\ [RingsNext]_ringsVars => RingsInv' /\ [Queues!QNext]_Queues!qVars
    <2> SUFFICES ASSUME RingsInv, [RingsNext]_ringsVars
                 PROVE  RingsInv' /\ [Queues!QNext]_Queues!qVars
        OBVIOUS
    <2>1. CASE UNCHANGED ringsVars
        <3>1. UNCHANGED <<market, markets, rings, drainRaf, arrived, taken>>
            BY <2>1 DEF ringsVars
        <3>2. Held' = Held
            BY <3>1 DEF Held, Present
        <3> QED
            BY <3>1, <3>2 DEF RingsInv, Queues!qVars, Held
    <2> QED
        BY <2>1, TradeMessageArrives, DrainFrameTakes, ConnectRingsEmpties, DropRingsEmpties
           DEF RingsNext
<1> QED
    BY <1>1, <1>2, PTL DEF RingsSpec, QueuesSpec, Queues!QSpec

-----------------------------------------------------------------------------
(* The local order book.                                                   *)

(* The books there are.                                                    *)
Books == [Levels -> Nat]

(* An update changes one level.                                            *)
LEMMA AppliedIsBook ==
    ASSUME NEW bk \in Books, NEW d, d.level \in Levels, d.size \in Sizes
    PROVE  /\ Applied(bk, d) \in Books
           /\ \A l \in Levels : Applied(bk, d)[l] = IF l = d.level THEN d.size ELSE bk[l]
BY BookAssumption DEF Books, Applied

(* One update, as a function.                                              *)
BookStep == [p \in Books \X Updates |-> Applied(p[1], p[2])]

(* Folding updates into a book runs through books.                         *)
LEMMA BookRun ==
    ASSUME NEW seq \in Seq(Updates)
    PROVE  \E run : IsRun(run, Books, EmptyBook, BookStep, seq)
                    /\ FoldLeft(Applied, EmptyBook, seq) = run[Len(seq)]
<1>1. DOMAIN seq = 1 .. Len(seq) /\ Len(seq) \in Nat
    OBVIOUS
<1>2. BookStep \in [Books \X Updates -> Books] /\ EmptyBook \in Books
    <2>1. ASSUME NEW bk \in Books, NEW d \in Updates PROVE Applied(bk, d) \in Books
        BY AppliedIsBook DEF Updates
    <2>2. BookStep \in [Books \X Updates -> Books]
        BY <2>1 DEF BookStep
    <2>3. EmptyBook \in Books
        BY DEF EmptyBook, Books
    <2> QED
        BY <2>2, <2>3
<1>3. PICK it \in [SUBSET (1 .. Len(seq)) -> Books] :
          IsFold(it, EmptyBook, BookStep, seq, Len(seq))
    BY <1>2, FoldExists
<1> DEFINE Next1(f, s) == IF s = {} THEN EmptyBook ELSE Applied(f[s \ {Max(s)}], seq[Max(s)])
           fold == CHOOSE f : f = [s \in SUBSET DOMAIN seq |-> Next1(f, s)]
<1>4. FoldLeft(Applied, EmptyBook, seq) = fold[DOMAIN seq]
    BY Zenon DEF FoldLeft, MapThenFoldSet
<1>5. fold = [s \in SUBSET DOMAIN seq |-> Next1(fold, s)]
    <2>1. ASSUME NEW s \in SUBSET (1 .. Len(seq)) PROVE it[s] = Next1(it, s)
        <3>1. CASE s = {}
            BY <1>3, <3>1 DEF IsFold
        <3>2. CASE s # {}
            <4>1. Max(s) \in s
                BY <1>1, <3>2, MaxOfIndices
            <4>2. /\ s \ {Max(s)} \in SUBSET (1 .. Len(seq)) /\ it[s \ {Max(s)}] \in Books
                  /\ seq[Max(s)] \in Updates
                <5>1. Max(s) \in 1 .. Len(seq)
                    BY <4>1
                <5>2. s \ {Max(s)} \in SUBSET (1 .. Len(seq))
                    OBVIOUS
                <5>3. it[s \ {Max(s)}] \in Books
                    BY <1>3, <5>2
                <5>4. seq[Max(s)] \in Updates
                    BY <5>1
                <5> QED
                    BY <5>2, <5>3, <5>4
            <4>3. it[s] = BookStep[<<it[s \ {Max(s)}], seq[Max(s)]>>]
                BY <1>3, <3>2 DEF IsFold
            <4> QED
                BY <3>2, <4>2, <4>3 DEF BookStep
        <3> QED
            BY <3>1, <3>2
    <2>2. it = [s \in SUBSET DOMAIN seq |-> Next1(it, s)]
        <3>1. DOMAIN seq = 1 .. Len(seq)
            OBVIOUS
        <3> HIDE DEF Next1
        <3> QED
            BY <2>1, <3>1
    <2> HIDE DEF Next1
    <2> QED
        BY <2>2, Zenon
<1>6. PICK run : IsRun(run, Books, EmptyBook, BookStep, seq)
    BY <1>3, FoldRuns
<1> HIDE DEF fold
<1>7. fold[{}] = EmptyBook
    BY <1>5
<1>8. ASSUME NEW k \in 1 .. Len(seq), fold[1 .. (k - 1)] \in Books
      PROVE  fold[1 .. k] = BookStep[<<fold[1 .. (k - 1)], seq[k]>>]
    <2>1. Max(1 .. k) = k /\ (1 .. k) \ {k} = 1 .. (k - 1) /\ 1 .. k # {}
        <3>1. k \in Nat \ {0}
            BY <1>1
        <3> QED
            BY <3>1, MaxOfSegment
    <2>2. 1 .. k \in SUBSET DOMAIN seq /\ seq[k] \in Updates
        BY <1>1
    <2>3. fold[1 .. k] = Applied(fold[1 .. (k - 1)], seq[k])
        BY <1>5, <2>1, <2>2
    <2> QED
        BY <1>8, <2>2, <2>3 DEF BookStep
<1>9. fold[1 .. Len(seq)] = run[Len(seq)]
    <2>1. FoldsAlong(fold, Books, EmptyBook, BookStep, seq)
        BY <1>7, <1>8, Zenon DEF FoldsAlong
    <2> QED
        BY <1>6, <2>1, FoldEndsRun
<1> QED
    BY <1>4, <1>6, <1>1, <1>9

(* The values of syncStatus.                                               *)
Statuses == {"waiting-snapshot", "desynced", "live"}

(* The engine between two calls: live is loaded, and then nothing waits.   *)
Engines ==
    {e \in [book : Books, loaded : BOOLEAN, last : Nat \union {NoSeq},
            buffered : Seq(Deltas), status : Statuses] :
        /\ e.loaded <=> e.status = "live"
        /\ e.loaded => e.buffered = <<>>}

(* ingestDelta() leaves the engine in one of its states.                   *)
LEMMA IngestedIsEngine ==
    ASSUME NEW e \in Engines, NEW d \in Deltas
    PROVE  IngestDelta(e, d) \in Engines
<1>1. Applied(e.book, d) \in Books
    BY AppliedIsBook DEF Engines, Deltas
<1>2. d.seq \in Nat /\ e.buffered \in Seq(Deltas)
    BY DEF Engines, Deltas
<1>3. CASE ~e.loaded
    <2>1. Buffer(e.buffered, d) \in Seq(Deltas)
        <3>1. Append(e.buffered, d) \in Seq(Deltas) /\ Append(e.buffered, d) # <<>>
            BY <1>2
        <3> QED
            BY <3>1 DEF Buffer
    <2>2. IngestDelta(e, d) = [e EXCEPT !.buffered = Buffer(@, d), !.status = "waiting-snapshot"]
        BY <1>3 DEF IngestDelta
    <2> QED
        BY <1>3, <2>1, <2>2 DEF Engines, Statuses
<1>4. CASE e.loaded /\ e.last # NoSeq /\ d.seq > e.last + 1
    <2>1. <<d>> \in Seq(Deltas)
        OBVIOUS
    <2>2. IngestDelta(e, d)
              = [e EXCEPT !.loaded = FALSE, !.buffered = <<d>>, !.status = "desynced"]
        BY <1>4 DEF IngestDelta
    <2> QED
        BY <1>4, <2>1, <2>2 DEF Engines, Statuses
<1>5. CASE e.loaded /\ ~(e.last # NoSeq /\ d.seq > e.last + 1)
    BY <1>1, <1>2, <1>5 DEF Engines, Statuses, IngestDelta
<1> QED
    BY <1>3, <1>4, <1>5

(* One ingestDelta(), as a function.                                       *)
EngineStep == [p \in Engines \X Deltas |-> IngestDelta(p[1], p[2])]

(* Folding deltas into the engine runs through its states.                 *)
LEMMA EngineRun ==
    ASSUME NEW seq \in Seq(Deltas), NEW e \in Engines
    PROVE  \E run : IsRun(run, Engines, e, EngineStep, seq)
                    /\ FoldLeft(IngestDelta, e, seq) = run[Len(seq)]
<1>1. DOMAIN seq = 1 .. Len(seq) /\ Len(seq) \in Nat
    OBVIOUS
<1>2. EngineStep \in [Engines \X Deltas -> Engines]
    BY IngestedIsEngine DEF EngineStep
<1>3. PICK it \in [SUBSET (1 .. Len(seq)) -> Engines] :
          IsFold(it, e, EngineStep, seq, Len(seq))
    BY <1>2, FoldExists
<1> DEFINE Next1(f, s) == IF s = {} THEN e ELSE IngestDelta(f[s \ {Max(s)}], seq[Max(s)])
           fold == CHOOSE f : f = [s \in SUBSET DOMAIN seq |-> Next1(f, s)]
<1>4. FoldLeft(IngestDelta, e, seq) = fold[DOMAIN seq]
    BY Zenon DEF FoldLeft, MapThenFoldSet
<1>5. fold = [s \in SUBSET DOMAIN seq |-> Next1(fold, s)]
    <2>1. ASSUME NEW s \in SUBSET (1 .. Len(seq)) PROVE it[s] = Next1(it, s)
        <3>1. CASE s = {}
            BY <1>3, <3>1 DEF IsFold
        <3>2. CASE s # {}
            <4>1. Max(s) \in s
                BY <1>1, <3>2, MaxOfIndices
            <4>2. /\ s \ {Max(s)} \in SUBSET (1 .. Len(seq)) /\ it[s \ {Max(s)}] \in Engines
                  /\ seq[Max(s)] \in Deltas
                <5>1. Max(s) \in 1 .. Len(seq)
                    BY <4>1
                <5>2. s \ {Max(s)} \in SUBSET (1 .. Len(seq))
                    OBVIOUS
                <5>3. it[s \ {Max(s)}] \in Engines
                    BY <1>3, <5>2
                <5>4. seq[Max(s)] \in Deltas
                    BY <5>1
                <5> QED
                    BY <5>2, <5>3, <5>4
            <4>3. it[s] = EngineStep[<<it[s \ {Max(s)}], seq[Max(s)]>>]
                BY <1>3, <3>2 DEF IsFold
            <4> QED
                BY <3>2, <4>2, <4>3 DEF EngineStep
        <3> QED
            BY <3>1, <3>2
    <2>2. it = [s \in SUBSET DOMAIN seq |-> Next1(it, s)]
        <3>1. DOMAIN seq = 1 .. Len(seq)
            OBVIOUS
        <3> HIDE DEF Next1
        <3> QED
            BY <2>1, <3>1
    <2> HIDE DEF Next1
    <2> QED
        BY <2>2, Zenon
<1>6. PICK run : IsRun(run, Engines, e, EngineStep, seq)
    BY <1>3, FoldRuns
<1> HIDE DEF fold
<1>7. fold[{}] = e
    BY <1>5
<1>8. ASSUME NEW k \in 1 .. Len(seq), fold[1 .. (k - 1)] \in Engines
      PROVE  fold[1 .. k] = EngineStep[<<fold[1 .. (k - 1)], seq[k]>>]
    <2>1. Max(1 .. k) = k /\ (1 .. k) \ {k} = 1 .. (k - 1) /\ 1 .. k # {}
        <3>1. k \in Nat \ {0}
            BY <1>1
        <3> QED
            BY <3>1, MaxOfSegment
    <2>2. 1 .. k \in SUBSET DOMAIN seq /\ seq[k] \in Deltas
        BY <1>1
    <2>3. fold[1 .. k] = IngestDelta(fold[1 .. (k - 1)], seq[k])
        BY <1>5, <2>1, <2>2
    <2> QED
        BY <1>8, <2>2, <2>3 DEF EngineStep
<1>9. fold[1 .. Len(seq)] = run[Len(seq)]
    <2>1. FoldsAlong(fold, Engines, e, EngineStep, seq)
        BY <1>7, <1>8, Zenon DEF FoldsAlong
    <2> QED
        BY <1>6, <2>1, FoldEndsRun
<1> QED
    BY <1>4, <1>6, <1>1, <1>9

(* A venue's updates, and the deltas made of them.                         *)
LEMMA HistoryOf ==
    ASSUME NEW v \in BookVenues
    PROVE  /\ History[v] \in Seq(Updates) /\ Len(History[v]) \in Nat
           /\ \A n \in 1 .. Len(History[v]) : History[v][n] \in Updates /\ Delta(v, n) \in Deltas
<1>1. History[v] \in Seq(Updates) /\ Len(History[v]) \in Nat
    BY HistoryAssumption
<1>2. ASSUME NEW n \in 1 .. Len(History[v])
      PROVE  History[v][n] \in Updates /\ Delta(v, n) \in Deltas
    <2>1. History[v][n] \in Updates /\ n \in Nat
        BY <1>1
    <2>2. History[v][n].level \in Levels /\ History[v][n].size \in Sizes
        BY <2>1 DEF Updates
    <2> QED
        BY <2>1, <2>2 DEF Delta, Deltas
<1> QED
    BY <1>1, <1>2

(* The first updates of a history.                                         *)
LEMMA Prefix ==
    ASSUME NEW S, NEW seq \in Seq(S), NEW n \in 0 .. Len(seq)
    PROVE  /\ SubSeq(seq, 1, n) \in Seq(S) /\ Len(SubSeq(seq, 1, n)) = n
           /\ \A k \in 1 .. n : SubSeq(seq, 1, n)[k] = seq[k]
OBVIOUS

(* The book of a venue, one update after another.                          *)
LEMMA BookAtSteps ==
    ASSUME NEW v \in BookVenues, NEW n \in 0 .. Len(History[v])
    PROVE  /\ BookAt(v, n) \in Books
           /\ n # 0 => BookAt(v, n) = Applied(BookAt(v, n - 1), Delta(v, n))
<1> DEFINE all == History[v]
           upto(m) == SubSeq(all, 1, m)
<1>1. all \in Seq(Updates) /\ Len(all) \in Nat
    BY HistoryOf
<1>2. \A m \in 0 .. Len(all) : BookAt(v, m) = FoldLeft(Applied, EmptyBook, upto(m))
    BY Zenon DEF BookAt, VenueBooks
<1>3. upto(n) \in Seq(Updates) /\ Len(upto(n)) = n /\ \A k \in 1 .. n : upto(n)[k] = all[k]
    BY <1>1, Prefix
<1>4. PICK run : IsRun(run, Books, EmptyBook, BookStep, upto(n)) /\ BookAt(v, n) = run[n]
    BY <1>2, <1>3, BookRun
<1>5. BookAt(v, n) \in Books
    BY <1>1, <1>3, <1>4 DEF IsRun
<1>6. ASSUME n # 0 PROVE BookAt(v, n) = Applied(BookAt(v, n - 1), Delta(v, n))
    <2>1. n - 1 \in 0 .. Len(all) /\ n - 1 \in Nat /\ n \in 1 .. Len(all) /\ n \in 1 .. n
        BY <1>1, <1>6
    <2>2. /\ upto(n - 1) \in Seq(Updates) /\ Len(upto(n - 1)) = n - 1
          /\ \A k \in 1 .. n - 1 : upto(n - 1)[k] = all[k]
        BY <1>1, <2>1, Prefix
    <2>3. PICK before : /\ IsRun(before, Books, EmptyBook, BookStep, upto(n - 1))
                        /\ BookAt(v, n - 1) = before[n - 1]
        BY <1>2, <2>1, <2>2, BookRun
    <2>4. SharePrefix(upto(n), upto(n - 1), n - 1)
        BY <1>3, <2>1, <2>2 DEF SharePrefix
    <2> HIDE DEF all, upto
    <2>5. run[n - 1] = before[n - 1]
        BY <1>3, <1>4, <2>1, <2>2, <2>3, <2>4, RunsAgree
    <2>6. run[n] = BookStep[<<run[n - 1], upto(n)[n]>>] /\ run[n - 1] \in Books
        BY <1>3, <1>4, <2>1 DEF IsRun
    <2>7. upto(n)[n] = History[v][n] /\ History[v][n] \in Updates
        BY <1>3, <2>1, HistoryOf DEF all
    <2>8. BookAt(v, n) = Applied(BookAt(v, n - 1), History[v][n])
        BY <1>4, <2>3, <2>5, <2>6, <2>7 DEF BookStep
    <2> QED
        BY <2>8 DEF Applied, Delta
<1> QED
    BY <1>5, <1>6

(* Fused with no other, a book stays what it is.                           *)
LEMMA FusedAlone ==
    ASSUME NEW v, NEW books, DOMAIN books = {v}, books[v] \in Books
    PROVE  Fused(books) = books[v]
<1>1. ASSUME NEW l \in Levels
      PROVE  MapThenSumSet(LAMBDA u : books[u][l], DOMAIN books) = books[v][l]
    <2> DEFINE Next1(f, s) == IF s = {} THEN 0
                             ELSE books[CHOOSE x \in s : TRUE][l] + f[s \ {CHOOSE x \in s : TRUE}]
               sum == CHOOSE f : f = [s \in SUBSET {v} |-> Next1(f, s)]
               one == [s \in SUBSET {v} |-> IF s = {} THEN 0 ELSE books[v][l]]
    <2>1. books[v][l] \in Nat
        BY DEF Books
    <2>2. one = [s \in SUBSET {v} |-> Next1(one, s)]
        <3>1. ASSUME NEW s \in SUBSET {v} PROVE one[s] = Next1(one, s)
            <4>1. CASE s = {}
                BY <4>1
            <4>2. CASE s # {}
                <5>1. s = {v} /\ (CHOOSE x \in s : TRUE) = v
                    BY <4>2
                <5>2. s \ {v} = {} /\ {} \in SUBSET {v}
                    BY <5>1
                <5> QED
                    BY <2>1, <5>1, <5>2
            <4> QED
                BY <4>1, <4>2
        <3> HIDE DEF Next1
        <3> QED
            BY <3>1
    <2>3. sum = [s \in SUBSET {v} |-> Next1(sum, s)]
        <3> HIDE DEF Next1, one
        <3> QED
            BY <2>2, Zenon
    <2>4. MapThenSumSet(LAMBDA u : books[u][l], {v}) = sum[{v}]
        BY Zenon DEF MapThenSumSet, MapThenFoldSet
    <2> HIDE DEF sum
    <2>5. sum[{}] = 0
        BY <2>3
    <2>6. sum[{v}] = books[v][l] + sum[{v} \ {v}]
        <3>1. (CHOOSE x \in {v} : TRUE) = v
            OBVIOUS
        <3> QED
            BY <2>3, <3>1
    <2>7. {v} \ {v} = {}
        OBVIOUS
    <2>8. sum[{v}] = books[v][l] + 0
        BY <2>5, <2>6, <2>7, Zenon
    <2> DEFINE size == books[v][l]
    <2>9. size \in Nat /\ sum[{v}] = size + 0
        BY <2>1, <2>8
    <2> HIDE DEF size
    <2>10. sum[{v}] = size
        BY <2>9
    <2> QED
        BY <2>4, <2>10 DEF size
<1>2. Fused(books) = [l \in Levels |-> books[v][l]]
    BY <1>1, Zenon DEF Fused
<1> QED
    BY <1>2 DEF Books

(* Deltas of one venue up to its n-th update, each later than the one      *)
(* before it.                                                              *)
Own(v, n, deltas) ==
    /\ \A i \in 1 .. Len(deltas) :
           deltas[i].seq \in 1 .. n /\ deltas[i] = Delta(v, deltas[i].seq)
    /\ \A i, j \in 1 .. Len(deltas) : i < j => deltas[i].seq < deltas[j].seq

(* Deltas a venue had sent by then it has sent later.                      *)
LEMMA OwnGrows ==
    ASSUME NEW v, NEW n \in Nat, NEW m \in Nat, n <= m, NEW deltas \in Seq(Deltas), Own(v, n, deltas)
    PROVE  Own(v, m, deltas)
<1>1. \A i \in 1 .. Len(deltas) : deltas[i].seq \in 1 .. n => deltas[i].seq \in 1 .. m
    OBVIOUS
<1> QED
    BY <1>1 DEF Own

(* The delta of an update is the venue's.                                  *)
LEMMA OwnOne ==
    ASSUME NEW v, NEW n \in Nat \ {0}, Delta(v, n) \in Deltas
    PROVE  Own(v, n, <<Delta(v, n)>>)
<1> DEFINE d == Delta(v, n)
<1>1. d.seq = n
    BY DEF Delta
<1> HIDE DEF d
<1>2. Len(<<d>>) = 1 /\ <<d>>[1] = d
    OBVIOUS
<1>3. d = Delta(v, d.seq)
    BY <1>1 DEF d
<1>4. Own(v, n, <<d>>)
    BY <1>1, <1>2, <1>3 DEF Own
<1> QED
    BY <1>4 DEF d

(* bufferedDeltas takes the venue's next delta, and may drop its oldest.   *)
LEMMA OwnBuffered ==
    ASSUME NEW v, NEW top \in Nat, NEW n \in Nat, top < n, Delta(v, n) \in Deltas,
           NEW deltas \in Seq(Deltas), Own(v, top, deltas)
    PROVE  Own(v, n, Buffer(deltas, Delta(v, n)))
<1> DEFINE d == Delta(v, n)
           more == Append(deltas, d)
           len == Len(deltas)
<1>1. d.seq = n /\ d \in Deltas /\ d = Delta(v, d.seq)
    BY DEF Delta
<1> HIDE DEF d
<1>2. /\ more \in Seq(Deltas) /\ Len(more) = len + 1 /\ len \in Nat
      /\ more[len + 1] = d /\ \A i \in 1 .. len : more[i] = deltas[i]
    BY <1>1
<1>3. \A i \in 1 .. len : /\ deltas[i].seq \in Nat /\ deltas[i].seq <= top /\ deltas[i].seq >= 1
                          /\ deltas[i] = Delta(v, deltas[i].seq)
    BY DEF Own, Deltas
<1> HIDE DEF more, len
<1>4. ASSUME NEW i \in 1 .. len + 1
      PROVE  more[i].seq \in 1 .. n /\ more[i] = Delta(v, more[i].seq)
    <2>1. CASE i = len + 1
        BY <1>1, <1>2, <2>1
    <2>2. CASE i # len + 1
        <3>1. i \in 1 .. len /\ more[i] = deltas[i]
            BY <1>2, <2>2
        <3> QED
            BY <1>3, <3>1
    <2> QED
        BY <2>1, <2>2
<1>5. ASSUME NEW i \in 1 .. len + 1, NEW j \in 1 .. len + 1, i < j
      PROVE  more[i].seq < more[j].seq
    <2>1. i \in 1 .. len /\ more[i] = deltas[i]
        BY <1>2, <1>5
    <2>2. CASE j = len + 1
        BY <1>1, <1>2, <1>3, <2>1, <2>2
    <2>3. CASE j # len + 1
        <3>1. j \in 1 .. len /\ more[j] = deltas[j]
            BY <1>2, <2>3
        <3> QED
            BY <1>5, <2>1, <3>1 DEF Own, len
    <2> QED
        BY <2>2, <2>3
<1>6. Own(v, n, more)
    BY <1>2, <1>4, <1>5 DEF Own
<1>7. Own(v, n, Tail(more))
    <2>1. /\ Len(Tail(more)) = len
          /\ \A i \in 1 .. len : Tail(more)[i] = more[i + 1] /\ i + 1 \in 1 .. len + 1
        BY <1>2
    <2> DEFINE rest == Tail(more)
    <2>2. Len(rest) = len /\ \A i \in 1 .. len : rest[i] = more[i + 1] /\ i + 1 \in 1 .. len + 1
        BY <2>1
    <2> HIDE DEF rest
    <2>3. \A i \in 1 .. len : rest[i].seq \in 1 .. n /\ rest[i] = Delta(v, rest[i].seq)
        BY <1>4, <2>2
    <2>4. \A i, j \in 1 .. len : i < j => rest[i].seq < rest[j].seq
        <3> SUFFICES ASSUME NEW i \in 1 .. len, NEW j \in 1 .. len, i < j
                     PROVE  rest[i].seq < rest[j].seq
            OBVIOUS
        <3>1. i + 1 \in 1 .. len + 1 /\ j + 1 \in 1 .. len + 1 /\ i + 1 < j + 1
            BY <2>2
        <3> QED
            BY <1>5, <2>2, <3>1
    <2>5. Own(v, n, rest)
        BY <2>2, <2>3, <2>4 DEF Own
    <2> QED
        BY <2>5 DEF rest
<1> QED
    BY <1>6, <1>7 DEF Buffer, more, d

(* A snapshot of update s and deltas of the venue replayed onto it, the    *)
(* last of them top: each level is what it was at the last number, or at   *)
(* the snapshot.                                                           *)
Replayed(e, v, s, top) ==
    /\ Own(v, top, e.buffered)
    /\ e.loaded =>
           /\ e.last \in 0 .. s
           /\ e.last = s \/ e.last = top
           /\ \A l \in Levels :
                 e.book[l] = BookAt(v, e.last)[l] \/ e.book[l] = BookAt(v, s)[l]

(* Replaying one more delta of the venue, which is no newer than the       *)
(* snapshot.                                                               *)
LEMMA ReplayedOne ==
    ASSUME NEW v \in BookVenues, NEW s \in 0 .. Len(History[v]), NEW top \in Nat, NEW n \in 1 .. s,
           top < n, NEW e \in Engines, Replayed(e, v, s, top)
    PROVE  Replayed(IngestDelta(e, Delta(v, n)), v, s, n)
<1> DEFINE d == Delta(v, n)
           e2 == IngestDelta(e, d)
<1>1. /\ n \in 1 .. Len(History[v]) /\ n \in Nat \ {0} /\ s \in Nat /\ top \in 0 .. s
      /\ n \in 0 .. Len(History[v]) /\ n - 1 \in 0 .. Len(History[v])
    BY HistoryOf
<1>2. d \in Deltas /\ d.seq = n /\ d.level \in Levels /\ d.size \in Sizes
    <2>1. d \in Deltas
        BY <1>1, HistoryOf
    <2> QED
        BY <2>1 DEF Delta, Deltas
<1>3. e.buffered \in Seq(Deltas) /\ e.book \in Books /\ e.last \in Nat \union {NoSeq}
    BY DEF Engines
<1>4. CASE ~e.loaded
    <2>1. e2.loaded = FALSE /\ e2.buffered = Buffer(e.buffered, d)
        BY <1>4 DEF Engines, IngestDelta
    <2>2. Own(v, n, Buffer(e.buffered, d))
        BY <1>1, <1>2, <1>3, OwnBuffered DEF Replayed
    <2> HIDE DEF e2
    <2>3. Replayed(e2, v, s, n)
        BY <2>1, <2>2 DEF Replayed
    <2> QED
        BY <2>3 DEF e2, d
<1>5. CASE e.loaded /\ e.last # NoSeq /\ d.seq > e.last + 1
    <2>1. e2.loaded = FALSE /\ e2.buffered = <<d>>
        BY <1>5 DEF Engines, IngestDelta
    <2>2. Own(v, n, <<d>>)
        BY <1>1, <1>2, OwnOne
    <2> HIDE DEF e2, d
    <2>3. Replayed(e2, v, s, n)
        BY <2>1, <2>2 DEF Replayed
    <2> QED
        BY <2>3 DEF e2, d
<1>6. CASE e.loaded /\ ~(e.last # NoSeq /\ d.seq > e.last + 1)
    <2>1. /\ e2.loaded /\ e2.buffered = <<>> /\ e2.last = n /\ e2.book = Applied(e.book, d)
        BY <1>2, <1>6 DEF Engines, IngestDelta
    <2>2. e.last \in 0 .. s /\ n <= e.last + 1 /\ (e.last = s \/ e.last = top)
        BY <1>2, <1>6 DEF Replayed, NoSeq
    <2>3. \A l \in Levels : e2.book[l] = IF l = d.level THEN d.size ELSE e.book[l]
        BY <1>2, <1>3, <2>1, AppliedIsBook
    <2>4. \A l \in Levels : BookAt(v, n)[l] = IF l = d.level THEN d.size ELSE BookAt(v, n - 1)[l]
        <3>1. BookAt(v, n - 1) \in Books /\ BookAt(v, n) = Applied(BookAt(v, n - 1), d)
            BY <1>1, BookAtSteps
        <3> QED
            BY <1>2, <3>1, AppliedIsBook
    <2>5. ASSUME NEW l \in Levels
          PROVE  e2.book[l] = BookAt(v, n)[l] \/ e2.book[l] = BookAt(v, s)[l]
        <3>1. CASE l = d.level
            BY <2>3, <2>4, <3>1
        <3>2. CASE l # d.level
            <4>1. e2.book[l] = e.book[l] /\ BookAt(v, n)[l] = BookAt(v, n - 1)[l]
                BY <2>3, <2>4, <3>2
            <4>2. e.book[l] = BookAt(v, e.last)[l] \/ e.book[l] = BookAt(v, s)[l]
                BY <1>6 DEF Replayed
            <4>3. CASE e.last = s
                BY <4>1, <4>2, <4>3
            <4>4. CASE e.last = top
                <5>1. n - 1 = e.last
                    BY <1>1, <2>2, <4>4
                <5> QED
                    BY <4>1, <4>2, <5>1
            <4> QED
                BY <2>2, <4>3, <4>4
        <3> QED
            BY <3>1, <3>2
    <2> HIDE DEF e2
    <2>6. Replayed(e2, v, s, n)
        BY <1>1, <2>1, <2>5 DEF Replayed, Own
    <2> QED
        BY <2>6 DEF e2, d
<1> QED
    BY <1>4, <1>5, <1>6

(* The engine with a snapshot, before it replays anything.                 *)
Started(e, bk, s) ==
    [e EXCEPT !.book = bk, !.loaded = TRUE, !.last = s, !.buffered = <<>>, !.status = "live"]

(* ingestSnapshot() is a run of the engine over what it had buffered.      *)
LEMMA SnapshotReplays ==
    ASSUME NEW e \in Engines, NEW bk \in Books, NEW s \in Nat \union {NoSeq}
    PROVE  /\ IngestSnapshot(e, bk, s) \in Engines
           /\ \E run : IsRun(run, Engines, Started(e, bk, s), EngineStep, e.buffered)
                       /\ IngestSnapshot(e, bk, s) = run[Len(e.buffered)]
<1>1. Started(e, bk, s) \in Engines /\ e.buffered \in Seq(Deltas)
    <2> DEFINE r == Started(e, bk, s)
    <2>1. /\ r \in [book : Books, loaded : BOOLEAN, last : Nat \union {NoSeq},
                    buffered : Seq(Deltas), status : Statuses]
          /\ r.loaded = TRUE /\ r.buffered = <<>> /\ r.status = "live"
          /\ e.buffered \in Seq(Deltas)
        <3>1. e \in [book : Books, loaded : BOOLEAN, last : Nat \union {NoSeq},
                     buffered : Seq(Deltas), status : Statuses]
            BY DEF Engines
        <3>2. <<>> \in Seq(Deltas) /\ "live" \in Statuses
            BY DEF Statuses
        <3>3. r = [e EXCEPT !.book = bk, !.loaded = TRUE, !.last = s, !.buffered = <<>>,
                            !.status = "live"]
            BY Zenon DEF Started
        <3> HIDE DEF r
        <3>4. r.loaded = TRUE /\ r.buffered = <<>> /\ r.status = "live"
            BY <3>1, <3>3
        <3>5. r \in [book : Books, loaded : BOOLEAN, last : Nat \union {NoSeq},
                     buffered : Seq(Deltas), status : Statuses]
            BY <3>1, <3>2, <3>3
        <3> QED
            BY <3>1, <3>4, <3>5
    <2> HIDE DEF r
    <2>2. r \in Engines
        BY <2>1 DEF Engines
    <2> QED
        BY <2>1, <2>2 DEF r
<1>2. IngestSnapshot(e, bk, s) = FoldLeft(IngestDelta, Started(e, bk, s), e.buffered)
    BY Zenon DEF IngestSnapshot, Started
<1>3. PICK run : IsRun(run, Engines, Started(e, bk, s), EngineStep, e.buffered)
                 /\ IngestSnapshot(e, bk, s) = run[Len(e.buffered)]
    BY <1>1, <1>2, EngineRun
<1>4. Len(e.buffered) \in 0 .. Len(e.buffered)
    BY <1>1
<1> QED
    BY <1>3, <1>4 DEF IsRun

(* Deltas of the venue up to a snapshot, replayed onto it, leave the       *)
(* venue's book when they bring the engine up to the snapshot's number.    *)
LEMMA ReplayOfOwn ==
    ASSUME NEW e \in Engines, NEW v \in BookVenues, NEW s \in 0 .. Len(History[v]),
           Own(v, s, e.buffered)
    PROVE  LET left == IngestSnapshot(e, BookAt(v, s), s)
           IN  /\ Own(v, s, left.buffered)
               /\ left.loaded => /\ left.last \in 0 .. s
                                 /\ left.last = s => left.book = BookAt(v, s)
<1> DEFINE seq == e.buffered
           top(i) == IF i = 0 THEN 0 ELSE seq[i].seq
<1>1. seq \in Seq(Deltas) /\ Len(seq) \in Nat /\ BookAt(v, s) \in Books /\ s \in Nat
    BY HistoryOf, BookAtSteps DEF Engines
<1>2. PICK run : IsRun(run, Engines, Started(e, BookAt(v, s), s), EngineStep, seq)
                 /\ IngestSnapshot(e, BookAt(v, s), s) = run[Len(seq)]
    BY <1>1, SnapshotReplays
<1>3. \A i \in 1 .. Len(seq) : seq[i] \in Deltas /\ seq[i].seq \in 1 .. s /\ seq[i] = Delta(v, seq[i].seq)
    BY <1>1 DEF Own
<1>4. \A i \in 0 .. Len(seq) : top(i) \in 0 .. s
    BY <1>1, <1>3
<1>5. Replayed(run[0], v, s, top(0))
    <2> DEFINE r == run[0]
    <2>1. r.buffered = <<>> /\ r.last = s /\ r.book = BookAt(v, s)
        BY <1>2 DEF IsRun, Started, Engines
    <2> HIDE DEF r
    <2>2. Replayed(r, v, s, 0)
        BY <1>1, <2>1 DEF Replayed, Own
    <2> QED
        BY <2>2 DEF r
<1>6. ASSUME NEW i \in 1 .. Len(seq), Replayed(run[i - 1], v, s, top(i - 1))
      PROVE  Replayed(run[i], v, s, top(i))
    <2> DEFINE n == seq[i].seq
    <2>1. n \in 1 .. s /\ seq[i] = Delta(v, n) /\ seq[i] \in Deltas /\ top(i) = n
        BY <1>1, <1>3
    <2>2. i - 1 \in 0 .. Len(seq) /\ top(i - 1) \in Nat
        BY <1>1, <1>4
    <2>3. top(i - 1) < n
        <3>1. CASE i = 1
            BY <2>1, <3>1
        <3>2. CASE i # 1
            <4>1. i - 1 \in 1 .. Len(seq) /\ i - 1 < i /\ i - 1 # 0
                BY <1>1, <3>2
            <4>2. seq[i - 1].seq < seq[i].seq
                BY <4>1 DEF Own
            <4> QED
                BY <4>1, <4>2
        <3> QED
            BY <3>1, <3>2
    <2>4. run[i - 1] \in Engines /\ run[i] = EngineStep[<<run[i - 1], seq[i]>>]
        BY <1>2, <2>2 DEF IsRun
    <2>5. run[i] = IngestDelta(run[i - 1], Delta(v, n))
        BY <2>1, <2>4 DEF EngineStep
    <2> HIDE DEF top, n
    <2>6. Replayed(IngestDelta(run[i - 1], Delta(v, n)), v, s, n)
        BY <1>6, <2>1, <2>2, <2>3, <2>4, ReplayedOne
    <2> QED
        BY <2>1, <2>5, <2>6
<1> HIDE DEF top
<1> DEFINE bad == {i \in 0 .. Len(seq) : ~Replayed(run[i], v, s, top(i))}
<1>7. bad = {}
    <2> SUFFICES ASSUME bad # {} PROVE FALSE
        OBVIOUS
    <2>1. bad \in SUBSET Nat
        BY <1>1
    <2>2. PICK i \in bad : \A m \in bad : i <= m
        <3> HIDE DEF bad
        <3> QED
            BY <2>1, LeastNumber
    <2>3. i \in 0 .. Len(seq) /\ ~Replayed(run[i], v, s, top(i)) /\ i # 0
        BY <1>5, <2>2
    <2>4. i \in 1 .. Len(seq) /\ i - 1 \in 0 .. Len(seq) /\ i - 1 < i
        BY <1>1, <2>3
    <2>5. i - 1 \notin bad
        <3> HIDE DEF bad
        <3> QED
            BY <2>1, <2>2, <2>4
    <2>6. Replayed(run[i - 1], v, s, top(i - 1))
        BY <2>4, <2>5
    <2> QED
        BY <1>6, <2>3, <2>4, <2>6
<1> DEFINE n == Len(seq)
           left == run[n]
<1>8. Replayed(left, v, s, top(n)) /\ top(n) \in 0 .. s /\ left \in Engines
    BY <1>1, <1>2, <1>4, <1>7 DEF IsRun
<1> HIDE DEF left, n
<1>9. Own(v, s, left.buffered)
    BY <1>1, <1>8, OwnGrows DEF Replayed, Engines
<1>10. left.loaded => left.last \in 0 .. s
                      /\ (left.last = s => \A l \in Levels : left.book[l] = BookAt(v, s)[l])
    BY <1>8 DEF Replayed
<1>11. left.book \in Books
    BY <1>8 DEF Engines
<1>12. (\A l \in Levels : left.book[l] = BookAt(v, s)[l]) => left.book = BookAt(v, s)
    BY <1>1, <1>11 DEF Books
<1>13. IngestSnapshot(e, BookAt(v, s), s) = left
    BY <1>2 DEF left, n
<1> QED
    BY <1>9, <1>10, <1>12, <1>13

(* aggregateDepthSnapshots() makes a book of books.                        *)
LEMMA FusedIsBook ==
    ASSUME NEW books, DOMAIN books \subseteq BookVenues, \A v \in DOMAIN books : books[v] \in Books
    PROVE  Fused(books) \in Books
<1> DEFINE venues == DOMAIN books
<1>1. ASSUME NEW l \in Levels
      PROVE  MapThenSumSet(LAMBDA u : books[u][l], venues) \in Nat
    <2> DEFINE f == [v \in venues |-> books[v][l]]
               Next1(it, s) == IF s = {} THEN 0
                              ELSE books[CHOOSE x \in s : TRUE][l] + it[s \ {CHOOSE x \in s : TRUE}]
               sum == CHOOSE it : it = [s \in SUBSET venues |-> Next1(it, s)]
    <2>1. IsFiniteSet(venues) /\ f \in [venues -> Nat]
        BY BookAssumption, FS_Subset DEF Books
    <2>2. PICK it \in SumsOf(f, venues) : TRUE
        <3> HIDE DEF f, venues
        <3> QED
            BY <2>1, SumExists
    <2>3. \A s \in SUBSET venues : s # {} =>
             f[CHOOSE x \in s : TRUE] = books[CHOOSE x \in s : TRUE][l]
        OBVIOUS
    <2>4. it = [s \in SUBSET venues |-> Next1(it, s)]
        <3>1. it \in [SUBSET venues -> Nat] /\ \A s \in SUBSET venues :
                 it[s] = IF s = {} THEN 0
                         ELSE f[CHOOSE x \in s : TRUE] + it[s \ {CHOOSE x \in s : TRUE}]
            BY <2>2 DEF SumsOf
        <3> HIDE DEF f, venues
        <3> QED
            BY <2>3, <3>1
    <2>5. sum = [s \in SUBSET venues |-> Next1(sum, s)]
        <3> HIDE DEF Next1
        <3> QED
            BY <2>4, Zenon
    <2>6. MapThenSumSet(LAMBDA u : books[u][l], venues) = sum[venues]
        BY Zenon DEF MapThenSumSet, MapThenFoldSet
    <2> HIDE DEF sum, f, venues
    <2>7. SumsAlong(sum, f, venues)
        BY <2>3, <2>5 DEF SumsAlong
    <2> QED
        BY <2>1, <2>6, <2>7, SumIsNat
<1>2. Fused(books) = [l \in Levels |-> MapThenSumSet(LAMBDA u : books[u][l], venues)]
    BY Zenon DEF Fused
<1> QED
    BY <1>1, <1>2 DEF Books

(* The engine between two messages; what it has buffered since a numbered  *)
(* snapshot, if no other venue interfered, is of the venue of that         *)
(* snapshot, and its number is one this venue has sent.                    *)
BookInv ==
    /\ made \in [BookVenues -> Nat] /\ passed \in [BookVenues -> Nat]
    /\ \A v \in BookVenues : passed[v] <= made[v] /\ made[v] <= Len(History[v])
    /\ DOMAIN byVenue \subseteq BookVenues /\ \A v \in DOMAIN byVenue : byVenue[v] \in Books
    /\ Engine \in Engines
    /\ pure \in BOOLEAN
    /\ \/ base = NoBase
       \/ base \in [venue : BookVenues, seq : Nat] /\ base.seq <= passed[base.venue]
    /\ pure /\ base # NoBase =>
           /\ Own(base.venue, passed[base.venue], buffered)
           /\ loaded => lastSequence \in 0 .. passed[base.venue]
    /\ LiveBookIsVenueBook

(* The engine starts empty and waits for a snapshot.                       *)
LEMMA BookInvInit == BookInit => BookInv
<1> SUFFICES ASSUME BookInit PROVE BookInv
    OBVIOUS
<1>1. Engine \in Engines
    <2>1. <<>> \in Seq(Deltas) /\ EmptyBook \in Books
        BY DEF EmptyBook, Books
    <2> QED
        BY <2>1 DEF BookInit, Engine, Engines, Statuses
<1>2. \A v \in BookVenues : Len(History[v]) \in Nat
    BY HistoryOf
<1>3. DOMAIN byVenue = {}
    BY DEF BookInit
<1> QED
    BY <1>1, <1>2, <1>3 DEF BookInit, BookInv, LiveBookIsVenueBook

(* The engine's fields, and what they are after an operation on it.        *)
LEMMA EngineFields ==
    /\ Engine.book = book /\ Engine.loaded = loaded /\ Engine.last = lastSequence
    /\ Engine.buffered = buffered /\ Engine.status = syncStatus
BY DEF Engine

(* The variables take the fields of what an operation returned.            *)
LEMMA BecomesEngine ==
    ASSUME NEW e \in Engines, Becomes(e)
    PROVE  /\ Engine' = e /\ Engine' \in Engines
           /\ book' = e.book /\ loaded' = e.loaded /\ lastSequence' = e.last
           /\ buffered' = e.buffered /\ syncStatus' = e.status
<1>1. e \in [book : Books, loaded : BOOLEAN, last : Nat \union {NoSeq},
             buffered : Seq(Deltas), status : Statuses]
    BY DEF Engines
<1>2. e = [book |-> e.book, loaded |-> e.loaded, last |-> e.last,
           buffered |-> e.buffered, status |-> e.status]
    BY <1>1
<1>3. Engine' = [book |-> e.book, loaded |-> e.loaded, last |-> e.last,
                 buffered |-> e.buffered, status |-> e.status]
    BY DEF Becomes, Engine
<1> QED
    BY <1>2, <1>3 DEF Becomes

(* setVenueDepthSnapshot() and mergeDepthDelta() store a book.             *)
LEMMA BookByVenue ==
    ASSUME DOMAIN byVenue \subseteq BookVenues, \A u \in DOMAIN byVenue : byVenue[u] \in Books,
           NEW v \in BookVenues, NEW bk \in Books, byVenue' = WithVenue(v, bk)
    PROVE  /\ DOMAIN byVenue' \subseteq BookVenues /\ \A u \in DOMAIN byVenue' : byVenue'[u] \in Books
           /\ v \in DOMAIN byVenue' /\ byVenue'[v] = bk
BY DEF WithVenue

(* The snapshot the book comes from is one its venue has sent.             *)
LEMMA BaseVenue ==
    ASSUME BookInv, base # NoBase
    PROVE  base.venue \in BookVenues /\ base.seq \in Nat /\ base.seq <= passed[base.venue]
BY DEF BookInv

(* Without one no venue is its venue.                                      *)
LEMMA NoBaseVenue ==
    ASSUME NEW v \in BookVenues, base = NoBase
    PROVE  v # base.venue
BY BookAssumption DEF NoBase

(* A delta that is applied to a book of its own venue is its next one, or  *)
(* one it has already had; any other leaves a gap.                         *)
LEMMA DeltaArrivesBook == BookInv /\ DeltaArrives => BookInv'
<1> SUFFICES ASSUME BookInv, DeltaArrives PROVE BookInv'
    OBVIOUS
<1>1. PICK v \in BookVenues :
          LET delta == Delta(v, passed[v] + 1)
              own   == IF v \in DOMAIN byVenue THEN byVenue[v] ELSE EmptyBook
          IN  /\ passed[v] < made[v]
              /\ byVenue' = WithVenue(v, Applied(own, delta))
              /\ Becomes(IngestDelta(Engine, delta))
              /\ passed' = [passed EXCEPT ![v] = @ + 1]
              /\ pure' = (pure /\ v = base.venue)
    BY DEF DeltaArrives
<1> DEFINE n == passed[v] + 1
           d == Delta(v, n)
           own == IF v \in DOMAIN byVenue THEN byVenue[v] ELSE EmptyBook
           e == IngestDelta(Engine, d)
<1>2. UNCHANGED <<made, base>>
    BY DEF DeltaArrives
<1>3. /\ n \in 1 .. Len(History[v]) /\ n \in Nat /\ passed[v] \in Nat
      /\ passed' \in [BookVenues -> Nat] /\ passed'[v] = n
      /\ \A u \in BookVenues : passed'[u] <= made'[u] /\ made'[u] <= Len(History[u])
                               /\ passed[u] <= passed'[u]
    <2>1. Len(History[v]) \in Nat
        BY HistoryOf
    <2> QED
        BY <1>1, <1>2, <2>1 DEF BookInv
<1>4. d \in Deltas /\ d.seq = n /\ d.level \in Levels /\ d.size \in Sizes
    <2>1. d \in Deltas
        BY <1>3, HistoryOf
    <2> QED
        BY <2>1 DEF Delta, Deltas
<1>5. own \in Books
    BY DEF BookInv, EmptyBook, Books
<1>6. Applied(own, d) \in Books
    <2> HIDE DEF own, d
    <2> QED
        BY <1>4, <1>5, AppliedIsBook
<1>7. DOMAIN byVenue' \subseteq BookVenues /\ \A u \in DOMAIN byVenue' : byVenue'[u] \in Books
    <2> HIDE DEF own, d
    <2> QED
        BY <1>1, <1>6, BookByVenue DEF BookInv, own, d
<1>8. e \in Engines
    BY <1>4, IngestedIsEngine DEF BookInv
<1>9. Engine' = e /\ Engine' \in Engines
      /\ book' = e.book /\ loaded' = e.loaded /\ lastSequence' = e.last
      /\ buffered' = e.buffered /\ syncStatus' = e.status
    BY <1>1, <1>8, BecomesEngine
<1>10. pure' = (pure /\ v = base.venue)
    BY <1>1
<1>11. \/ base' = NoBase
       \/ base' \in [venue : BookVenues, seq : Nat] /\ base'.seq <= passed'[base'.venue]
    BY <1>2, <1>3 DEF BookInv
<1> HIDE DEF e, d, own, n
<1>12. ASSUME pure', base # NoBase
       PROVE  /\ base.venue = v
              /\ Own(v, n, buffered')
              /\ loaded' => lastSequence' \in 0 .. n
              /\ syncStatus' = "live" /\ lastSequence' >= base.seq => book' = BookAt(v, lastSequence')
    <2>1. pure /\ v = base.venue
        BY <1>10, <1>12
    <2>2. /\ Own(v, passed[v], buffered)
          /\ loaded => lastSequence \in 0 .. passed[v]
          /\ base.seq \in Nat /\ base.seq <= passed[v] /\ buffered \in Seq(Deltas)
          /\ loaded <=> syncStatus = "live"
        BY <1>12, <2>1, EngineFields, BaseVenue DEF BookInv, Engines
    <2>3. CASE ~loaded
        <3>1. e.loaded = FALSE /\ e.status # "live" /\ e.buffered = Buffer(buffered, d)
            <4>1. e = [Engine EXCEPT !.buffered = Buffer(@, d), !.status = "waiting-snapshot"]
                BY <2>3, EngineFields DEF IngestDelta, e
            <4> QED
                BY <2>3, <4>1 DEF Engine
        <3>2. passed[v] < n /\ n = passed[v] + 1
            BY <1>3 DEF n
        <3>3. Own(v, n, Buffer(buffered, d))
            <4>1. passed[v] \in Nat /\ n \in Nat /\ passed[v] < n /\ Delta(v, n) \in Deltas
                BY <1>3, <1>4, <3>2 DEF d
            <4>2. buffered \in Seq(Deltas) /\ Own(v, passed[v], buffered)
                BY <2>2
            <4> QED
                BY <4>1, <4>2, OwnBuffered DEF d
        <3> QED
            BY <1>9, <2>1, <3>1, <3>3
    <2>4. CASE loaded /\ d.seq > lastSequence + 1
        <3>1. lastSequence # NoSeq
            BY <1>3, <2>2, <2>4 DEF NoSeq
        <3>2. e.loaded = FALSE /\ e.status # "live" /\ e.buffered = <<d>>
            <4>1. e = [Engine EXCEPT !.loaded = FALSE, !.buffered = <<d>>, !.status = "desynced"]
                BY <2>4, <3>1, EngineFields DEF IngestDelta, e
            <4> QED
                BY <4>1 DEF Engine
        <3>3. Own(v, n, <<d>>)
            <4>1. n \in Nat \ {0}
                BY <1>3
            <4> QED
                BY <1>4, <4>1, OwnOne DEF d
        <3> QED
            BY <1>9, <2>1, <3>2, <3>3
    <2>5. CASE loaded /\ ~(d.seq > lastSequence + 1)
        <3>1. e.buffered = buffered /\ e.last = n /\ e.book = Applied(book, d)
            <4>1. e = [Engine EXCEPT !.book = Applied(@, d), !.last = d.seq, !.status = "live"]
                BY <2>5, EngineFields DEF IngestDelta, e
            <4> QED
                BY <1>4, <4>1 DEF Engine
        <3>2. lastSequence = passed[v] /\ n = lastSequence + 1
            <4>1. lastSequence \in Nat /\ lastSequence <= passed[v] /\ passed[v] \in Nat
                BY <1>3, <2>2, <2>5
            <4>2. ~(passed[v] + 1 > lastSequence + 1) /\ n = passed[v] + 1
                BY <1>4, <2>5 DEF n
            <4> QED
                BY <4>1, <4>2
        <3>3. book = BookAt(v, n - 1)
            <4>1. book = BookAt(base.venue, lastSequence)
                BY <1>12, <2>1, <2>2, <2>5, <3>2 DEF BookInv, LiveBookIsVenueBook
            <4>2. lastSequence = n - 1
                BY <1>3, <3>2
            <4> QED
                BY <2>1, <4>1, <4>2
        <3>4. book' = BookAt(v, n)
            <4>1. n \in 0 .. Len(History[v]) /\ n # 0
                BY <1>3
            <4>2. BookAt(v, n) = Applied(BookAt(v, n - 1), Delta(v, n))
                BY <4>1, BookAtSteps
            <4> QED
                BY <1>9, <3>1, <3>3, <4>2 DEF d
        <3>5. Own(v, n, buffered)
            <4>1. passed[v] \in Nat /\ n \in Nat /\ passed[v] <= n
                BY <1>3, <3>2
            <4> QED
                BY <2>2, <4>1, OwnGrows
        <3> QED
            BY <1>3, <1>9, <2>1, <3>1, <3>4, <3>5
    <2> QED
        BY <2>3, <2>4, <2>5
<1>13. LiveBookIsVenueBook'
    BY <1>2, <1>12 DEF LiveBookIsVenueBook
<1>14. pure' /\ base' # NoBase =>
           /\ Own(base'.venue, passed'[base'.venue], buffered')
           /\ loaded' => lastSequence' \in 0 .. passed'[base'.venue]
    BY <1>2, <1>3, <1>12
<1>15. pure' \in BOOLEAN /\ made' \in [BookVenues -> Nat]
    BY <1>2, <1>10 DEF BookInv
<1> QED
    BY <1>3, <1>7, <1>9, <1>11, <1>13, <1>14, <1>15 DEF BookInv

(* A snapshot message puts the venue's book in place, or one that is       *)
(* fused.                                                                  *)
LEMMA SnapshotArrivesBook == BookInv /\ SnapshotArrives => BookInv'
<1> SUFFICES ASSUME BookInv, SnapshotArrives PROVE BookInv'
    OBVIOUS
<1>1. PICK v \in BookVenues :
          /\ byVenue' = WithVenue(v, BookAt(v, passed[v]))
          /\ Becomes(IngestSnapshot(Engine, Fused(byVenue'), passed[v]))
          /\ base' = IF DOMAIN byVenue' = {v} THEN [venue |-> v, seq |-> passed[v]] ELSE NoBase
          /\ pure' = (buffered = <<>> \/ (pure /\ base.venue = v))
    BY DEF SnapshotArrives
<1>2. UNCHANGED <<made, passed>>
    BY DEF SnapshotArrives
<1> DEFINE s == passed[v]
           e == IngestSnapshot(Engine, Fused(byVenue'), s)
<1>3. s \in Nat /\ s \in 0 .. Len(History[v])
    <2>1. s \in Nat /\ s <= made[v] /\ made[v] \in Nat /\ made[v] <= Len(History[v])
        BY DEF BookInv
    <2>2. Len(History[v]) \in Nat
        BY HistoryOf
    <2> QED
        BY <2>1, <2>2
<1>4. BookAt(v, s) \in Books
    BY <1>3, BookAtSteps
<1>5. /\ DOMAIN byVenue' \subseteq BookVenues /\ \A u \in DOMAIN byVenue' : byVenue'[u] \in Books
      /\ byVenue'[v] = BookAt(v, s)
    BY <1>1, <1>4, BookByVenue DEF BookInv
<1>6. Fused(byVenue') \in Books
    BY <1>5, FusedIsBook
<1>7. e \in Engines /\ Engine \in Engines
    BY <1>3, <1>6, SnapshotReplays DEF BookInv
<1>8. Engine' = e /\ Engine' \in Engines
      /\ book' = e.book /\ loaded' = e.loaded /\ lastSequence' = e.last
      /\ buffered' = e.buffered /\ syncStatus' = e.status
    BY <1>1, <1>7, BecomesEngine
<1>9. \/ base' = NoBase
      \/ base' \in [venue : BookVenues, seq : Nat] /\ base'.seq <= passed'[base'.venue]
    BY <1>1, <1>2, <1>3
<1>10. ASSUME pure', base' # NoBase
       PROVE  /\ base'.venue = v /\ base'.seq = s
              /\ Own(v, s, buffered')
              /\ loaded' => lastSequence' \in 0 .. s
              /\ syncStatus' = "live" /\ lastSequence' >= s => book' = BookAt(v, lastSequence')
    <2>1. DOMAIN byVenue' = {v} /\ base' = [venue |-> v, seq |-> s]
        BY <1>1, <1>10
    <2>2. Fused(byVenue') = BookAt(v, s)
        BY <1>4, <1>5, <2>1, FusedAlone
    <2>3. Own(v, s, buffered)
        <3>1. CASE buffered = <<>>
            BY <3>1 DEF Own
        <3>2. CASE pure /\ base.venue = v
            BY <3>2, NoBaseVenue DEF BookInv
        <3> QED
            BY <1>1, <1>10, <3>1, <3>2
    <2>4. e = IngestSnapshot(Engine, BookAt(v, s), s)
        BY <2>2
    <2>5. Engine.buffered = buffered
        BY EngineFields
    <2> HIDE DEF e, s
    <2>6. /\ Own(v, s, e.buffered)
          /\ e.loaded => /\ e.last \in 0 .. s
                         /\ e.last = s => e.book = BookAt(v, s)
        BY <1>3, <1>7, <2>3, <2>4, <2>5, ReplayOfOwn
    <2>7. e.loaded <=> e.status = "live"
        BY <1>7 DEF Engines
    <2>8. e.loaded /\ e.last >= s => e.last = s
        BY <1>3, <2>6
    <2> QED
        BY <1>8, <2>1, <2>6, <2>7, <2>8
<1> HIDE DEF e
<1>11. LiveBookIsVenueBook'
    BY <1>10 DEF LiveBookIsVenueBook
<1>12. pure' /\ base' # NoBase =>
           /\ Own(base'.venue, passed'[base'.venue], buffered')
           /\ loaded' => lastSequence' \in 0 .. passed'[base'.venue]
    BY <1>2, <1>10
<1>13. pure' \in BOOLEAN
    BY <1>1 DEF BookInv
<1> QED
    BY <1>2, <1>5, <1>8, <1>9, <1>11, <1>12, <1>13 DEF BookInv

(* After a snapshot without a number nothing is claimed of the book.       *)
LEMMA RestSnapshotArrivesBook == BookInv /\ RestSnapshotArrives => BookInv'
<1> SUFFICES ASSUME BookInv, RestSnapshotArrives PROVE BookInv'
    OBVIOUS
<1>1. PICK n \in 0 .. made[Primary] :
          /\ Becomes(IngestSnapshot(Engine, BookAt(Primary, n), NoSeq))
          /\ byVenue' = WithVenue(Primary, BookAt(Primary, n))
    BY DEF RestSnapshotArrives
<1>2. base' = NoBase /\ pure' = FALSE /\ UNCHANGED <<made, passed>>
    BY DEF RestSnapshotArrives
<1>3. Primary \in BookVenues /\ n \in 0 .. Len(History[Primary])
    <2>1. Primary \in BookVenues /\ made[Primary] \in Nat /\ made[Primary] <= Len(History[Primary])
        BY PrimaryAssumption DEF BookInv
    <2>2. Len(History[Primary]) \in Nat
        BY <2>1, HistoryOf
    <2> QED
        BY <2>1, <2>2
<1>4. BookAt(Primary, n) \in Books
    BY <1>3, BookAtSteps
<1>5. DOMAIN byVenue' \subseteq BookVenues /\ \A u \in DOMAIN byVenue' : byVenue'[u] \in Books
    BY <1>1, <1>3, <1>4, BookByVenue DEF BookInv
<1>6. IngestSnapshot(Engine, BookAt(Primary, n), NoSeq) \in Engines
    BY <1>4, SnapshotReplays DEF BookInv
<1>7. Engine' \in Engines
    BY <1>1, <1>6, BecomesEngine
<1> QED
    BY <1>2, <1>5, <1>7 DEF BookInv, LiveBookIsVenueBook

(* What a venue does by itself, and what is lost on the way, does not      *)
(* touch the engine.                                                       *)
LEMMA VenueMovesOn ==
    BookInv /\ (VenueUpdates \/ DepthSocketCloses) => BookInv'
<1> SUFFICES ASSUME BookInv, VenueUpdates \/ DepthSocketCloses PROVE BookInv'
    OBVIOUS
<1>1. UNCHANGED <<book, loaded, lastSequence, buffered, syncStatus, base, pure>>
    BY DEF VenueUpdates, DepthSocketCloses, bookVars
<1>2. /\ made' \in [BookVenues -> Nat] /\ passed' \in [BookVenues -> Nat]
      /\ \A v \in BookVenues : passed'[v] <= made'[v] /\ made'[v] <= Len(History[v])
      /\ \A v \in BookVenues : passed[v] <= passed'[v]
    <2>1. \A v \in BookVenues : Len(History[v]) \in Nat
        BY HistoryOf
    <2>2. CASE VenueUpdates
        BY <2>1, <2>2 DEF VenueUpdates, BookInv
    <2>3. CASE DepthSocketCloses
        BY <2>1, <2>3 DEF DepthSocketCloses, BookInv
    <2> QED
        BY <2>2, <2>3
<1>3. DOMAIN byVenue' \subseteq BookVenues /\ \A v \in DOMAIN byVenue' : byVenue'[v] \in Books
    BY DEF VenueUpdates, DepthSocketCloses, BookInv
<1>4. Engine' \in Engines
    BY <1>1 DEF BookInv, Engine
<1>5. \/ base = NoBase
      \/ base \in [venue : BookVenues, seq : Nat] /\ base.seq <= passed'[base.venue]
    BY <1>2 DEF BookInv
<1>6. ASSUME pure, base # NoBase
      PROVE  /\ Own(base.venue, passed'[base.venue], buffered)
             /\ loaded => lastSequence \in 0 .. passed'[base.venue]
    <2> DEFINE n == passed[base.venue]
               m == passed'[base.venue]
    <2>1. n \in Nat /\ m \in Nat /\ n <= m
        BY <1>2, <1>6, BaseVenue DEF BookInv
    <2>2. /\ Own(base.venue, n, buffered) /\ buffered \in Seq(Deltas)
          /\ loaded => lastSequence \in 0 .. n
        BY <1>6, EngineFields DEF BookInv, Engines
    <2> HIDE DEF n, m
    <2>3. Own(base.venue, m, buffered)
        BY <2>1, <2>2, OwnGrows
    <2>4. loaded => lastSequence \in 0 .. m
        BY <2>1, <2>2
    <2> QED
        BY <2>3, <2>4 DEF m
<1> QED
    BY <1>1, <1>2, <1>3, <1>4, <1>5, <1>6 DEF BookInv, LiveBookIsVenueBook

(* The invariant of the engine, for any venues, histories and buffer       *)
(* sizes.                                                                  *)
THEOREM BookInvariant == BookSpec => []BookInv
<1>1. BookInv /\ [BookNext]_localBookVars => BookInv'
    <2> SUFFICES ASSUME BookInv, [BookNext]_localBookVars PROVE BookInv'
        OBVIOUS
    <2>1. CASE UNCHANGED localBookVars
        BY <2>1 DEF BookInv, localBookVars, bookVars, Engine, LiveBookIsVenueBook
    <2> QED
        BY <2>1, DeltaArrivesBook, SnapshotArrivesBook, RestSnapshotArrivesBook, VenueMovesOn
           DEF BookNext
<1> QED
    BY <1>1, BookInvInit, PTL DEF BookSpec

(* A live book that comes from a numbered snapshot of one venue and from   *)
(* its deltas is this venue's book at lastSequence, for any venues,        *)
(* histories, losses and buffer sizes: ingestDelta() notices every gap     *)
(* that would make it another one.                                         *)
THEOREM BookCorrect == BookSpec => []LiveBookIsVenueBook
<1>1. BookInv => LiveBookIsVenueBook
    BY DEF BookInv
<1> QED
    BY <1>1, BookInvariant, PTL

(* The engine is live, or fewer than k deltas wait.                        *)
Caught(e, k) == e.loaded \/ Len(e.buffered) < k

(* A snapshot of refreshNow() brings the engine back, or leaves it fewer   *)
(* deltas to wait with than before.                                        *)
SnapshotShortens ==
    RestSnapshotArrives => syncStatus' = "live" \/ Len(buffered') < Len(buffered)

(* Each replayed delta leaves the engine live or the gap behind it; the    *)
(* first is never a gap, since the snapshot has no number.                 *)
LEMMA CaughtOne ==
    ASSUME NEW e \in Engines, NEW d \in Deltas, NEW k \in Nat \ {0},
           IF k = 1 THEN e.loaded /\ e.last = NoSeq ELSE Caught(e, k - 1)
    PROVE  Caught(IngestDelta(e, d), k)
<1> DEFINE e2 == IngestDelta(e, d)
<1>1. e.buffered \in Seq(Deltas) /\ Len(e.buffered) \in Nat
    BY DEF Engines
<1>2. CASE ~e.loaded
    <2>1. e2.buffered = Buffer(e.buffered, d)
        BY <1>2 DEF Engines, IngestDelta
    <2>2. Len(Buffer(e.buffered, d)) <= Len(e.buffered) + 1
        BY <1>1 DEF Buffer
    <2>3. Len(Buffer(e.buffered, d)) \in Nat
        BY <1>1 DEF Buffer
    <2>4. Len(e.buffered) < k - 1
        BY <1>2 DEF Caught
    <2> HIDE DEF e2
    <2>5. Len(e2.buffered) < k
        BY <1>1, <2>1, <2>2, <2>3, <2>4
    <2> QED
        BY <2>5 DEF Caught, e2
<1>3. CASE e.loaded /\ e.last # NoSeq /\ d.seq > e.last + 1
    <2>1. e2.buffered = <<d>>
        BY <1>3 DEF Engines, IngestDelta
    <2>2. Len(<<d>>) = 1 /\ k > 1
        BY <1>3
    <2> HIDE DEF e2
    <2>3. Len(e2.buffered) < k
        BY <2>1, <2>2
    <2> QED
        BY <2>3 DEF Caught, e2
<1>4. CASE e.loaded /\ ~(e.last # NoSeq /\ d.seq > e.last + 1)
    <2>1. e2.loaded
        BY <1>4 DEF Engines, IngestDelta
    <2> QED
        BY <2>1 DEF Caught
<1> QED
    BY <1>2, <1>3, <1>4

(* So a snapshot without a number uses up at least one buffered delta.     *)
LEMMA UnnumberedCatchesUp ==
    ASSUME NEW e \in Engines, NEW bk \in Books
    PROVE  LET left == IngestSnapshot(e, bk, NoSeq)
           IN  left.status = "live" \/ Len(left.buffered) < Len(e.buffered)
<1> DEFINE seq == e.buffered
<1>1. seq \in Seq(Deltas) /\ Len(seq) \in Nat
    BY DEF Engines
<1>2. PICK run : IsRun(run, Engines, Started(e, bk, NoSeq), EngineStep, seq)
                 /\ IngestSnapshot(e, bk, NoSeq) = run[Len(seq)]
    BY SnapshotReplays
<1>3. run[0].loaded /\ run[0].last = NoSeq
    BY <1>2 DEF IsRun, Started, Engines
<1>4. ASSUME NEW i \in 1 .. Len(seq), i = 1 \/ Caught(run[i - 1], i - 1)
      PROVE  Caught(run[i], i)
    <2>1. i - 1 \in 0 .. Len(seq) /\ seq[i] \in Deltas /\ i \in Nat \ {0}
        BY <1>1
    <2>2. run[i - 1] \in Engines /\ run[i] = EngineStep[<<run[i - 1], seq[i]>>]
        BY <1>2, <2>1 DEF IsRun
    <2>3. run[i] = IngestDelta(run[i - 1], seq[i])
        BY <2>1, <2>2 DEF EngineStep
    <2>4. IF i = 1 THEN run[i - 1].loaded /\ run[i - 1].last = NoSeq ELSE Caught(run[i - 1], i - 1)
        BY <1>3, <1>4
    <2> HIDE DEF seq
    <2>5. Caught(IngestDelta(run[i - 1], seq[i]), i)
        BY <2>1, <2>2, <2>4, CaughtOne
    <2> QED
        BY <2>3, <2>5
<1> DEFINE bad == {i \in 1 .. Len(seq) : ~Caught(run[i], i)}
<1>5. bad = {}
    <2> SUFFICES ASSUME bad # {} PROVE FALSE
        OBVIOUS
    <2>1. bad \in SUBSET Nat
        BY <1>1
    <2>2. PICK i \in bad : \A m \in bad : i <= m
        <3> HIDE DEF bad
        <3> QED
            BY <2>1, LeastNumber
    <2>3. i \in 1 .. Len(seq) /\ ~Caught(run[i], i)
        BY <2>2
    <2>4. i # 1 /\ ~Caught(run[i - 1], i - 1)
        BY <1>4, <2>3
    <2>5. i - 1 \in 1 .. Len(seq) /\ i - 1 < i
        BY <1>1, <2>3, <2>4
    <2>6. i - 1 \in bad
        BY <2>4, <2>5
    <2> HIDE DEF bad
    <2> QED
        BY <2>1, <2>2, <2>5, <2>6
<1> DEFINE n == Len(seq)
           left == run[n]
<1>6. left \in Engines /\ left = IngestSnapshot(e, bk, NoSeq)
    BY <1>1, <1>2 DEF IsRun
<1>7. left.loaded \/ Len(left.buffered) < n
    <2>1. CASE n = 0
        BY <1>3, <2>1
    <2>2. CASE n # 0
        <3>1. n \in 1 .. n
            BY <1>1, <2>2
        <3>2. n \notin bad
            BY <1>5
        <3>3. Caught(left, n)
            BY <3>1, <3>2
        <3> QED
            BY <3>3 DEF Caught
    <2> QED
        BY <2>1, <2>2
<1>8. left.loaded <=> left.status = "live"
    BY <1>6 DEF Engines
<1> QED
    BY <1>6, <1>7, <1>8

(* What ingestSnapshot() returns becomes the state of the engine.          *)
LEMMA SnapshotShortensStep ==
    ASSUME BookInv
    PROVE  SnapshotShortens
<1> SUFFICES ASSUME RestSnapshotArrives
             PROVE  syncStatus' = "live" \/ Len(buffered') < Len(buffered)
    BY DEF SnapshotShortens
<1>1. PICK n \in 0 .. made[Primary] :
          Becomes(IngestSnapshot(Engine, BookAt(Primary, n), NoSeq))
    BY DEF RestSnapshotArrives
<1>2. Primary \in BookVenues /\ n \in 0 .. Len(History[Primary])
    <2>1. Primary \in BookVenues /\ made[Primary] \in Nat /\ made[Primary] <= Len(History[Primary])
        BY PrimaryAssumption DEF BookInv
    <2>2. Len(History[Primary]) \in Nat
        BY <2>1, HistoryOf
    <2> QED
        BY <2>1, <2>2
<1>3. BookAt(Primary, n) \in Books /\ Engine \in Engines
    BY <1>2, BookAtSteps DEF BookInv
<1> DEFINE left == IngestSnapshot(Engine, BookAt(Primary, n), NoSeq)
<1>4. left.status = "live" \/ Len(left.buffered) < Len(Engine.buffered)
    BY <1>3, UnnumberedCatchesUp
<1>5. left \in Engines
    BY <1>3, SnapshotReplays
<1>6. syncStatus' = left.status /\ buffered' = left.buffered
    BY <1>1, <1>5, BecomesEngine
<1> HIDE DEF left
<1> QED
    BY <1>4, <1>6, EngineFields

(* refreshNow() wears a desynced engine's buffer down: with no delta in    *)
(* between it is live after at most as many snapshots as it had buffered   *)
(* deltas, and one.  What Resynced asks for, but for the refreshes that    *)
(* must come.                                                              *)
THEOREM SnapshotsWearDown == BookSpec => [][SnapshotShortens]_localBookVars
<1>1. BookInv /\ [BookNext]_localBookVars => [SnapshotShortens]_localBookVars
    BY SnapshotShortensStep
<1> QED
    BY <1>1, BookInvariant, PTL DEF BookSpec
=============================================================================
