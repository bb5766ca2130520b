------------------------- MODULE MarketBusStreams -------------------------
(***************************************************************************)
(* The WebSockets of MarketDataBus (lib/marketDataBus.ts), for one of its  *)
(* two kinds of stream: trades ("ohlcv") or depth.  The primary socket     *)
(* follows the configured venue; for a public venue one auxiliary socket   *)
(* per other public venue feeds the price fusion.  Sockets that close are  *)
(* reopened by timers, and failures to open the primary one lead to a      *)
(* cooldown.  On the hosts of isGtixPublicHost() there is no stream to     *)
(* open (the builders give an empty URL): the bus makes neither socket nor *)
(* timer there, and lives on its REST refresh alone.                       *)
(*                                                                         *)
(* A socket is in the model while its handlers are attached:               *)
(* safeCloseSocket() detaches them, and nothing of it reaches the bus.     *)
(***************************************************************************)
EXTENDS Integers, FiniteSets

CONSTANTS Kind,             \* "ohlcv" or "depth"
          StreamVenues,     \* venues that may be configured
          FusionVenues,     \* FUSION_PUBLIC_VENUES
          MaxSockets,       \* bound: sockets attached at one time
          Threshold,        \* STREAM_FAILURE_THRESHOLD
          MaxTrouble,       \* bound: sockets that close or fail to open
          MaxStreamConnects \* bound: connect() and disconnect() calls

ASSUME KindAssumption == Kind \in {"ohlcv", "depth"}
ASSUME FusionAssumption == FusionVenues \subseteq StreamVenues /\ IsFiniteSet(FusionVenues)
ASSUME SocketsAssumption == MaxSockets \in Nat

SocketIds == 1 .. MaxSockets
NoSocket == 0
NoVenue == "none"

ASSUME VenueAssumption == NoVenue \notin StreamVenues


VARIABLES served,      \* the page's host serves WebSockets
          venue,       \* config.venue
          sockets,     \* id -> socket, the sockets with handlers
          primary,     \* ohlcvSocket or depthSocket
          aux,         \* auxTradeSockets or auxDepthSockets
          timer,       \* the primary's reconnect timer is pending
          auxTimer,    \* venues with a pending timer the reconnect map knows
          lostTimers,  \* pending timers of each venue the map forgot
          pinging,     \* the attached sockets an interval pings
          primaryPing, \* the attached socket of the kept ping handle
          auxPing,     \* the same for each venue of the ping map
          failures,    \* streamFailureCount
          cooling      \* Date.now() < streamCooldownUntil

VARIABLES overlap,       \* a venue got a socket while its timer was pending
          trouble,       \* bound: closed and failed sockets so far
          streamConnects \* bound: configurations so far

socketVars == <<sockets, primary, aux>>
timerVars == <<timer, auxTimer, lostTimers>>
pingVars == <<pinging, primaryPing, auxPing>>
failureVars == <<failures, cooling>>
streamsVars == <<served, venue, socketVars, timerVars, pingVars, failureVars,
          overlap, trouble, streamConnects>>

AuxVenues(v) == IF v \in FusionVenues THEN FusionVenues \ {v} ELSE {}
NoAux == [v \in FusionVenues |-> NoSocket]
Drop(f, ids) == [i \in DOMAIN f \ ids |-> f[i]]

StreamsInit ==
    /\ served \in BOOLEAN
    /\ venue = NoVenue /\ sockets = <<>> /\ primary = NoSocket /\ aux = NoAux
    /\ timer = FALSE /\ auxTimer = {} /\ lostTimers = [v \in FusionVenues |-> 0]
    /\ pinging = {} /\ primaryPing = NoSocket /\ auxPing = NoAux
    /\ failures = 0 /\ cooling = FALSE
    /\ overlap = FALSE /\ trouble = 0 /\ streamConnects = 0

NewSocket(v, role) ==
    [venue |-> v, role |-> role, open |-> FALSE, erred |-> FALSE]

(* new WebSocket(): one socket for each owner, a venue and a role.         *)
WithSockets(known, owners, ids) ==
    [i \in DOMAIN known \union {ids[o] : o \in owners} |->
        IF i \in DOMAIN known THEN known[i]
        ELSE LET o == CHOOSE o \in owners : ids[o] = i IN NewSocket(o[1], o[2])]

FreshIds(known, owners) ==
    CHOOSE ids \in [owners -> SocketIds \ DOMAIN known] :
        \A o, p \in owners : ids[o] = ids[p] => o = p

(* With no socket opened the bus is left with those it has.                *)
OpenNothing(known, auxKnown) ==
    primary' = NoSocket /\ sockets' = known /\ aux' = auxKnown

(* connectTradeSocketForVenue(), connectDepthSocketForVenue() of the       *)
(* primary venue, and with connectAux*Sockets() of those that have none.   *)
OpenSockets(v, known, auxKnown) ==
    LET missing == {w \in AuxVenues(v) : auxKnown[w] = NoSocket}
        leaving == {w \in FusionVenues \ AuxVenues(v) : auxKnown[w] # NoSocket}
        kept    == Drop(known, {auxKnown[w] : w \in leaving})
        owners  == {<<v, "primary">>} \union {<<w, "aux">> : w \in missing}
        ids     == FreshIds(kept, owners)
    IN  /\ Cardinality(owners) + Cardinality(DOMAIN kept) =< MaxSockets
        /\ timer' = FALSE
        /\ primary' = ids[<<v, "primary">>]
        /\ sockets' = WithSockets(kept, owners, ids)
        /\ aux' = [w \in FusionVenues |->
                       IF w \in leaving THEN NoSocket
                       ELSE IF w \in missing THEN ids[<<w, "aux">>]
                       ELSE auxKnown[w]]

\* For the mutants: a connection attempt during the cooldown is not repeated.
ConnectSocketOnce(v, known, auxKnown) ==
    IF cooling \/ ~served
    THEN timer' = FALSE /\ OpenNothing(known, auxKnown)
    ELSE OpenSockets(v, known, auxKnown)

(* connectOhlcvSocket(), connectDepthSocket(): nothing but a timer while   *)
(* the stream cools down, and not even that where nothing is served.       *)
ConnectSocket(v, known, auxKnown) ==
    \/ /\ cooling
       /\ timer' = TRUE /\ OpenNothing(known, auxKnown)
    \/ /\ ~cooling /\ ~served
       /\ timer' = FALSE /\ OpenNothing(known, auxKnown)
    \/ /\ ~cooling /\ served
       /\ OpenSockets(v, known, auxKnown)

(* disconnectSockets(): clears every timer and interval it has a handle    *)
(* of, detaches every socket it knows.                                     *)
Known == {primary} \union {aux[w] : w \in FusionVenues}

\* For the mutants: the timers of the auxiliary venues stay.
ForgetPings ==
    /\ UNCHANGED <<auxTimer, lostTimers>>
    /\ pinging' = pinging \ (Known \union {primaryPing} \union {auxPing[w] : w \in FusionVenues})
    /\ primaryPing' = NoSocket /\ auxPing' = NoAux

ForgetHandles ==
    /\ auxTimer' = {} /\ UNCHANGED lostTimers
    /\ pinging' = pinging \ (Known \union {primaryPing} \union {auxPing[w] : w \in FusionVenues})
    /\ primaryPing' = NoSocket /\ auxPing' = NoAux

(* connect() of another instrument or venue; the failures and the cooldown *)
(* of the stream stay.                                                     *)
ConnectStreams ==
    /\ streamConnects < MaxStreamConnects
    /\ \E v \in StreamVenues : venue' = v /\ ConnectSocket(v, Drop(sockets, Known), NoAux)
    /\ ForgetHandles
    /\ streamConnects' = streamConnects + 1
    /\ UNCHANGED <<served, failureVars, overlap, trouble>>

DisconnectStreams ==
    /\ venue # NoVenue /\ streamConnects < MaxStreamConnects
    /\ venue' = NoVenue
    /\ sockets' = Drop(sockets, Known) /\ primary' = NoSocket /\ aux' = NoAux
    /\ timer' = FALSE
    /\ ForgetHandles
    /\ streamConnects' = streamConnects + 1
    /\ UNCHANGED <<served, failureVars, overlap, trouble>>

-----------------------------------------------------------------------------
(* socket.onopen: the handle of the new ping interval takes the place of   *)
(* the handle kept before; a primary socket ends the failures.             *)
SocketOpens ==
    /\ \E i \in DOMAIN sockets :
        /\ ~sockets[i].open /\ ~sockets[i].erred
        /\ sockets' = [sockets EXCEPT ![i].open = TRUE]
        /\ pinging' = pinging \union {i}
        /\ IF sockets[i].role = "primary"
           THEN /\ primaryPing' = i
                /\ failures' = 0 /\ cooling' = FALSE
                /\ UNCHANGED auxPing
           ELSE /\ auxPing' = [auxPing EXCEPT ![sockets[i].venue] = i]
                /\ UNCHANGED <<primaryPing, failureVars>>
    /\ UNCHANGED <<served, venue, primary, aux, timerVars, overlap, trouble, streamConnects>>

(* registerStreamFailure().                                                *)
RegisterFailure ==
    /\ failures' = failures + 1
    /\ cooling' = (cooling \/ failures + 1 >= Threshold)

(* socket.onerror of a primary socket that did not open.                   *)
PrimaryErrors ==
    /\ trouble < MaxTrouble
    /\ \E i \in DOMAIN sockets :
        /\ sockets[i].role = "primary" /\ ~sockets[i].open /\ ~sockets[i].erred
        /\ sockets' = [sockets EXCEPT ![i].erred = TRUE]
    /\ RegisterFailure
    /\ trouble' = trouble + 1
    /\ UNCHANGED <<served, venue, primary, aux, timerVars, pingVars, overlap, streamConnects>>

(* socket.onclose of the primary socket.  The depth stream remembers that  *)
(* onerror registered the failure; the trade stream registers it again.    *)
PrimaryCloses(i) ==
    /\ sockets[i].role = "primary"
    /\ sockets' = Drop(sockets, {i})
    /\ primary' = NoSocket
    /\ pinging' = pinging \ {i, primaryPing} /\ primaryPing' = NoSocket
    /\ timer' = TRUE
    /\ IF sockets[i].open \/ (Kind = "depth" /\ sockets[i].erred)
       THEN UNCHANGED <<failures, cooling>>
       ELSE RegisterFailure
    /\ UNCHANGED <<aux, auxTimer, lostTimers, auxPing>>

(* socket.onclose of an auxiliary socket: the ping handle of its venue is  *)
(* cleared whoever it pings; only the socket in the map is replaced, by a  *)
(* timer whose handle takes the place of an earlier one.                   *)
AuxCloses(i) ==
    LET v == sockets[i].venue
    IN  /\ sockets[i].role = "aux"
        /\ sockets' = Drop(sockets, {i})
        /\ pinging' = pinging \ {i, auxPing[v]}
        /\ auxPing' = [auxPing EXCEPT ![v] = NoSocket]
        /\ IF aux[v] = i
           THEN /\ aux' = [aux EXCEPT ![v] = NoSocket]
                /\ auxTimer' = auxTimer \union {v}
                /\ lostTimers' = [lostTimers EXCEPT ![v] = IF v \in auxTimer THEN @ + 1 ELSE @]
           ELSE UNCHANGED <<aux, auxTimer, lostTimers>>
        /\ UNCHANGED <<primary, timer, primaryPing, failureVars>>

SocketCloses ==
    /\ trouble < MaxTrouble
    /\ \E i \in DOMAIN sockets : ~sockets[i].erred /\ (AuxCloses(i) \/ PrimaryCloses(i))
    /\ trouble' = trouble + 1
    /\ UNCHANGED <<served, venue, overlap, streamConnects>>

(* The close event that follows an error.                                  *)
FailedCloses ==
    /\ \E i \in DOMAIN sockets : sockets[i].erred /\ PrimaryCloses(i)
    /\ UNCHANGED <<served, venue, overlap, trouble, streamConnects>>

-----------------------------------------------------------------------------
PendingAux == auxTimer \union {v \in FusionVenues : lostTimers[v] > 0}

(* The reconnect timer of the primary socket.  The intervals of auxiliary  *)
(* sockets it detaches run on, but ping nobody.                            *)
PrimaryTimer ==
    /\ timer
    /\ ConnectSocket(venue, sockets, aux)
    /\ LET open == {i \in DOMAIN sockets' : sockets'[i].open}
       IN  /\ pinging' = pinging \intersect open
           /\ auxPing' = [v \in FusionVenues |->
                             IF auxPing[v] \in open THEN auxPing[v] ELSE NoSocket]
    /\ overlap' = (overlap \/ \E v \in PendingAux : aux'[v] # aux[v])
    /\ UNCHANGED <<served, venue, auxTimer, lostTimers, primaryPing, failureVars, trouble, streamConnects>>

(* A reconnect timer of an auxiliary venue: the new socket is written into *)
(* the map whatever it holds and whatever venue is configured by now.      *)
AuxTimer ==
    /\ \E v \in PendingAux :
        /\ \/ v \in auxTimer /\ auxTimer' = auxTimer \ {v} /\ UNCHANGED lostTimers
           \/ /\ lostTimers[v] > 0
              /\ lostTimers' = [lostTimers EXCEPT ![v] = @ - 1]
              /\ UNCHANGED auxTimer
        /\ IF venue = NoVenue \/ ~served THEN UNCHANGED <<sockets, aux>>
           ELSE LET ids == FreshIds(sockets, {<<v, "aux">>})
                IN  /\ Cardinality(DOMAIN sockets) < MaxSockets
                    /\ sockets' = WithSockets(sockets, {<<v, "aux">>}, ids)
                    /\ aux' = [aux EXCEPT ![v] = ids[<<v, "aux">>]]
    /\ UNCHANGED <<served, venue, primary, timer, pingVars, failureVars, overlap, trouble, streamConnects>>

(* streamCooldownUntil passes; the failure count stays.                    *)
StreamCooldownEnds ==
    /\ cooling
    /\ cooling' = FALSE
    /\ UNCHANGED <<served, venue, socketVars, timerVars, pingVars, failures,
                   overlap, trouble, streamConnects>>

StreamsNext ==
    \/ ConnectStreams \/ DisconnectStreams \/ SocketOpens \/ PrimaryErrors \/ SocketCloses
    \/ FailedCloses \/ PrimaryTimer \/ AuxTimer \/ StreamCooldownEnds

(* The browser fires timers and the close after an error; time ends the    *)
(* cooldown; a socket that does not fail opens.                            *)
StreamsFairness ==
    /\ WF_streamsVars(SocketOpens) /\ WF_streamsVars(FailedCloses) /\ WF_streamsVars(PrimaryTimer)
    /\ WF_streamsVars(AuxTimer) /\ WF_streamsVars(StreamCooldownEnds)

StreamsSpec == StreamsInit /\ [][StreamsNext]_streamsVars /\ StreamsFairness

-----------------------------------------------------------------------------
(* There is one attached primary socket, the one the bus holds, and it is  *)
(* of the configured venue: no late event of an earlier primary socket is  *)
(* taken for one of this stream.                                           *)
OnePrimary ==
    \A i \in DOMAIN sockets : sockets[i].role = "primary"
        => i = primary /\ sockets[i].venue = venue

(* An open primary socket keeps its ping whatever the others do.           *)
PrimaryPinged ==
    primary # NoSocket /\ sockets[primary].open => primary \in pinging

(* A configured stream that is served is never given up: its socket is     *)
(* attached or a timer will make one; the same for every other venue of    *)
(* the fusion.                                                             *)
NeverGivenUp ==
    served /\ venue # NoVenue =>
        /\ primary # NoSocket \/ timer
        /\ timer \/ \A v \in AuxVenues(venue) : aux[v] # NoSocket \/ v \in PendingAux

(* Every attached socket is known to the bus, of a venue the configuration *)
(* calls for, and pinged once open, unless a primary reconnect met a       *)
(* pending auxiliary timer: from then on a venue may have two sockets      *)
(* feeding the bus, one of which no reconfiguration detaches.              *)
OrphansOnlyByOverlap ==
    ~overlap => \A i \in DOMAIN sockets :
        /\ i = primary \/ (aux[sockets[i].venue] = i /\ sockets[i].venue \in AuxVenues(venue))
        /\ sockets[i].open => i \in pinging

(* After the last trouble and the last change of configuration the         *)
(* configured stream opens and stays open, where it is served.             *)
StreamRecovers ==
    <>[](served /\ venue # NoVenue => primary # NoSocket /\ sockets[primary].open)
=============================================================================
