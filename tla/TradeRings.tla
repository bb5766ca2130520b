---------------------------- MODULE TradeRings ----------------------------
(***************************************************************************)
(* The way of a trade from its socket into the engine (lib/marketDataBus.ts*)
(* ): each venue has a ring of Capacity slots, a message writes into the   *)
(* ring its socket was given when it connected, and an animation frame     *)
(* callback reads the rings in the order of the venues' priority until a   *)
(* count or a time budget is spent.  The indices only grow; a writer that  *)
(* laps the reader moves it on.                                            *)
(*                                                                         *)
(* A change of market drops the rings, so a ring is a venue and the number *)
(* of the market it was made for.  A socket of an earlier market may still *)
(* deliver what was on its way.                                            *)
(***************************************************************************)
EXTENDS Integers, Sequences, FiniteSetsExt

CONSTANTS RingVenues, \* venues of the fusion
          Priority,   \* tradeVenuePriority(); lower is read first
          Capacity,   \* TRADE_RING_CAPACITY
          PullLimit,  \* the least pullLimit of resolveAdaptiveScheduler()
          MaxTrades,  \* bound: trades that arrive
          MaxMarkets  \* bound: changes of market

ASSUME RingAssumption ==
    /\ Capacity \in Nat \ {0} /\ PullLimit \in Nat \ {0}
    /\ IsFiniteSet(RingVenues)
    /\ Priority \in [RingVenues -> Nat]
    /\ \A u, v \in RingVenues : Priority[u] = Priority[v] => u = v
ASSUME RingBoundsAssumption == MaxTrades \in Nat /\ MaxMarkets \in Nat

VARIABLES market,   \* number of the present market; 0: not connected
          markets,  \* bound: markets so far
          rings,    \* market -> venue -> storage, readIndex, writeIndex
          drainRaf, \* tradeDrainRaf !== null
          arrived,  \* bound: trades so far
          taken     \* what the last drain took, per venue

ringsVars == <<market, markets, rings, drainRaf, arrived, taken>>

Trades == [id : 1 .. MaxTrades, market : 1 .. MaxMarkets]
NoTrade == [id |-> 0, market |-> 0]

EmptyRing == [storage |-> [i \in 0 .. Capacity - 1 |-> NoTrade], read |-> 0, write |-> 0]

RingsInit ==
    /\ market = 0 /\ markets = 0
    /\ rings = [m \in 1 .. MaxMarkets |-> [v \in RingVenues |-> EmptyRing]]
    /\ drainRaf = FALSE
    /\ arrived = 0
    /\ taken = [v \in RingVenues |-> <<>>]

-----------------------------------------------------------------------------
(* TradeRingBuffer.                                                        *)

Size(ring) == IF ring.write > ring.read THEN ring.write - ring.read ELSE 0

Push(ring, trade) ==
    LET write == ring.write + 1
    IN  [storage |-> [ring.storage EXCEPT ![ring.write % Capacity] = trade],
         read    |-> IF write - ring.read > Capacity THEN write - Capacity ELSE ring.read,
         write   |-> write]

(* The first n trades shiftInto() yields, and the ring after them.         *)
Shifted(ring, n) == [i \in 1 .. n |-> ring.storage[(ring.read + i - 1) % Capacity]]
\* For the mutants: the reader moves by one, however many trades were read.
ShiftByOne(ring, n) == [ring EXCEPT !.read = IF n = 0 THEN @ ELSE @ + 1]

Shift(ring, n) == [ring EXCEPT !.read = @ + n]

Contents(ring) == Shifted(ring, Size(ring))

-----------------------------------------------------------------------------
Present == rings[market]
SumOfSizes(venues) == MapThenSumSet(LAMBDA v : Size(Present[v]), venues)

(* onmessage of a trade socket, opened for this market or an earlier one;  *)
(* scheduleTradeDrain() asks for a frame unless one is asked for.          *)
TradeMessage ==
    \E m \in 1 .. markets, v \in RingVenues :
        /\ arrived < MaxTrades
        /\ arrived' = arrived + 1
        /\ rings' = [rings EXCEPT ![m][v] = Push(@, [id |-> arrived', market |-> m])]
        /\ drainRaf' = TRUE
        /\ UNCHANGED <<market, markets, taken>>

(* drainTradeRings() stops after "count" trades, the pull limit or where   *)
(* the time budget was spent: the venues of higher priority are read first *)
(* and to their end.  The callback asks for another frame if any is left.  *)
TakenFrom(v, count) ==
    LET before == SumOfSizes({u \in RingVenues : Priority[u] < Priority[v]})
        left   == IF count > before THEN count - before ELSE 0
    IN  IF left < Size(Present[v]) THEN left ELSE Size(Present[v])

DrainFrame ==
    /\ drainRaf
    /\ IF market = 0 \/ SumOfSizes(RingVenues) = 0
       THEN drainRaf' = FALSE /\ UNCHANGED <<rings, taken>>
       ELSE \E count \in 1 .. Capacity * Cardinality(RingVenues) :
            /\ count =< SumOfSizes(RingVenues)
            /\ count >= PullLimit => count = PullLimit
            /\ taken' = [v \in RingVenues |-> Shifted(Present[v], TakenFrom(v, count))]
            /\ rings' = [rings EXCEPT ![market] =
                            [v \in RingVenues |-> Shift(@[v], TakenFrom(v, count))]]
            /\ drainRaf' = (count < SumOfSizes(RingVenues))
    /\ UNCHANGED <<market, markets, arrived>>

(* disconnectSockets() drops the rings and cancels the frame; connect()    *)
(* makes new rings as its sockets open.                                    *)
ConnectRings ==
    /\ markets < MaxMarkets
    /\ markets' = markets + 1
    /\ market' = markets'
    /\ drainRaf' = FALSE
    /\ UNCHANGED <<rings, arrived, taken>>

DropRings ==
    /\ market # 0
    /\ market' = 0
    /\ drainRaf' = FALSE
    /\ UNCHANGED <<markets, rings, arrived, taken>>

RingsNext == TradeMessage \/ DrainFrame \/ ConnectRings \/ DropRings

(* The browser calls the frame that was asked for.                         *)
RingsSpec == RingsInit /\ [][RingsNext]_ringsVars /\ WF_ringsVars(DrainFrame)

-----------------------------------------------------------------------------
(* The rings are queues of the last Capacity trades.                       *)
Queues == INSTANCE LossyQueues
              WITH Venues <- RingVenues,
                   queue <- [v \in RingVenues |-> IF market = 0 THEN <<>>
                                              ELSE Contents(Present[v])]
QueuesSpec == Queues!QSpec
=============================================================================
