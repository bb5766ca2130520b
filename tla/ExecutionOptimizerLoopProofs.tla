-------------------- MODULE ExecutionOptimizerLoopProofs --------------------
(***************************************************************************)
(* The safety of the router's live loop, for every notional, every number  *)
(* of cycles and any behaviour of the exchange.                            *)
(***************************************************************************)
EXTENDS ExecutionOptimizerLoop, TLAPS

\* No order is filled beyond its size.
OrdersSound == \A k \in OrderIds : orders[k].filled <= orders[k].requested

\* While the loop runs, its row is active, the ids of the cycles to come are
\* free, and its order is the only one that may work (none while replacing).
LoopTracksOrder ==
    pc \in Working =>
        /\ row.active
        /\ current < cycle
        /\ \A k \in OrderIds : k >= cycle => orders[k] = NoOrder
        /\ \A k \in OrderIds : orders[k].open => k = current /\ pc # "replacing"

\* The request the loop started with, and what it may be overbought by.
Wanted == orders[0].requested
Excess == overlooked + repeated

\* The loop never saw more filled than was filled, its order is of the size it
\* asked for (the quantity, if there is one), and with all that was booked what
\* is left of that order stays within the request and its excess.
LoopCountsFills ==
    pc \in Working =>
        /\ seen <= orders[current].filled
        /\ IF quantity > 0 THEN orders[current].requested = quantity
           ELSE orders[current].requested = asked
        /\ booked + Left(current) <= Wanted + Excess

LoopInv ==
    /\ TypeOK
    /\ OrdersSound
    /\ LoopTracksOrder
    /\ LoopCountsFills
    /\ OneWorkingOrder
    /\ OverfillAccounted
    /\ FinalStatusTruthful

\* The fields of an order are numbers, whether it was placed or not.
LEMMA OrderFields ==
    ASSUME TypeOK, NEW k \in OrderIds
    PROVE  /\ orders[k].requested \in 0 .. Notional
           /\ orders[k].filled \in 0 .. Notional
           /\ orders[k].open \in BOOLEAN
           /\ orders[k] = [requested |-> orders[k].requested, filled |-> orders[k].filled,
                           open |-> orders[k].open]
           /\ orders[k].open => orders[k].requested >= 1
<1> DEFINE o == orders[k]
<1>1. Notional \in Nat /\ o \in Order \cup {NoOrder}
  BY LoopAssumption DEF TypeOK
<1>2. CASE o \in Order
  BY <1>1, <1>2 DEF Order
<1>3. CASE o = NoOrder
  BY <1>1, <1>3 DEF NoOrder
<1> QED BY <1>1, <1>2, <1>3

\* The first order is one of them.
LEMMA ZeroIsAnId == 0 \in OrderIds
  BY LoopAssumption DEF OrderIds

\* What OverfillAccounted says, in the terms of the other parts.
LEMMA WithinExcess ==
    ASSUME TypeOK
    PROVE  /\ Wanted \in 0 .. Notional /\ Excess \in Nat
           /\ OverfillAccounted <=>
                  \A k \in OrderIds : orders[k].open => booked + Left(k) <= Wanted + Excess
<1>1. Wanted \in 0 .. Notional /\ overlooked \in Nat /\ repeated \in Nat
  BY OrderFields, ZeroIsAnId DEF Wanted, TypeOK
<1>2. Wanted + overlooked + repeated = Wanted + Excess /\ Excess \in Nat
  BY <1>1, LoopAssumption DEF Excess
<1> QED BY <1>1, <1>2 DEF OverfillAccounted, Wanted

\* The loop starts watching the one order there is.
LEMMA LoopStart == Init => LoopInv
<1> SUFFICES ASSUME Init PROVE LoopInv
  OBVIOUS
<1>1. PICK size \in 1 .. Notional : \E filled \in 0 .. size - 1 :
          /\ orders = [k \in OrderIds |->
                 IF k = 0 THEN [requested |-> size, filled |-> filled, open |-> TRUE]
                 ELSE NoOrder]
          /\ \/ quantity = 0 /\ asked = size
             \/ quantity = size /\ asked \in 1 .. Notional
          /\ seen = filled /\ booked = filled
  BY DEF Init
<1>a. PICK filled \in 0 .. size - 1 :
          /\ orders = [k \in OrderIds |->
                 IF k = 0 THEN [requested |-> size, filled |-> filled, open |-> TRUE]
                 ELSE NoOrder]
          /\ \/ quantity = 0 /\ asked = size
             \/ quantity = size /\ asked \in 1 .. Notional
          /\ seen = filled /\ booked = filled
  BY <1>1
<1>2. /\ filled \in Nat /\ filled < size /\ size \in Nat /\ size >= 1 /\ size <= Notional
      /\ Notional \in Nat /\ MaxCycles \in Nat
      /\ MaxCycles >= 1 /\ 0 \in OrderIds
  BY LoopAssumption DEF OrderIds
<1>3. /\ orders[0] = [requested |-> size, filled |-> filled, open |-> TRUE]
      /\ \A k \in OrderIds : k # 0 => orders[k] = NoOrder
  BY <1>a, <1>2
<1>4. TypeOK
  <2>1. /\ quantity \in 0 .. Notional /\ asked \in 0 .. Notional /\ seen \in 0 .. Notional
        /\ Remaining \in Nat
    BY <1>a, <1>2 DEF Remaining, LeftOf
  <2>2. orders \in [OrderIds -> Order \cup {NoOrder}]
    BY <1>a, <1>2 DEF Order
  <2>3. row \in Row
    BY <2>1 DEF Init, Row, Statuses
  <2>4. cycle \in 1 .. MaxCycles /\ current \in OrderIds /\ pc \in Working
    BY <1>2 DEF Init, Working
  <2>5. booked \in Nat /\ overlooked \in Nat /\ repeated \in Nat
    BY <1>a, <1>2 DEF Init
  <2> QED BY <2>1, <2>2, <2>3, <2>4, <2>5 DEF TypeOK
<1>5. OrdersSound
  BY <1>2, <1>3 DEF OrdersSound, NoOrder
<1>6. LoopTracksOrder
  BY <1>2, <1>3 DEF LoopTracksOrder, Init, NoOrder, OrderIds
<1>7. LoopCountsFills
  BY <1>a, <1>2, <1>3 DEF LoopCountsFills, Init, Left, Wanted, Excess
<1>8. OneWorkingOrder
  BY <1>3 DEF OneWorkingOrder, NoOrder
<1>9. OverfillAccounted
  BY <1>a, <1>2, <1>3 DEF OverfillAccounted, Init, Left, NoOrder
<1>10. FinalStatusTruthful
  BY DEF FinalStatusTruthful, Init
<1> QED BY <1>4, <1>5, <1>6, <1>7, <1>8, <1>9, <1>10 DEF LoopInv

-----------------------------------------------------------------------------
\* The exchange fills or ends one order: the loop's books still cover it.
LEMMA FillKeeps ==
    ASSUME LoopInv, NEW j \in OrderIds, NEW n \in 1 .. Notional, Fill(j, n)
    PROVE  LoopInv'
<1> USE DEF LoopInv, loopVars
<1>1. /\ orders' = [orders EXCEPT ![j].filled = @ + n, ![j].open = n < Left(j)]
      /\ orders[j].open /\ n <= Left(j) /\ booked' = booked + n
      /\ UNCHANGED <<quantity, pc, cycle, current, asked, seen, row, overlooked, repeated>>
  BY DEF Fill
<1>2. /\ orders[j].requested \in Nat /\ orders[j].filled \in Nat
      /\ Left(j) = orders[j].requested - orders[j].filled
      /\ orders[j].requested >= 1 /\ orders[j].requested <= Notional /\ n \in Nat /\ n >= 1
      /\ booked \in Nat /\ Wanted \in Nat /\ Excess \in Nat /\ Notional \in Nat
  BY <1>1, OrderFields, ZeroIsAnId, LoopAssumption DEF Left, TypeOK, Wanted, Excess
<1>3. /\ orders'[j] = [requested |-> orders[j].requested, filled |-> orders[j].filled + n,
                       open |-> n < Left(j)]
      /\ \A k \in OrderIds : k # j => orders'[k] = orders[k]
      /\ DOMAIN orders' = OrderIds /\ orders' = [k \in OrderIds |-> orders'[k]]
  <2>1. orders = [k \in OrderIds |-> orders[k]]
    BY DEF TypeOK
  <2>2. orders[j] = [requested |-> orders[j].requested, filled |-> orders[j].filled,
                     open |-> orders[j].open]
    BY OrderFields
  <2>3. orders'[j] = [orders[j] EXCEPT !.filled = @ + n, !.open = n < Left(j)]
    BY <1>1, <2>1
  <2>4. orders'[j] = [requested |-> orders[j].requested, filled |-> orders[j].filled + n,
                      open |-> n < Left(j)]
    BY <2>2, <2>3
  <2> QED BY <1>1, <2>1, <2>4
<1>4. \A k \in OrderIds : orders'[k].open => orders[k].open
  BY <1>1, <1>3
<1>5. /\ orders'[j].requested - orders'[j].filled = Left(j) - n
      /\ \A k \in OrderIds : k # j => orders'[k].requested - orders'[k].filled = Left(k)
  BY <1>2, <1>3 DEF Left
<1>b. Wanted' = Wanted /\ Excess' = Excess
  BY <1>1, <1>3, ZeroIsAnId DEF Wanted, Excess
<1>6. TypeOK'
  <2>0. /\ orders[j].requested \in 1 .. Notional /\ orders[j].filled + n \in 0 .. Notional
        /\ (n < Left(j)) \in BOOLEAN
    BY <1>1, <1>2
  <2>1. orders'[j] \in Order
    BY <1>3, <2>0 DEF Order
  <2>2. orders' \in [OrderIds -> Order \cup {NoOrder}]
    BY <1>3, <2>1 DEF TypeOK
  <2>3. booked' \in Nat
    BY <1>1, <1>2
  <2> QED BY <1>1, <2>2, <2>3 DEF TypeOK
<1>7. OrdersSound'
  BY <1>1, <1>2, <1>3 DEF OrdersSound
<1>8. LoopTracksOrder'
  <2>1. orders[j] # NoOrder
    BY <1>1 DEF NoOrder
  <2> QED BY <1>1, <1>3, <1>4, <2>1 DEF LoopTracksOrder
<1>9. LoopCountsFills'
  <2> SUFFICES ASSUME pc \in Working
               PROVE  /\ seen <= orders'[current].filled
                      /\ orders'[current].requested = orders[current].requested
                      /\ booked' + (orders'[current].requested - orders'[current].filled)
                             <= Wanted + Excess
    BY <1>1, <1>b DEF LoopCountsFills, Left
  <2>1. j = current
    BY <1>1 DEF LoopTracksOrder
  <2>2. seen \in Nat /\ seen <= orders[current].filled
        /\ booked + Left(current) <= Wanted + Excess
    BY LoopAssumption DEF LoopCountsFills, TypeOK
  <2>3. seen <= orders'[current].filled
    BY <1>2, <1>3, <2>1, <2>2
  <2>4. orders'[current].requested = orders[current].requested
    BY <1>3, <2>1
  <2>5. booked' + (orders'[current].requested - orders'[current].filled) = booked + Left(current)
    BY <1>1, <1>2, <1>5, <2>1
  <2> QED BY <2>2, <2>3, <2>4, <2>5
<1>10. OneWorkingOrder'
  BY <1>4 DEF OneWorkingOrder
<1>11. OverfillAccounted'
  <2> SUFFICES ASSUME NEW k \in OrderIds, orders'[k].open
               PROVE  booked' + (orders'[k].requested - orders'[k].filled)
                          <= Wanted + Excess
    <3>1. /\ Wanted + Excess = Wanted + overlooked + repeated
          /\ orders'[0].requested = Wanted /\ overlooked' = overlooked /\ repeated' = repeated
      BY <1>1, <1>2, <1>b DEF Excess, Wanted, TypeOK
    <3> QED BY <3>1 DEF OverfillAccounted, Left
  <2>1. k = j
    BY <1>1, <1>4 DEF OneWorkingOrder
  <2>2. booked + Left(j) <= Wanted + Excess
    BY <1>1, WithinExcess
  <2> QED BY <1>1, <1>2, <1>5, <2>1, <2>2
<1>12. FinalStatusTruthful'
  BY <1>1, <1>4 DEF FinalStatusTruthful
<1> QED BY <1>6, <1>7, <1>8, <1>9, <1>10, <1>11, <1>12

\* The caller's quantity and the first order's size stand, and the books stay
\* numbers.
BooksKept ==
    /\ quantity' = quantity /\ Wanted' = Wanted
    /\ booked' \in Nat /\ overlooked' \in Nat /\ repeated' \in Nat

\* What acknowledging a cancel does to the exchange's orders.
LEMMA ClosingKeeps ==
    ASSUME LoopInv, NEW j \in OrderIds, Closed(j), UNCHANGED <<quantity, books>>
    PROVE  /\ orders' \in [OrderIds -> Order \cup {NoOrder}]
           /\ \A k \in OrderIds : /\ orders'[k].requested = orders[k].requested
                                  /\ orders'[k].filled = orders[k].filled
                                  /\ orders'[k].open => orders[k].open
                                  /\ orders[k] = NoOrder => orders'[k] = NoOrder
           /\ ~orders'[j].open
           /\ BooksKept /\ Excess' = Excess
           /\ OrdersSound' /\ OneWorkingOrder' /\ OverfillAccounted'
<1>1. orders' = [orders EXCEPT ![j].open = FALSE]
  BY DEF Closed
<1>2. orders = [k \in OrderIds |-> orders[k]]
  BY DEF LoopInv, TypeOK
<1>3. /\ orders[j] = [requested |-> orders[j].requested, filled |-> orders[j].filled,
                      open |-> orders[j].open]
      /\ orders[j].requested \in 0 .. Notional /\ orders[j].filled \in 0 .. Notional
  BY OrderFields DEF LoopInv
<1>4. orders'[j] = [orders[j] EXCEPT !.open = FALSE]
  BY <1>1, <1>2
<1>5. orders'[j] = [requested |-> orders[j].requested, filled |-> orders[j].filled,
                    open |-> FALSE]
  BY <1>3, <1>4
<1>6. /\ \A k \in OrderIds : k # j => orders'[k] = orders[k]
      /\ DOMAIN orders' = OrderIds /\ orders' = [k \in OrderIds |-> orders'[k]]
  BY <1>1, <1>2
<1>7. orders'[j] \in Order \cup {NoOrder}
  <2>1. CASE orders[j] \in Order
    BY <1>5, <2>1 DEF Order
  <2>2. CASE orders[j] = NoOrder
    BY <1>5, <2>2 DEF NoOrder
  <2> QED BY <2>1, <2>2 DEF LoopInv, TypeOK
<1>8. orders' \in [OrderIds -> Order \cup {NoOrder}]
  BY <1>6, <1>7 DEF LoopInv, TypeOK
<1>9. \A k \in OrderIds : /\ orders'[k].requested = orders[k].requested
                          /\ orders'[k].filled = orders[k].filled
                          /\ orders'[k].open => orders[k].open
  BY <1>5, <1>6
<1>10. \A k \in OrderIds : orders[k] = NoOrder => orders'[k] = NoOrder
  BY <1>5, <1>6 DEF NoOrder
<1>11. OrdersSound' /\ OneWorkingOrder'
  BY <1>9 DEF LoopInv, OrdersSound, OneWorkingOrder
<1>12. OverfillAccounted'
  BY <1>9, ZeroIsAnId DEF LoopInv, OverfillAccounted, Left, books
<1>13. BooksKept /\ Excess' = Excess
  BY <1>9, ZeroIsAnId DEF LoopInv, TypeOK, books, BooksKept, Wanted, Excess
<1> QED BY <1>5, <1>8, <1>9, <1>10, <1>11, <1>12, <1>13

\* What posting a replacement does to them: it takes the next free id, and its
\* size is covered by what the cancelled order left over, or is accounted for.
LEMMA PlacingKeeps ==
    ASSUME LoopInv, pc = "replacing", UNCHANGED quantity,
           NEW n \in ReplacementSizes, NEW filled \in 0 .. SizeFor(n), NEW open \in BOOLEAN,
           Place([requested |-> SizeFor(n), filled |-> filled, open |-> open])
    PROVE  /\ orders' \in [OrderIds -> Order \cup {NoOrder}]
           /\ orders'[cycle] = [requested |-> SizeFor(n), filled |-> filled, open |-> open]
           /\ \A k \in OrderIds : k # cycle => orders'[k] = orders[k] /\ ~orders'[k].open
           /\ SizeFor(n) \in 1 .. Notional /\ n \in 1 .. Notional /\ filled \in 0 .. Notional
           /\ BooksKept
           /\ booked' + (SizeFor(n) - filled) <= Wanted + Excess'
           /\ OrdersSound' /\ OneWorkingOrder' /\ OverfillAccounted'
<1> DEFINE size == SizeFor(n)
           order == [requested |-> size, filled |-> filled, open |-> open]
<1>1. /\ orders' = [orders EXCEPT ![cycle] = order]
      /\ booked' = booked + filled
      /\ overlooked' = overlooked + Overlooked
      /\ repeated' = repeated + Repeated
  BY DEF Place
<1>2. /\ cycle \in OrderIds /\ cycle # 0 /\ current \in OrderIds
      /\ asked \in 0 .. Notional /\ seen \in 0 .. Notional /\ quantity \in 0 .. Notional
      /\ booked \in Nat /\ overlooked \in Nat /\ repeated \in Nat /\ Notional \in Nat
  BY LoopAssumption DEF LoopInv, TypeOK, OrderIds
<1>3. /\ seen <= orders[current].filled
      /\ quantity > 0 => orders[current].requested = quantity
      /\ ~(quantity > 0) => orders[current].requested = asked
      /\ booked + Left(current) <= Wanted + Excess
      /\ \A k \in OrderIds : ~orders[k].open
  BY DEF LoopInv, LoopCountsFills, LoopTracksOrder, Working
<1>4. orders[current].requested \in 0 .. Notional /\ orders[current].filled \in 0 .. Notional
  BY <1>2, OrderFields DEF LoopInv
<1>5. n \in Nat /\ n >= 1 /\ n <= Remaining /\ Remaining \in Nat /\ Remaining <= asked
  BY <1>2 DEF ReplacementSizes, Remaining, LeftOf
<1>6. size \in 1 .. Notional /\ n \in 1 .. Notional
  BY <1>2, <1>5 DEF SizeFor
<1>7. filled \in 0 .. Notional /\ filled <= size /\ filled \in Nat /\ size \in Nat
  <2> HIDE DEF size
  <2> QED BY <1>2, <1>6 DEF size
<1>8. /\ Overlooked \in Nat /\ Repeated \in Nat
      /\ size <= Left(current) + Overlooked + Repeated
  <2>1. Overlooked = orders[current].filled - seen /\ Overlooked \in Nat
    BY <1>2, <1>3, <1>4 DEF Overlooked
  <2>2. CASE quantity > 0
    <3>1. size = quantity /\ Repeated = seen
      BY <2>2 DEF SizeFor, Repeated
    <3> QED BY <1>2, <1>3, <1>4, <2>1, <2>2, <3>1 DEF Left
  <2>3. CASE ~(quantity > 0)
    <3>1. size = n /\ Repeated = 0
      BY <2>3 DEF SizeFor, Repeated
    <3>2. n <= asked - seen
      BY <1>2, <1>5 DEF Remaining, LeftOf
    <3> QED BY <1>2, <1>3, <1>4, <1>5, <2>1, <2>3, <3>1, <3>2 DEF Left
  <2> QED BY <2>2, <2>3
<1>9. orders = [k \in OrderIds |-> orders[k]]
  BY DEF LoopInv, TypeOK
<1>10. /\ orders'[cycle] = order
       /\ \A k \in OrderIds : k # cycle => orders'[k] = orders[k] /\ ~orders'[k].open
       /\ orders' = [k \in OrderIds |-> orders'[k]]
  <2> HIDE DEF order
  <2> QED BY <1>1, <1>2, <1>3, <1>9
<1>11. Wanted' = Wanted /\ Wanted \in Nat
  BY <1>2, <1>10, ZeroIsAnId, WithinExcess DEF Wanted, LoopInv
<1>12. booked' \in Nat /\ overlooked' \in Nat /\ repeated' \in Nat
  BY <1>1, <1>2, <1>7, <1>8
<1>13. booked' + (size - filled) <= Wanted + Excess'
  <2>1. Left(current) \in Int
    BY <1>4 DEF Left
  <2>2. Excess \in Nat /\ Excess' = Excess + Overlooked + Repeated
    BY <1>1, <1>2, <1>8 DEF Excess
  <2> HIDE DEF size
  <2> QED BY <1>1, <1>2, <1>3, <1>7, <1>8, <1>11, <2>1, <2>2
<1>14. order \in Order
  <2> HIDE DEF size
  <2> QED BY <1>6, <1>7 DEF Order
<1>15. orders' \in [OrderIds -> Order \cup {NoOrder}]
  <2> HIDE DEF order
  <2> QED BY <1>10, <1>14 DEF LoopInv, TypeOK
<1>16. OrdersSound' /\ OneWorkingOrder'
  <2>1. orders'[cycle].requested = size /\ orders'[cycle].filled = filled
    BY <1>10
  <2>2. \A k \in OrderIds : orders'[k].open => k = cycle
    BY <1>10
  <2> HIDE DEF size, order
  <2> QED BY <1>7, <1>10, <2>1, <2>2 DEF LoopInv, OrdersSound, OneWorkingOrder
<1>17. OverfillAccounted'
  <2> SUFFICES ASSUME NEW k \in OrderIds, orders'[k].open
               PROVE  booked' + (orders'[k].requested - orders'[k].filled)
                          <= orders'[0].requested + overlooked' + repeated'
    BY DEF OverfillAccounted, Left
  <2>1. k = cycle
    BY <1>10
  <2>2. orders'[k].requested = size /\ orders'[k].filled = filled
    BY <1>10, <2>1
  <2>3. orders'[0].requested = Wanted /\ Excess' = overlooked' + repeated'
    BY <1>11 DEF Wanted, Excess
  <2>4. Wanted + Excess' = orders'[0].requested + overlooked' + repeated'
    BY <1>11, <1>12, <2>3
  <2> HIDE DEF size
  <2> QED BY <1>13, <2>2, <2>4
<1>18. BooksKept
  BY <1>11, <1>12 DEF BooksKept
<1> QED BY <1>6, <1>7, <1>10, <1>13, <1>15, <1>16, <1>17, <1>18

\* When nothing happens at the exchange, its orders are as sound as before.
LEMMA IdleKeeps ==
    ASSUME LoopInv, UNCHANGED <<orders, quantity, books>>
    PROVE  /\ orders' \in [OrderIds -> Order \cup {NoOrder}]
           /\ BooksKept /\ Excess' = Excess
           /\ OrdersSound' /\ OneWorkingOrder' /\ OverfillAccounted'
  BY DEF LoopInv, TypeOK, OrdersSound, OneWorkingOrder, OverfillAccounted, Left, books,
     BooksKept, Wanted, Excess

\* What was filled, and what the loop thinks is left, are amounts.
LEMMA LoopFields ==
    ASSUME LoopInv, pc \in Working
    PROVE  /\ current \in OrderIds /\ cycle \in OrderIds /\ cycle \in 1 .. MaxCycles
           /\ asked \in 0 .. Notional /\ seen \in 0 .. Notional
           /\ orders[current].filled \in 0 .. Notional
           /\ Remaining \in Nat /\ LeftOf(asked, orders[current].filled) \in Nat
           /\ IF quantity > 0 THEN orders[current].requested = quantity
              ELSE orders[current].requested = asked
           /\ booked + Left(current) <= Wanted + Excess
           /\ row.active /\ row \in Row
<1>1. /\ current \in OrderIds /\ cycle \in 1 .. MaxCycles /\ cycle \in OrderIds
      /\ asked \in 0 .. Notional /\ seen \in 0 .. Notional /\ row \in Row /\ row.active
  BY LoopAssumption DEF LoopInv, TypeOK, OrderIds, LoopTracksOrder
<1>2. orders[current].filled \in 0 .. Notional
  BY <1>1, OrderFields DEF LoopInv
<1>3. Remaining \in Nat /\ LeftOf(asked, orders[current].filled) \in Nat
  BY <1>1, <1>2, LoopAssumption DEF Remaining, LeftOf
<1>4. /\ IF quantity > 0 THEN orders[current].requested = quantity
         ELSE orders[current].requested = asked
      /\ booked + Left(current) <= Wanted + Excess
  BY DEF LoopInv, LoopCountsFills
<1> QED BY <1>1, <1>2, <1>3, <1>4

\* Whatever the adapter reports as ended has ended.
LEMMA StatusTruthful ==
    ASSUME NEW order, NEW status \in StatusesOf(order)
    PROVE  status \in Statuses /\ (order.open => status = "open")
BY DEF StatusesOf, Statuses

\* A loop that ends truthfully, on orders that are sound, keeps the invariant.
LEMMA FinalizeKeeps ==
    ASSUME LoopInv,
           NEW status \in Statuses, NEW left \in Nat, Finalize(status, left),
           orders' \in [OrderIds -> Order \cup {NoOrder}],
           BooksKept, current' \in OrderIds, asked' \in 0 .. Notional, seen' \in 0 .. Notional,
           OrdersSound', OneWorkingOrder', OverfillAccounted',
           status \in {"filled", "cancelled"} => \A k \in OrderIds : ~orders'[k].open
    PROVE  LoopInv'
<1>1. /\ row' = [active |-> FALSE, status |-> status, remaining |-> left]
      /\ pc' = "done" /\ cycle' = cycle
  BY DEF Finalize
<1>2. row' \in Row
  BY <1>1 DEF Row
<1>3. TypeOK'
  BY <1>1, <1>2 DEF TypeOK, LoopInv, BooksKept
<1>4. LoopTracksOrder' /\ LoopCountsFills'
  BY <1>1 DEF LoopTracksOrder, LoopCountsFills, Working
<1>5. FinalStatusTruthful'
  BY <1>1 DEF FinalStatusTruthful
<1> QED BY <1>3, <1>4, <1>5 DEF LoopInv

\* So does one that goes on with the only order that may work.
LEMMA NextCycleKeeps ==
    ASSUME LoopInv, pc \in Working, NEW left \in Nat, NextCycle(left),
           orders' \in [OrderIds -> Order \cup {NoOrder}],
           BooksKept, current' \in OrderIds, asked' \in 0 .. Notional, seen' \in 0 .. Notional,
           OrdersSound', OneWorkingOrder', OverfillAccounted',
           current' <= cycle,
           \A k \in OrderIds : k > cycle => orders'[k] = NoOrder,
           \A k \in OrderIds : orders'[k].open => k = current',
           seen' <= orders'[current'].filled,
           IF quantity > 0 THEN orders'[current'].requested = quantity
           ELSE orders'[current'].requested = asked',
           booked' + Left(current)' <= Wanted + Excess'
    PROVE  LoopInv'
<1>1. cycle \in 1 .. MaxCycles /\ MaxCycles \in Nat /\ OrderIds \subseteq Int /\ current' \in Int
  BY LoopFields, LoopAssumption DEF OrderIds
<1>2. CASE cycle = MaxCycles
  <2>1. Finalize("open", left)
    BY <1>2 DEF NextCycle
  <2> QED BY <2>1, FinalizeKeeps DEF Statuses
<1>3. CASE cycle # MaxCycles
  <2>1. /\ row' = [active |-> TRUE, status |-> "open", remaining |-> left]
        /\ pc' = "sleeping" /\ cycle' = cycle + 1
    BY <1>3 DEF NextCycle
  <2>2. row' \in Row
    BY <2>1 DEF Row, Statuses
  <2>3. cycle' \in 1 .. MaxCycles
    BY <1>1, <1>3, <2>1
  <2>4. TypeOK'
    BY <2>1, <2>2, <2>3 DEF TypeOK, Working, BooksKept, LoopInv
  <2>5. LoopTracksOrder'
    <3>1. row'.active /\ current' < cycle' /\ pc' # "replacing"
      BY <1>1, <2>1
    <3>2. \A k \in OrderIds : k >= cycle' => k > cycle
      BY <1>1, <2>1
    <3> QED BY <3>1, <3>2 DEF LoopTracksOrder
  <2>6. LoopCountsFills' /\ FinalStatusTruthful'
    BY <2>1 DEF LoopCountsFills, FinalStatusTruthful, BooksKept
  <2> QED BY <2>4, <2>5, <2>6 DEF LoopInv
<1> QED BY <1>2, <1>3

-----------------------------------------------------------------------------
\* What the answer to a query does: the loop now knows what is filled.
LEMMA QueryKeeps == LoopInv /\ Query => LoopInv'
<1> SUFFICES ASSUME LoopInv, Query PROVE LoopInv'
  OBVIOUS
<1> DEFINE filled == orders[current].filled
           left == LeftOf(asked, filled)
<1>1. /\ pc \in Working /\ pc = "sleeping" /\ seen' = filled
      /\ UNCHANGED <<orders, quantity, current, asked, books>>
  BY DEF Query, Working
<1>2. /\ seen' \in 0 .. Notional /\ asked' \in 0 .. Notional /\ left \in Nat
      /\ current' \in OrderIds
  BY <1>1, LoopFields
<1>3. PICK status \in StatusesOf(orders[current]) :
          IF status = "open" /\ left > Dust
          THEN pc' = "evaluating" /\ UNCHANGED <<cycle, row>>
          ELSE Finalize(status, left)
  BY DEF Query
<1>4. status \in Statuses /\ (orders[current].open => status = "open")
  BY StatusTruthful
<1>5. CASE status = "open" /\ left > Dust
  <2>1. pc' = "evaluating" /\ UNCHANGED <<cycle, row>>
    BY <1>3, <1>5
  <2>2. TypeOK'
    BY <1>1, <1>2, <2>1 DEF LoopInv, TypeOK, Working, books
  <2>3. LoopTracksOrder'
    BY <1>1, <2>1 DEF LoopInv, LoopTracksOrder
  <2>4. LoopCountsFills'
    <3>1. seen' <= orders'[current'].filled
      BY <1>1, <1>2, LoopAssumption
    <3>2. /\ Left(current)' = Left(current) /\ Wanted' = Wanted
          /\ Excess' = Excess /\ booked' = booked
      BY <1>1 DEF Left, Wanted, Excess, books
    <3> QED BY <1>1, <3>1, <3>2, LoopFields DEF LoopCountsFills
  <2>5. FinalStatusTruthful'
    BY <1>1, <2>1, LoopFields DEF FinalStatusTruthful
  <2> QED BY <1>1, <2>2, <2>3, <2>4, <2>5, IdleKeeps DEF LoopInv
<1>6. CASE ~(status = "open" /\ left > Dust)
  <2>1. Finalize(status, left)
    BY <1>3, <1>6
  <2>2. status \in {"filled", "cancelled"} => \A k \in OrderIds : ~orders'[k].open
    BY <1>1, <1>4 DEF LoopInv, LoopTracksOrder
  <2> HIDE DEF left
  <2> QED BY <1>1, <1>2, <1>4, <2>1, <2>2, IdleKeeps, FinalizeKeeps
<1> QED BY <1>5, <1>6

\* Keeping the order, and amending its price, move on to the next cycle.
LEMMA KeepKeeps == LoopInv /\ (Keep \/ Amend) => LoopInv'
<1> SUFFICES ASSUME LoopInv, Keep \/ Amend PROVE LoopInv'
  OBVIOUS
<1> DEFINE left == LeftOf(asked, orders[current].filled)
<1>1. /\ pc \in Working /\ pc = "evaluating"
      /\ UNCHANGED <<orders, quantity, current, asked, books>>
  BY DEF Keep, Amend, Working
<1>2. /\ \A k \in OrderIds : orders'[k].open => k = current'
      /\ \A k \in OrderIds : k > cycle => orders'[k] = NoOrder
      /\ current' <= cycle /\ current' \in OrderIds /\ asked' \in 0 .. Notional
      /\ IF quantity > 0 THEN orders'[current'].requested = quantity
         ELSE orders'[current'].requested = asked'
      /\ booked' + Left(current)' <= Wanted + Excess'
      /\ seen \in 0 .. Notional /\ orders[current].filled \in 0 .. Notional
      /\ seen <= orders[current].filled
  <2>1. cycle \in Int /\ current \in Int /\ OrderIds \subseteq Int
    BY <1>1, LoopFields, LoopAssumption DEF OrderIds
  <2>2. /\ Left(current)' = Left(current) /\ Excess' = Excess /\ booked' = booked
    BY <1>1 DEF Left, Excess, books
  <2>3. seen <= orders[current].filled
    BY <1>1 DEF LoopInv, LoopCountsFills
  <2>4. /\ \A k \in OrderIds : orders'[k].open => k = current'
        /\ \A k \in OrderIds : k > cycle => orders'[k] = NoOrder
        /\ current' <= cycle
    BY <1>1, <2>1 DEF LoopInv, LoopTracksOrder
  <2> QED BY <1>1, <2>2, <2>3, <2>4, LoopFields
<1>3. CASE Keep
  <2>1. NextCycle(Remaining) /\ seen' = seen /\ Remaining \in Nat
    BY <1>1, <1>3, LoopFields DEF Keep
  <2>2. seen' <= orders'[current'].filled /\ seen' \in 0 .. Notional
    BY <1>1, <1>2, <2>1
  <2> QED BY <1>1, <1>2, <2>1, <2>2, IdleKeeps, NextCycleKeeps
<1>4. CASE Amend
  <2>1. seen' = orders[current].filled /\ left \in Nat
    BY <1>1, <1>4, LoopFields DEF Amend
  <2>2. PICK status \in StatusesOf(orders[current]) :
            IF status = "open" THEN NextCycle(left) ELSE Finalize(status, left)
    BY <1>4, <2>1 DEF Amend
  <2>3. status \in Statuses /\ (orders[current].open => status = "open")
    BY StatusTruthful
  <2>4. CASE status = "open"
    <3>1. NextCycle(left)
      BY <2>2, <2>4
    <3>2. seen' <= orders'[current'].filled /\ seen' \in 0 .. Notional
      BY <1>1, <1>2, <2>1, LoopAssumption
    <3> HIDE DEF left
    <3> QED BY <1>1, <1>2, <2>1, <3>1, <3>2, IdleKeeps, NextCycleKeeps
  <2>5. CASE status # "open"
    <3>1. Finalize(status, left)
      BY <2>2, <2>5
    <3>2. \A k \in OrderIds : ~orders'[k].open
      BY <1>1, <2>3, <2>5 DEF LoopInv, LoopTracksOrder
    <3> HIDE DEF left
    <3> QED BY <1>1, <1>2, <2>1, <2>3, <3>1, <3>2, IdleKeeps, FinalizeKeeps
  <2> QED BY <2>4, <2>5
<1> QED BY <1>3, <1>4

\* Between two calls nothing has happened at the exchange on the loop's part.
LEMMA DecideKeeps == LoopInv /\ DecideToCancel => LoopInv'
<1> SUFFICES ASSUME LoopInv, DecideToCancel PROVE LoopInv'
  OBVIOUS
<1>1. /\ pc \in Working /\ pc = "evaluating" /\ pc' \in {"cancel", "cancel_replace"}
      /\ row' = [active |-> TRUE, status |-> "open", remaining |-> Remaining]
      /\ UNCHANGED <<orders, quantity, cycle, current, asked, seen, books>>
  BY DEF DecideToCancel, Working
<1>2. row' \in Row
  BY <1>1, LoopFields DEF Row, Statuses
<1>3. TypeOK'
  BY <1>1, <1>2 DEF LoopInv, TypeOK, Working, books
<1>4. LoopTracksOrder'
  BY <1>1 DEF LoopInv, LoopTracksOrder
<1>5. LoopCountsFills'
  BY <1>1 DEF LoopInv, LoopCountsFills, Left, Wanted, Excess, books
<1>6. FinalStatusTruthful'
  BY <1>1 DEF FinalStatusTruthful
<1> QED BY <1>1, <1>3, <1>4, <1>5, <1>6, IdleKeeps DEF LoopInv

\* A final cancel leaves nothing working, so whatever it reports is true.
LEMMA CancelKeeps == LoopInv /\ Cancel => LoopInv'
<1> SUFFICES ASSUME LoopInv, Cancel PROVE LoopInv'
  OBVIOUS
<1>0. PICK status \in AfterCancel : Finalize(status, Remaining)
  BY DEF Cancel
<1>1. /\ pc \in Working /\ Closed(current) /\ Finalize(status, Remaining)
      /\ UNCHANGED <<quantity, current, asked, seen, books>>
  BY <1>0 DEF Cancel, Working
<1>2. /\ current \in OrderIds /\ Remaining \in Nat
      /\ asked' \in 0 .. Notional /\ seen' \in 0 .. Notional
  BY <1>1, LoopFields
<1>3. status \in Statuses
  BY StatusTruthful DEF AfterCancel, Statuses
<1>4. /\ ~orders'[current].open
      /\ \A k \in OrderIds : orders'[k].open => orders[k].open
  BY <1>1, <1>2, ClosingKeeps
<1>5. \A k \in OrderIds : ~orders'[k].open
  BY <1>1, <1>4 DEF LoopInv, LoopTracksOrder
<1> QED BY <1>1, <1>2, <1>3, <1>5, ClosingKeeps, FinalizeKeeps

\* Once the cancel is acknowledged no order works, and the one to replace it
\* may take its place.
LEMMA CancelToReplaceKeeps == LoopInv /\ CancelToReplace => LoopInv'
<1> SUFFICES ASSUME LoopInv, CancelToReplace PROVE LoopInv'
  OBVIOUS
<1>1. /\ pc \in Working /\ Closed(current) /\ pc' = "replacing"
      /\ UNCHANGED <<quantity, cycle, current, asked, seen, row, books>>
  BY DEF CancelToReplace, Working
<1>2. current \in OrderIds
  BY <1>1, LoopFields
<1>3. /\ orders' \in [OrderIds -> Order \cup {NoOrder}]
      /\ \A k \in OrderIds : /\ orders'[k].requested = orders[k].requested
                             /\ orders'[k].filled = orders[k].filled
                             /\ orders'[k].open => orders[k].open
                             /\ orders[k] = NoOrder => orders'[k] = NoOrder
      /\ ~orders'[current].open
      /\ BooksKept /\ Excess' = Excess
      /\ OrdersSound' /\ OneWorkingOrder' /\ OverfillAccounted'
  BY <1>1, <1>2, ClosingKeeps
<1>4. TypeOK'
  BY <1>1, <1>3 DEF LoopInv, TypeOK, Working, BooksKept
<1>5. LoopTracksOrder'
  BY <1>1, <1>3 DEF LoopInv, LoopTracksOrder
<1>6. LoopCountsFills'
  BY <1>1, <1>2, <1>3 DEF LoopInv, LoopCountsFills, Left, BooksKept, books
<1>7. FinalStatusTruthful'
  BY <1>1, LoopFields DEF FinalStatusTruthful
<1> QED BY <1>3, <1>4, <1>5, <1>6, <1>7 DEF LoopInv

\* The replacement becomes the loop's order, or is already over.
LEMMA ReplaceKeeps == LoopInv /\ Replace => LoopInv'
<1> SUFFICES ASSUME LoopInv, Replace PROVE LoopInv'
  OBVIOUS
<1> DEFINE Order2(n, filled, open) ==
               [requested |-> SizeFor(n), filled |-> filled, open |-> open]
           Answered(n, filled, open) ==
               /\ Place(Order2(n, filled, open))
               /\ current' = cycle
               /\ asked' = n /\ seen' = filled
               /\ \E status \in StatusesOf(Order2(n, filled, open)) :
                      IF status = "open" THEN NextCycle(LeftOf(n, filled))
                      ELSE Finalize(status, LeftOf(n, filled))
<1>0. \E n \in ReplacementSizes : \E filled \in 0 .. SizeFor(n) :
          \E open \in {FALSE, filled < SizeFor(n)} : Answered(n, filled, open)
  BY DEF Replace
<1> HIDE DEF Answered
<1>1. PICK n \in ReplacementSizes : \E filled \in 0 .. SizeFor(n) :
          \E open \in {FALSE, filled < SizeFor(n)} : Answered(n, filled, open)
  BY <1>0
<1>2. PICK filled \in 0 .. SizeFor(n) :
          \E open \in {FALSE, filled < SizeFor(n)} : Answered(n, filled, open)
  BY <1>1
<1>3. PICK open \in {FALSE, filled < SizeFor(n)} : Answered(n, filled, open)
  BY <1>2
<1> DEFINE order == Order2(n, filled, open)
           left == LeftOf(n, filled)
<1>4. /\ pc = "replacing" /\ pc \in Working /\ quantity' = quantity
      /\ open \in BOOLEAN
  <2>1. (filled < SizeFor(n)) \in BOOLEAN
    OBVIOUS
  <2>2. open = FALSE \/ open = (filled < SizeFor(n))
    OBVIOUS
  <2>3. open \in BOOLEAN
    BY <2>1, <2>2, Zenon
  <2> QED BY <2>3 DEF Replace, Working
<1>5. /\ Place(order) /\ current' = cycle /\ asked' = n /\ seen' = filled
      /\ \E status \in StatusesOf(order) :
             IF status = "open" THEN NextCycle(left) ELSE Finalize(status, left)
  BY <1>3 DEF Answered
<1>6. /\ orders' \in [OrderIds -> Order \cup {NoOrder}]
      /\ orders'[cycle] = order
      /\ \A k \in OrderIds : k # cycle => orders'[k] = orders[k] /\ ~orders'[k].open
      /\ SizeFor(n) \in 1 .. Notional /\ n \in 1 .. Notional /\ filled \in 0 .. Notional
      /\ BooksKept
      /\ booked' + (SizeFor(n) - filled) <= Wanted + Excess'
      /\ OrdersSound' /\ OneWorkingOrder' /\ OverfillAccounted'
  BY <1>4, <1>5, PlacingKeeps
<1>7. /\ current' \in OrderIds /\ asked' \in 0 .. Notional /\ seen' \in 0 .. Notional
      /\ orders'[current'].requested = SizeFor(n) /\ orders'[current'].filled = filled
      /\ orders'[cycle].open = open
      /\ left \in Nat
  <2>1. current' \in OrderIds /\ asked' \in 0 .. Notional /\ seen' \in 0 .. Notional
    BY <1>4, <1>5, <1>6, LoopFields, LoopAssumption
  <2>2. left \in Nat
    BY <1>6, LoopAssumption DEF LeftOf
  <2> QED BY <1>5, <1>6, <2>1, <2>2
<1>8. PICK status \in StatusesOf(order) :
          IF status = "open" THEN NextCycle(left) ELSE Finalize(status, left)
  BY <1>5
<1>9. status \in Statuses /\ (open => status = "open")
  BY StatusTruthful
<1> HIDE DEF order, left
<1>10. CASE status = "open"
  <2>1. NextCycle(left)
    BY <1>8, <1>10
  <2>2. cycle \in Int /\ OrderIds \subseteq Int
    BY <1>4, LoopFields, LoopAssumption DEF OrderIds
  <2>3. current' <= cycle
    BY <1>5, <2>2
  <2>4. \A k \in OrderIds : k > cycle => orders'[k] = NoOrder
    <3>1. \A k \in OrderIds : k >= cycle => orders[k] = NoOrder
      BY <1>4 DEF LoopInv, LoopTracksOrder
    <3>2. \A k \in OrderIds : k > cycle => k >= cycle /\ k # cycle
      BY <2>2
    <3> QED BY <1>6, <3>1, <3>2
  <2>5. \A k \in OrderIds : orders'[k].open => k = current'
    BY <1>5, <1>6
  <2>6. seen' <= orders'[current'].filled
    BY <1>5, <1>6, <1>7, LoopAssumption
  <2>7. IF quantity > 0 THEN orders'[current'].requested = quantity
        ELSE orders'[current'].requested = asked'
    BY <1>5, <1>7 DEF SizeFor
  <2>8. booked' + Left(current)' <= Wanted + Excess'
    BY <1>6, <1>7 DEF Left
  <2> QED BY <1>4, <1>6, <1>7, <2>1, <2>3, <2>4, <2>5, <2>6, <2>7, <2>8, NextCycleKeeps
<1>11. CASE status # "open"
  <2>1. Finalize(status, left)
    BY <1>8, <1>11
  <2>2. \A k \in OrderIds : ~orders'[k].open
    BY <1>6, <1>7, <1>9, <1>11
  <2> QED BY <1>6, <1>7, <1>9, <2>1, <2>2, FinalizeKeeps
<1> QED BY <1>10, <1>11

\* A replacement nobody could read back ends the loop; nothing is claimed of it.
LEMMA ReplaceUnreadKeeps == LoopInv /\ ReplaceUnread => LoopInv'
<1> SUFFICES ASSUME LoopInv, ReplaceUnread PROVE LoopInv'
  OBVIOUS
<1> DEFINE Unread(n, filled) ==
               /\ Place([requested |-> SizeFor(n), filled |-> filled,
                         open |-> filled < SizeFor(n)])
               /\ asked' = n
               /\ Finalize("unknown", n)
<1>0. \E n \in ReplacementSizes : \E filled \in 0 .. SizeFor(n) : Unread(n, filled)
  BY DEF ReplaceUnread
<1> HIDE DEF Unread
<1>1. PICK n \in ReplacementSizes : \E filled \in 0 .. SizeFor(n) : Unread(n, filled)
  BY <1>0
<1>2. PICK filled \in 0 .. SizeFor(n) : Unread(n, filled)
  BY <1>1
<1>3. /\ pc = "replacing" /\ pc \in Working /\ current' = cycle /\ seen' = 0
      /\ quantity' = quantity
  BY DEF ReplaceUnread, Working
<1> DEFINE open == filled < SizeFor(n)
<1>4. /\ Place([requested |-> SizeFor(n), filled |-> filled, open |-> open])
      /\ asked' = n /\ Finalize("unknown", n)
  BY <1>2 DEF Unread
<1>5. open \in BOOLEAN
  OBVIOUS
<1> HIDE DEF open
<1>6. /\ orders' \in [OrderIds -> Order \cup {NoOrder}]
      /\ n \in 1 .. Notional /\ BooksKept
      /\ OrdersSound' /\ OneWorkingOrder' /\ OverfillAccounted'
  BY <1>3, <1>4, <1>5, PlacingKeeps
<1>7. /\ current' \in OrderIds /\ asked' \in 0 .. Notional /\ seen' \in 0 .. Notional
      /\ n \in Nat
  BY <1>3, <1>4, <1>6, LoopFields, LoopAssumption
<1> QED BY <1>4, <1>6, <1>7, FinalizeKeeps DEF Statuses

\* A call that failed leaves the exchange with sound orders, acted on or not.
LEMMA CallKeeps ==
    ASSUME LoopInv, pc \in Working, CallTakesEffect, UNCHANGED quantity
    PROVE  /\ orders' \in [OrderIds -> Order \cup {NoOrder}]
           /\ BooksKept
           /\ OrdersSound' /\ OneWorkingOrder' /\ OverfillAccounted'
<1>1. CASE UNCHANGED <<orders, books>>
  BY <1>1, IdleKeeps
<1>2. CASE Closed(current) /\ UNCHANGED books
  <2>1. current \in OrderIds
    BY LoopFields
  <2> QED BY <1>2, <2>1, ClosingKeeps
<1>3. CASE /\ pc = "replacing"
           /\ \E n \in ReplacementSizes :
                  Place([requested |-> SizeFor(n), filled |-> 0, open |-> TRUE])
  <2>1. PICK n \in ReplacementSizes :
            Place([requested |-> SizeFor(n), filled |-> 0, open |-> TRUE])
    BY <1>3
  <2>2. 0 \in 0 .. SizeFor(n)
    BY LoopFields, LoopAssumption DEF ReplacementSizes, SizeFor, LoopInv, TypeOK
  <2> QED BY <1>3, <2>1, <2>2, PlacingKeeps
<1> QED BY <1>1, <1>2, <1>3 DEF CallTakesEffect

\* An exception ends the loop; it says so, and claims nothing about the order.
LEMMA LifecycleErrorKeeps == LoopInv /\ LifecycleError => LoopInv'
<1> SUFFICES ASSUME LoopInv, LifecycleError PROVE LoopInv'
  OBVIOUS
<1>1. /\ pc \in Working /\ CallTakesEffect /\ Finalize("lifecycle_error", Remaining)
      /\ UNCHANGED <<quantity, current, asked, seen>>
  BY DEF LifecycleError
<1>2. /\ current' \in OrderIds /\ asked' \in 0 .. Notional /\ seen' \in 0 .. Notional
      /\ Remaining \in Nat
  BY <1>1, LoopFields
<1> QED BY <1>1, <1>2, CallKeeps, FinalizeKeeps DEF Statuses

\* A router that dies leaves its row active, and what was asked working.
LEMMA RouterRestartKeeps == LoopInv /\ RouterRestart => LoopInv'
<1> SUFFICES ASSUME LoopInv, RouterRestart PROVE LoopInv'
  OBVIOUS
<1>1. /\ pc \in Working /\ CallTakesEffect /\ pc' = "lost"
      /\ UNCHANGED <<quantity, cycle, current, asked, seen, row>>
  BY DEF RouterRestart
<1>2. TypeOK'
  BY <1>1, CallKeeps DEF LoopInv, TypeOK, BooksKept
<1>3. LoopTracksOrder' /\ LoopCountsFills'
  BY <1>1 DEF LoopTracksOrder, LoopCountsFills, Working
<1>4. FinalStatusTruthful'
  BY <1>1, LoopFields DEF FinalStatusTruthful
<1> QED BY <1>1, <1>2, <1>3, <1>4, CallKeeps DEF LoopInv

\* An order that ends at the exchange leaves less working, never more.
LEMMA EndKeeps ==
    ASSUME LoopInv, NEW j \in OrderIds, End(j)
    PROVE  LoopInv'
<1>1. Closed(j) /\ UNCHANGED <<quantity, pc, cycle, current, asked, seen, row, books>>
  BY DEF End, loopVars
<1>2. /\ orders' \in [OrderIds -> Order \cup {NoOrder}]
      /\ \A k \in OrderIds : /\ orders'[k].requested = orders[k].requested
                             /\ orders'[k].filled = orders[k].filled
                             /\ orders'[k].open => orders[k].open
                             /\ orders[k] = NoOrder => orders'[k] = NoOrder
      /\ BooksKept /\ Excess' = Excess
      /\ OrdersSound' /\ OneWorkingOrder' /\ OverfillAccounted'
  BY <1>1, ClosingKeeps
<1>3. TypeOK'
  BY <1>1, <1>2 DEF LoopInv, TypeOK, BooksKept
<1>4. LoopTracksOrder'
  BY <1>1, <1>2 DEF LoopInv, LoopTracksOrder
<1>5. LoopCountsFills'
  BY <1>1, <1>2 DEF LoopInv, TypeOK, LoopCountsFills, Left, BooksKept, books
<1>6. FinalStatusTruthful'
  BY <1>1, <1>2 DEF LoopInv, FinalStatusTruthful
<1> QED BY <1>2, <1>3, <1>4, <1>5, <1>6 DEF LoopInv

-----------------------------------------------------------------------------
\* The loop's books and the exchange agree through every step of either, and
\* through a crash of the router.
THEOREM LoopInvariant == Spec => []LoopInv
<1>1. LoopInv /\ [Next]_vars => LoopInv'
  <2> SUFFICES ASSUME LoopInv, [Next]_vars PROVE LoopInv'
    OBVIOUS
  <2>1. CASE LoopStep
    BY <2>1, QueryKeeps, KeepKeeps, DecideKeeps, CancelKeeps, CancelToReplaceKeeps,
       ReplaceKeeps, ReplaceUnreadKeeps, LifecycleErrorKeeps DEF LoopStep
  <2>2. CASE RouterRestart
    BY <2>2, RouterRestartKeeps
  <2>3. ASSUME NEW k \in OrderIds, NEW n \in 1 .. Notional, Fill(k, n) PROVE LoopInv'
    BY <2>3, FillKeeps
  <2>4. ASSUME NEW k \in OrderIds, End(k) PROVE LoopInv'
    BY <2>4, EndKeeps
  <2>5. CASE UNCHANGED vars
    BY <2>5 DEF vars, loopVars, books, LoopInv, TypeOK, OrdersSound, LoopTracksOrder,
       LoopCountsFills, Wanted, Excess, Left, OneWorkingOrder, OverfillAccounted, FinalStatusTruthful
  <2> QED BY <2>1, <2>2, <2>3, <2>4, <2>5 DEF Next
<1> QED BY LoopStart, <1>1, PTL DEF Spec

\* Every variable keeps its type; in particular the loop never runs past its
\* last cycle.
THEOREM LoopTypeCorrect == Spec => []TypeOK
  BY LoopInvariant, PTL DEF LoopInv

\* A decision never has two orders working at the exchange, whatever answers
\* are lost and wherever the router dies.
THEOREM LoopOneWorkingOrder == Spec => []OneWorkingOrder
  BY LoopInvariant, PTL DEF LoopInv

\* A decision is overfilled by what its replacements overlooked and, when its
\* caller named a quantity, by the fills they asked for again: by nothing else.
THEOREM LoopOverfillAccounted == Spec => []OverfillAccounted
  BY LoopInvariant, PTL DEF LoopInv

\* A decision reported as filled or cancelled leaves no order working.
THEOREM LoopFinalStatusTruthful == Spec => []FinalStatusTruthful
  BY LoopInvariant, PTL DEF LoopInv

\* A finalised decision is final: only the exchange still moves, and it opens
\* no order by itself.
THEOREM LoopFinalizedIsFinal == Spec => FinalizedIsFinal
<1> DEFINE Final == ~row.active =>
                        UNCHANGED row /\ \A k \in OrderIds : orders'[k].open => orders[k].open
<1>1. LoopInv /\ [Next]_vars => Final
  <2> SUFFICES ASSUME LoopInv, [Next]_vars, ~row.active
               PROVE  UNCHANGED row /\ \A k \in OrderIds : orders'[k].open => orders[k].open
    OBVIOUS
  <2>1. pc \notin Working
    BY DEF LoopInv, LoopTracksOrder
  <2>2. ~LoopStep /\ ~RouterRestart
    BY <2>1 DEF LoopStep, RouterRestart, Query, Keep, Amend, DecideToCancel, Cancel,
       CancelToReplace, Replace, ReplaceUnread, LifecycleError, Working
  <2>3. ASSUME NEW j \in OrderIds, NEW n \in 1 .. Notional, Fill(j, n)
        PROVE  UNCHANGED row /\ \A k \in OrderIds : orders'[k].open => orders[k].open
    <3>1. /\ orders' = [orders EXCEPT ![j].filled = @ + n, ![j].open = n < Left(j)]
          /\ orders[j].open /\ UNCHANGED row
      BY <2>3 DEF Fill
    <3>2. orders = [k \in OrderIds |-> orders[k]]
      BY DEF LoopInv, TypeOK
    <3>3. \A k \in OrderIds : k # j => orders'[k] = orders[k]
      BY <3>1, <3>2
    <3> QED BY <3>1, <3>3
  <2>4. ASSUME NEW j \in OrderIds, End(j)
        PROVE  UNCHANGED row /\ \A k \in OrderIds : orders'[k].open => orders[k].open
    BY <2>4, ClosingKeeps DEF End
  <2>5. CASE UNCHANGED vars
    BY <2>5 DEF vars
  <2> QED BY <2>2, <2>3, <2>4, <2>5 DEF Next
<1>2. LoopInv /\ [Next]_vars => [Final]_vars
  BY <1>1
<1> QED BY <1>2, LoopInvariant, PTL DEF Spec, FinalizedIsFinal

-----------------------------------------------------------------------------
(* The loop always gets on.                                                *)

\* How far a cycle of the loop has come: after its sleep come the query, the
\* cancel and the replacement.
Phase == [sleeping |-> 0, evaluating |-> 1, cancel |-> 2, cancel_replace |-> 2, replacing |-> 3]

\* Where a loop that ended stands: behind the last phase of the last cycle.
LastRank == 4 * MaxCycles + 4

\* How far the loop has come at a place in its c-th cycle.
RankAt(place, c) == IF place \in Working THEN 4 * c + Phase[place] ELSE LastRank

\* How far the loop has come.
Rank == RankAt(pc, cycle)

\* Every step of _run_execution_optimizer_live_loop takes it further, the death
\* of its process takes it to its end, and the exchange does not move it: no
\* answer, amend or replacement sends the loop back in its cycle or to an
\* earlier one.
LoopAdvances ==
    IF LoopStep \/ RouterRestart THEN Rank < Rank' ELSE Rank' = Rank

\* The rank of each place, and its range.
LEMMA RankOf ==
    ASSUME NEW c \in 1 .. MaxCycles, NEW place \in Working \cup {"done", "lost"}
    PROVE  /\ RankAt("sleeping", c) = 4 * c
           /\ RankAt("evaluating", c) = 4 * c + 1
           /\ RankAt("cancel", c) = 4 * c + 2 /\ RankAt("cancel_replace", c) = 4 * c + 2
           /\ RankAt("replacing", c) = 4 * c + 3
           /\ place \in Working =>
                  RankAt(place, c) \in 4 * c .. 4 * c + 3 /\ RankAt(place, c) < LastRank
           /\ place \notin Working => RankAt(place, c) = LastRank
           /\ RankAt(place, c) \in 0 .. LastRank
<1>1. c \in Nat /\ MaxCycles \in Nat /\ c <= MaxCycles /\ LastRank = 4 * MaxCycles + 4
  BY LoopAssumption DEF LastRank
<1>2. /\ Phase["sleeping"] = 0 /\ Phase["evaluating"] = 1 /\ Phase["cancel"] = 2
      /\ Phase["cancel_replace"] = 2 /\ Phase["replacing"] = 3
  BY DEF Phase
<1>3. /\ RankAt("sleeping", c) = 4 * c
      /\ RankAt("evaluating", c) = 4 * c + 1
      /\ RankAt("cancel", c) = 4 * c + 2 /\ RankAt("cancel_replace", c) = 4 * c + 2
      /\ RankAt("replacing", c) = 4 * c + 3
  BY <1>1, <1>2 DEF RankAt, Working
<1>4. CASE place \in Working
  <2>1. RankAt(place, c) \in {4 * c, 4 * c + 1, 4 * c + 2, 4 * c + 3}
    BY <1>3, <1>4 DEF Working
  <2>2. RankAt(place, c) \in 4 * c .. 4 * c + 3
    BY <1>1, <2>1
  <2> QED BY <1>1, <1>3, <1>4, <2>2
<1>5. CASE place \notin Working
  <2>1. RankAt(place, c) = LastRank
    BY <1>5 DEF RankAt
  <2> QED BY <1>1, <1>3, <1>5, <2>1
<1> QED BY <1>4, <1>5

\* Whatever ends the loop takes it to the last rank.
LEMMA FinalizeRaises ==
    ASSUME TypeOK, TypeOK', pc \in Working, pc' \in {"done", "lost"}
    PROVE  Rank < Rank'
<1>1. cycle \in 1 .. MaxCycles /\ cycle' \in 1 .. MaxCycles /\ pc' \notin Working
  BY DEF TypeOK, Working
<1>2. Rank < LastRank
  BY <1>1, RankOf DEF Rank
<1>3. Rank' = LastRank
  BY <1>1, RankOf DEF Rank
<1> QED BY <1>2, <1>3

\* A new cycle is beyond every place of the one before; so is the timeout.
LEMMA NextCycleRaises ==
    ASSUME TypeOK, TypeOK', NEW left, NextCycle(left), pc \in Working
    PROVE  Rank < Rank'
<1>1. cycle \in 1 .. MaxCycles /\ cycle' \in 1 .. MaxCycles /\ cycle \in Nat
  BY LoopAssumption DEF TypeOK
<1>2. CASE cycle = MaxCycles
  BY <1>2, FinalizeRaises DEF NextCycle, Finalize
<1>3. CASE cycle # MaxCycles
  <2>1. pc' = "sleeping" /\ cycle' = cycle + 1
    BY <1>3 DEF NextCycle
  <2>2. Rank' = 4 * (cycle + 1)
    BY <1>1, <2>1, RankOf DEF Rank
  <2>3. Rank \in 4 * cycle .. 4 * cycle + 3
    BY <1>1, RankOf DEF Rank
  <2> QED BY <1>1, <2>2, <2>3
<1> QED BY <1>2, <1>3

\* A step within a cycle goes on to a later place of it.
LEMMA PlaceRaises ==
    ASSUME TypeOK, UNCHANGED cycle,
           \/ pc = "sleeping" /\ pc' = "evaluating"
           \/ pc = "evaluating" /\ pc' \in {"cancel", "cancel_replace"}
           \/ pc = "cancel_replace" /\ pc' = "replacing"
    PROVE  Rank < Rank'
<1>1. cycle \in 1 .. MaxCycles /\ cycle' = cycle /\ cycle \in Nat
  BY LoopAssumption DEF TypeOK
<1>2. "done" \in Working \cup {"done", "lost"}
  OBVIOUS
<1>3. /\ RankAt("sleeping", cycle) = 4 * cycle
      /\ RankAt("evaluating", cycle) = 4 * cycle + 1
      /\ RankAt("cancel", cycle) = 4 * cycle + 2 /\ RankAt("cancel_replace", cycle) = 4 * cycle + 2
      /\ RankAt("replacing", cycle) = 4 * cycle + 3
  BY <1>1, <1>2, RankOf
<1> QED BY <1>1, <1>3 DEF Rank

\* Case by case: where each step of the loop leads.
LEMMA RankStep ==
    ASSUME TypeOK, TypeOK', [Next]_vars
    PROVE  LoopAdvances
<1>1. ASSUME LoopStep PROVE Rank < Rank'
  <2>1. CASE Query
    <3>1. pc = "sleeping" /\ pc \in Working
      BY <2>1 DEF Query, Working
    <3>2. (pc' = "evaluating" /\ UNCHANGED cycle) \/ pc' = "done"
      BY <2>1 DEF Query, Finalize
    <3> QED BY <3>1, <3>2, PlaceRaises, FinalizeRaises
  <2>2. CASE Keep
    BY <2>2, NextCycleRaises DEF Keep, Working
  <2>3. CASE Amend
    BY <2>3, NextCycleRaises, FinalizeRaises DEF Amend, Finalize, Working
  <2>4. CASE DecideToCancel \/ CancelToReplace
    BY <2>4, PlaceRaises DEF DecideToCancel, CancelToReplace
  <2>5. CASE Cancel
    BY <2>5, FinalizeRaises DEF Cancel, Finalize, Working
  <2>6. CASE Replace
    <3>1. pc \in Working /\ ((\E left : NextCycle(left)) \/ pc' = "done")
      BY <2>6 DEF Replace, Finalize, Working
    <3> QED BY <3>1, NextCycleRaises, FinalizeRaises
  <2>7. CASE ReplaceUnread
    BY <2>7, FinalizeRaises DEF ReplaceUnread, Finalize, Working
  <2>8. CASE LifecycleError
    BY <2>8, FinalizeRaises DEF LifecycleError, Finalize
  <2> QED BY <1>1, <2>1, <2>2, <2>3, <2>4, <2>5, <2>6, <2>7, <2>8 DEF LoopStep
<1>2. ASSUME RouterRestart PROVE Rank < Rank'
  BY <1>2, FinalizeRaises DEF RouterRestart
<1>3. ASSUME UNCHANGED loopVars PROVE Rank' = Rank
  BY <1>3 DEF loopVars, Rank
<1>4. [Next]_vars => LoopStep \/ RouterRestart \/ UNCHANGED loopVars
  BY DEF Next, Fill, End, vars
<1> QED BY <1>1, <1>2, <1>3, <1>4 DEF LoopAdvances

\* The loop comes to its end within 4 * MaxCycles + 4 steps of its own,
\* whatever the exchange answers and however often it replaces its order: what
\* LoopEnds asks for, but for the fairness of the scheduling of
\* _run_execution_optimizer_live_loop.
THEOREM LoopAlwaysAdvances == Spec => [](Rank \in 0 .. LastRank) /\ [][LoopAdvances]_vars
<1>1. TypeOK => Rank \in 0 .. LastRank
  BY RankOf DEF TypeOK, Rank
<1>2. TypeOK /\ TypeOK' /\ [Next]_vars => [LoopAdvances]_vars
  BY RankStep
<1> QED BY <1>1, <1>2, LoopTypeCorrect, PTL DEF Spec
=============================================================================
