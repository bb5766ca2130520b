----------------------- MODULE ExecutionOptimizerLoop -----------------------
(***************************************************************************)
(* The router's live loop (_run_execution_optimizer_live_loop): it watches *)
(* one resting broker order, and every cycle keeps, amends, cancels or     *)
(* replaces it.  The loop is cut at its calls to the broker adapter:       *)
(*   sleeping        about to query the order                              *)
(*   evaluating      order open when queried, deciding what to do          *)
(*   cancel          cancelling it for good                                *)
(*   cancel_replace  cancelling it to make room for a smaller one          *)
(*   replacing       posting that one                                      *)
(*   done, lost      finalised, or gone with its process                   *)
(* The exchange is external: it fills and ends open orders whenever it     *)
(* likes, and an order whose cancel it acknowledged takes no more fills.   *)
(* The caller names a notional, and may name a quantity beside it: every   *)
(* order is then of that quantity, a replacement too, whatever notional it *)
(* names.  Both are whole units of one price; lot rounding is left out.    *)
(***************************************************************************)
EXTENDS Integers

CONSTANTS
    Notional,    \* the most a caller names, as notional_usd or as quantity
    MaxCycles,   \* desk_profile.max_lifecycle_cycles
    Dust,        \* remaining notional that counts as closed (1.0 in the code)
    Bybit        \* the provider: Bybit, which amends limit orders, or BingX

ASSUME LoopAssumption ==
    /\ Notional \in Nat \ {0}
    /\ MaxCycles \in Nat \ {0}
    /\ Dust \in Nat
    /\ Bybit \in BOOLEAN

VARIABLES
    orders,      \* the exchange's orders: 0 is the first, k the one of cycle k
    quantity,    \* live_context["quantity"], 0 when the caller named none
    pc, cycle,
    current,     \* current_order
    asked,       \* its requested_notional_usd
    seen,        \* state["filled_notional_usd"], as of the last answer
    row,         \* the row of execution_optimizer_active_orders
    booked,      \* history: everything the exchange ever filled
    overlooked,  \* history: fills of replaced orders after their last query
    repeated     \* history: fills seen that a replacement asked for again

loopVars == <<pc, cycle, current, asked, seen>>
books == <<booked, overlooked, repeated>>
vars == <<orders, quantity, loopVars, row, books>>

OrderIds == 0 .. MaxCycles
NoOrder == [requested |-> 0, filled |-> 0, open |-> FALSE]
Order == [requested : 1 .. Notional, filled : 0 .. Notional, open : BOOLEAN]

Working == {"sleeping", "evaluating", "cancel", "cancel_replace", "replacing"}

\* cancelled stands for every way an order ends unfilled, rejected included.
Statuses == {"open", "filled", "cancelled", "unknown", "lifecycle_error"}
Row == [active : BOOLEAN, status : Statuses, remaining : Nat]

TypeOK ==
    /\ orders \in [OrderIds -> Order \cup {NoOrder}]
    /\ pc \in Working \cup {"done", "lost"}
    /\ cycle \in 1 .. MaxCycles
    /\ current \in OrderIds
    /\ quantity \in 0 .. Notional
    /\ asked \in 0 .. Notional
    /\ seen \in 0 .. Notional
    /\ row \in Row
    /\ booked \in Nat /\ overlooked \in Nat /\ repeated \in Nat

\* _remaining_notional_usd, of current_order at the last answer.
LeftOf(request, filled) == IF filled < request THEN request - filled ELSE 0
Remaining == LeftOf(asked, seen)

\* place_routed_order starts the loop when its answer says the order is open.  A
\* quantity, and the notional beside it, may be any two amounts.
Init ==
    /\ \E size \in 1 .. Notional : \E filled \in 0 .. size - 1 :
           /\ orders = [k \in OrderIds |->
                  IF k = 0 THEN [requested |-> size, filled |-> filled, open |-> TRUE]
                  ELSE NoOrder]
           /\ \/ quantity = 0 /\ asked = size
              \/ quantity = size /\ asked \in 1 .. Notional
           /\ seen = filled /\ booked = filled
    /\ row = [active |-> TRUE, status |-> "open", remaining |-> Remaining]
    /\ pc = "sleeping" /\ cycle = 1 /\ current = 0
    /\ overlooked = 0 /\ repeated = 0

-----------------------------------------------------------------------------
Left(k) == orders[k].requested - orders[k].filled

\* What the adapter makes of the exchange's status.  _bybit_status takes an order
\* that ended partly filled (PARTIALLYFILLEDCANCELED, spot only) for an open one.
StatusesOf(order) ==
    IF order.open THEN {"open"}
    ELSE IF order.filled = order.requested THEN {"filled"}
    ELSE IF Bybit /\ order.filled > 0 THEN {"cancelled", "open"} ELSE {"cancelled"}

\* Faulty variant: a missing return after the finalisation.
FinalizeAndGoOn(status, left) ==
    /\ row' = [active |-> FALSE, status |-> status, remaining |-> left]
    /\ pc' = "sleeping"
    /\ UNCHANGED cycle

\* What goes into the row, and out of the router's memory, when a loop ends.
Finalize(status, left) ==
    /\ row' = [active |-> FALSE, status |-> status, remaining |-> left]
    /\ pc' = "done"
    /\ UNCHANGED cycle

CycleForever(left) == row' = [row EXCEPT !.remaining = left] /\ pc' = "sleeping" /\ UNCHANGED cycle

\* `continue`, or the loop's timeout: the order is left as it is.
NextCycle(left) ==
    IF cycle = MaxCycles
    THEN Finalize("open", left)
    ELSE /\ row' = [active |-> TRUE, status |-> "open", remaining |-> left]
         /\ pc' = "sleeping"
         /\ cycle' = cycle + 1

-----------------------------------------------------------------------------
Query ==
    /\ pc = "sleeping"
    /\ seen' = orders[current].filled
    /\ \E status \in StatusesOf(orders[current]) :
           IF status = "open" /\ LeftOf(asked, seen') > Dust
           THEN pc' = "evaluating" /\ UNCHANGED <<cycle, row>>
           ELSE Finalize(status, LeftOf(asked, seen'))
    /\ UNCHANGED <<orders, quantity, current, asked, books>>

\* decide_order_lifecycle: any of its actions, from any market.
Keep ==
    /\ pc = "evaluating"
    /\ NextCycle(Remaining)
    /\ UNCHANGED <<orders, quantity, current, asked, seen, books>>

\* An amend changes the price alone and answers with the order as it is now.
Amend ==
    /\ pc = "evaluating"
    /\ Bybit
    /\ seen' = orders[current].filled
    /\ \E status \in StatusesOf(orders[current]) :
           IF status = "open" THEN NextCycle(LeftOf(asked, seen'))
           ELSE Finalize(status, LeftOf(asked, seen'))
    /\ UNCHANGED <<orders, quantity, current, asked, books>>

DecideToCancel ==
    /\ pc = "evaluating"
    /\ pc' \in {"cancel", "cancel_replace"}
    /\ row' = [active |-> TRUE, status |-> "open", remaining |-> Remaining]
    /\ UNCHANGED <<orders, quantity, cycle, current, asked, seen, books>>

Closed(k) == orders' = [orders EXCEPT ![k].open = FALSE]

\* An acknowledged cancel that cannot be read back counts as cancelled.
AfterCancel == StatusesOf([orders[current] EXCEPT !.open = FALSE]) \cup {"cancelled"}

\* Faulty variant: reports the cancellation without waiting for its answer.
CancelUnacknowledged ==
    /\ pc = "cancel"
    /\ \E status \in AfterCancel : Finalize(status, Remaining)
    /\ UNCHANGED <<orders, quantity, current, asked, seen, books>>

\* The loop does not ask whether the acknowledged order was filled meanwhile.
Cancel ==
    /\ pc = "cancel"
    /\ Closed(current)
    /\ \E status \in AfterCancel : Finalize(status, Remaining)
    /\ UNCHANGED <<quantity, current, asked, seen, books>>

\* Faulty variant: the replacement goes out next to the order it replaces.
ReplaceWithoutCancel ==
    /\ pc = "cancel_replace"
    /\ pc' = "replacing"
    /\ UNCHANGED <<orders, quantity, cycle, current, asked, seen, row, books>>

CancelToReplace ==
    /\ pc = "cancel_replace"
    /\ Closed(current)
    /\ pc' = "replacing"
    /\ UNCHANGED <<quantity, cycle, current, asked, seen, row, books>>

OriginalSize == {orders[0].requested}   \* faulty variant: forgets what is filled

\* The notional of a replacement: what was left when last queried, scaled by 0.2
\* to 1.  Its size is that, unless live_context still holds a quantity.
ReplacementSizes == {n \in 1 .. Remaining : 5 * n >= Remaining}
SizeFor(n) == IF quantity > 0 THEN quantity ELSE n

\* What the exchange filled that the loop did not see, and what it saw.
Overlooked == orders[current].filled - seen
Repeated == IF quantity > 0 THEN seen ELSE 0

Place(order) ==
    /\ orders' = [orders EXCEPT ![cycle] = order]
    /\ booked' = booked + order.filled
    /\ overlooked' = overlooked + Overlooked
    /\ repeated' = repeated + Repeated

Replace ==
    /\ pc = "replacing"
    /\ \E n \in ReplacementSizes :
           \E filled \in 0 .. SizeFor(n) : \E open \in {FALSE, filled < SizeFor(n)} :
               LET order == [requested |-> SizeFor(n), filled |-> filled, open |-> open]
               IN  /\ Place(order)
                   /\ current' = cycle
                   /\ asked' = n /\ seen' = filled
                   /\ \E status \in StatusesOf(order) :
                          IF status = "open" THEN NextCycle(LeftOf(n, filled))
                          ELSE Finalize(status, LeftOf(n, filled))
    /\ UNCHANGED quantity

\* The exchange takes the replacement, but the adapter cannot read it back and
\* answers with an acknowledgement that has no status: not open, so the loop ends.
ReplaceUnread ==
    /\ pc = "replacing"
    /\ \E n \in ReplacementSizes : \E filled \in 0 .. SizeFor(n) :
           /\ Place([requested |-> SizeFor(n), filled |-> filled, open |-> filled < SizeFor(n)])
           /\ asked' = n
           /\ Finalize("unknown", n)
    /\ current' = cycle /\ seen' = 0
    /\ UNCHANGED quantity

\* A call may fail before or after the exchange has acted on it.
CallTakesEffect ==
    \/ UNCHANGED <<orders, books>>
    \/ /\ pc \in {"cancel", "cancel_replace"}
       /\ Closed(current)
       /\ UNCHANGED books
    \/ /\ pc = "replacing"
       /\ \E n \in ReplacementSizes :
              Place([requested |-> SizeFor(n), filled |-> 0, open |-> TRUE])

\* Any exception ends the loop, whatever it leaves at the exchange.
LifecycleError ==
    /\ pc \in Working
    /\ CallTakesEffect
    /\ Finalize("lifecycle_error", Remaining)
    /\ UNCHANGED <<quantity, current, asked, seen>>

\* Startup reads nothing back: the loop is gone and its row stays active.
RouterRestart ==
    /\ pc \in Working
    /\ CallTakesEffect
    /\ pc' = "lost"
    /\ UNCHANGED <<quantity, cycle, current, asked, seen, row>>

-----------------------------------------------------------------------------
(* The exchange.                                                           *)

Fill(k, n) ==
    /\ orders[k].open
    /\ n <= Left(k)
    /\ orders' = [orders EXCEPT ![k].filled = @ + n, ![k].open = n < Left(k)]
    /\ booked' = booked + n
    /\ UNCHANGED <<quantity, loopVars, row, overlooked, repeated>>

\* Expired, or ended by somebody at the exchange itself.
End(k) ==
    /\ orders[k].open
    /\ Closed(k)
    /\ UNCHANGED <<quantity, loopVars, row, books>>

LoopStep ==
    \/ Query \/ Keep \/ Amend \/ DecideToCancel
    \/ Cancel \/ CancelToReplace \/ Replace \/ ReplaceUnread \/ LifecycleError

Next ==
    \/ LoopStep
    \/ RouterRestart
    \/ \E k \in OrderIds : (\E n \in 1 .. Notional : Fill(k, n)) \/ End(k)

Spec == Init /\ [][Next]_vars

\* Every await of the loop is a sleep or a call with a timeout of 20 or 25
\* seconds, so it never stands still; the exchange owes nobody a fill.
FairSpec == Spec /\ WF_vars(LoopStep)

-----------------------------------------------------------------------------
(* Properties.                                                             *)

\* A decision never has two orders working at the exchange: not when answers
\* are lost, when fills race a cancel, nor when the router dies in the middle.
OneWorkingOrder ==
    \A j, k \in OrderIds : orders[j].open /\ orders[k].open => j = k

\* What was filled and what may still be filled stays within the first order's
\* size, but for two things the loop buys twice: what the exchange filled between
\* the last query of a replaced order and its cancel, which nobody looks at
\* (l.1202-1211), and, when the caller named a quantity, what the loop saw filled
\* and yet asks for again, because that quantity goes out unchanged (l.806-807).
OverfillAccounted ==
    \A k \in OrderIds : orders[k].open =>
        booked + Left(k) <= orders[0].requested + overlooked + repeated

\* A decision reported as filled or cancelled leaves nothing at the exchange; only
\* "open" (timeout, dust), "unknown" and "lifecycle_error" may hide a working order.
FinalStatusTruthful ==
    ~row.active /\ row.status \in {"filled", "cancelled"} =>
        \A k \in OrderIds : ~orders[k].open

\* A finalised decision is final: no later answer reopens its row and no new
\* order goes out for it.
FinalizedIsFinal ==
    [][~row.active => UNCHANGED row /\ \A k \in OrderIds : orders'[k].open => orders[k].open]_vars

\* Unless its process dies, the loop ends, and with it its entry in
\* ACTIVE_EXECUTION_ORDERS, however often it replaces its order.
LoopEnds == <>(pc \in {"done", "lost"})
=============================================================================
