--------------------------- MODULE BacktestTrading ---------------------------
(***************************************************************************)
(* One Portfolio trading through a BacktestingOrderManager.  The engine    *)
(* hands the portfolio one tick at a time; processing a tick               *)
(* (process_market_signals_for_tick) is a pipeline, and every loop of that *)
(* pipeline advances one order per step here:                              *)
(*                                                                         *)
(*   idle -> poll -> applyPolled -> strategy -> manual -> cancel ->        *)
(*   submit -> applySubmitted -> value -> idle                             *)
(*                                                                         *)
(* An exception of the portfolio ends the run: phase "raised".  Order ids  *)
(* are allocated in submission order, so the insertion order of the        *)
(* OrderManager's dictionaries is the order of the ids.                    *)
(***************************************************************************)
EXTENDS Orders

CONSTANTS
    OrderId,         \* ids the portfolio may use: 1..n; bounds the run
    InitialCash,
    MarketHoursOnly, \* the OrderManager fills only in regular market hours
    OrderMenu        \* orders an arbitrary strategy may ask for

ASSUME TradingAssumption ==
    /\ OrderId \subseteq Nat
    /\ Symbols # {}
    /\ InitialCash \in Nat
    /\ MarketHoursOnly \in BOOLEAN
    /\ OrderMenu \subseteq [kind : {"BUY", "SELL", "FIXED", "TRAILING"},
                            sym : Symbols, qty : Int, intended : BOOLEAN]

VARIABLES
    orders,    \* every order object, by id
    pending,   \* _pending_orders_by_id
    filled,    \* _filled_orders_by_id (the orders' own ids)
    exits,     \* brackets whose SOLD_ORDER is registered in _filled and _all
    pf,        \* the portfolio's cash and positions
    work,      \* the OrderManager's working snapshot
    phase,     \* where process_market_signals_for_tick is
    todo,      \* ids the current loop has not visited yet
    changed,   \* ids the current loop found changed
    bar,       \* close of every symbol on this tick, NoPrice without a bar
    open,      \* is the tick inside regular market hours
    lastPrice, \* previous_price
    plan       \* TickResults: manual sale and cancellation asked for

omVars == <<orders, pending, filled, exits>>
pfVars == <<pf, lastPrice>>
loopVars == <<work, todo, changed>>
tickVars == <<bar, open>>
vars == <<omVars, pfVars, loopVars, tickVars, phase, plan>>

Phase == {"idle", "poll", "applyPolled", "strategy", "manual", "cancel",
          "submit", "applySubmitted", "value", "raised"}

NoPlan == [manual |-> {}, cancel |-> {}]
Plan == [manual : SUBSET OrderId, cancel : SUBSET {"MARKET", "BRACKET"}]

IsFirst(i, S) == i \in S /\ \A j \in S : i <= j

Known == pending \cup filled \* keys of _all_orders that are not exit legs

UnusedOrder(s) == NewOrder("NONE", "BUY", s, 0)

EmptyAccount == [cash |-> InitialCash, held |-> {}, qty |-> [s \in Symbols |-> 0]]

Init ==
    /\ orders = [i \in OrderId |-> UnusedOrder(CHOOSE s \in Symbols : TRUE)]
    /\ pending = {} /\ filled = {} /\ exits = {}
    /\ pf = EmptyAccount
    /\ work = EmptyAccount
    /\ phase = "idle"
    /\ todo = {} /\ changed = {}
    /\ bar = [s \in Symbols |-> NoPrice]
    /\ open = TRUE
    /\ lastPrice = [s \in Symbols |-> NoPrice]
    /\ plan = NoPlan

-----------------------------------------------------------------------------
(* Moving orders between the OrderManager's dictionaries *)

IsTerminal(o) == o.status \in Terminal

BugRefileFilledOnly(S, os) ==
    LET over == {i \in S \cap pending : os[i].status = "FILLED"}
    IN  /\ pending' = pending \ over
        /\ filled' = filled \cup over
        /\ exits' = exits \cup {i \in over : os[i].type = "BRACKET"}

(* _update_all_order_lists / _update_order_lists over the ids in S, when    *)
(* the orders are os.                                                      *)
Refile(S, os) ==
    LET over == {i \in S \cap pending : IsTerminal(os[i])}
    IN  /\ pending' = pending \ over
        /\ filled' = filled \cup over
        /\ exits' = exits \cup {i \in over : /\ os[i].type = "BRACKET"
                                             /\ os[i].status = "FILLED"
                                             /\ os[i].sold # NoExit}

-----------------------------------------------------------------------------
(* A tick arrives: update_pending_orders starts from a clone of the        *)
(* portfolio's positions and cash.                                         *)
Tick(b, o) ==
    /\ phase = "idle"
    /\ \E s \in Symbols : b[s] # NoPrice
    /\ bar' = b /\ open' = o
    /\ work' = pf
    /\ todo' = pending /\ changed' = {}
    /\ phase' = "poll"
    /\ UNCHANGED <<omVars, pfVars, plan>>

(* One round of the loop in _update_orders_statuses_from_backend. *)
PollOrder(i) ==
    /\ phase = "poll" /\ IsFirst(i, todo)
    /\ LET o == PollBackend(orders[i], bar[orders[i].sym], open, work)
           moved == o.status # orders[i].status
       IN  /\ orders' = [orders EXCEPT ![i] = o]
           /\ todo' = todo \ {i}
           /\ changed' = IF moved THEN changed \cup {i} ELSE changed
           /\ work' = IF moved THEN ApplyToSnapshot(o, work) ELSE work
    /\ UNCHANGED <<pending, filled, exits, pfVars, tickVars, phase, plan>>

PollDone ==
    /\ phase = "poll" /\ todo = {}
    /\ Refile(pending, orders)
    /\ todo' = changed /\ changed' = {}
    /\ phase' = "applyPolled"
    /\ UNCHANGED <<orders, pfVars, work, tickVars, plan>>

-----------------------------------------------------------------------------
(* _update_pf_from_order.  Raises(o, a) is the exception it would throw.   *)

SellOf(o) == IF o.type = "BRACKET"
             THEN [qty |-> o.sold.qty, price |-> o.sold.price]
             ELSE [qty |-> o.qty, price |-> o.price]

Sells(o) == /\ o.status = "FILLED"
            /\ o.type = "BRACKET" \/ o.action = "SELL"

Buys(o) == \/ o.type = "MARKET" /\ o.status = "FILLED" /\ o.action = "BUY"
           \/ o.type = "BRACKET" /\ o.status = "PENDING_SALE"

Raises(o, a) ==
    \/ o.type = "MARKET" /\ o.status \notin Terminal
    \/ o.type = "BRACKET" /\ o.status \notin {"PENDING_SALE", "FILLED"}
    \/ Sells(o) /\ (o.sym \notin a.held \/ a.qty[o.sym] < SellOf(o).qty)

Applied(o, a) ==
    IF Buys(o) THEN Bought(a, o.sym, o.qty, o.price)
    ELSE IF Sells(o)
         THEN Sold(a, o.sym, SellOf(o).qty, SellOf(o).price,
                   a.qty[o.sym] = SellOf(o).qty)
         ELSE a

BugApplyOnce(i) ==
    LET o == orders[i]
    IN  IF o.done THEN UNCHANGED <<orders, pf>>
        ELSE /\ pf' = Applied(o, pf)
             /\ orders' = [orders EXCEPT ![i].done = TRUE]

(* A bracket keeps processed_by_portfolio = False: it is applied again when *)
(* it exits.                                                               *)
ApplyOrder(i) ==
    LET o == orders[i]
    IN  IF o.done THEN UNCHANGED <<orders, pf>>
        ELSE /\ pf' = Applied(o, pf)
             /\ orders' = [orders EXCEPT ![i].done = (o.type = "MARKET")]

ApplyPhase == phase \in {"applyPolled", "applySubmitted"}

Apply(i) ==
    /\ ApplyPhase /\ IsFirst(i, todo)
    /\ orders[i].done \/ ~Raises(orders[i], pf)
    /\ ApplyOrder(i)
    /\ todo' = todo \ {i}
    /\ UNCHANGED <<pending, filled, exits, lastPrice, work, changed, tickVars,
                   phase, plan>>

ApplyDone ==
    /\ ApplyPhase /\ todo = {}
    /\ phase' = IF phase = "applyPolled" THEN "strategy" ELSE "value"
    /\ UNCHANGED <<omVars, pfVars, loopVars, tickVars, plan>>

(* An exception leaves the rest of the list unapplied and ends the run. *)
ApplyRaises(i) ==
    /\ ApplyPhase /\ IsFirst(i, todo)
    /\ ~orders[i].done /\ Raises(orders[i], pf)
    /\ phase' = "raised"
    /\ UNCHANGED <<omVars, pfVars, loopVars, tickVars, plan>>

-----------------------------------------------------------------------------
(* The strategy (process_tick_market_signals_logic) returns TickResults.   *)

GetPrice(s) == IF bar[s] # NoPrice THEN bar[s] ELSE lastPrice[s]

Active(i) == /\ i \in pending /\ orders[i].type = "BRACKET"
             /\ orders[i].status \in {"PENDING", "PENDING_SALE"}

Unused == {i \in OrderId : orders[i].type = "NONE"}

(* Orders in `new` get the next ids and wait in todo to be submitted;      *)
(* zero-quantity orders never get that far.                                *)
RunStrategy(manual, cancel, new) ==
    LET sent == {k \in DOMAIN new : new[k].qty > 0}
    IN  /\ phase = "strategy"
        /\ \A k \in sent : k \in Unused
        /\ plan' = [manual |-> manual, cancel |-> cancel]
        /\ orders' = [i \in OrderId |-> IF i \in sent THEN new[i] ELSE orders[i]]
        /\ todo' = sent
        /\ phase' = "manual"
        /\ UNCHANGED <<pending, filled, exits, pfVars, work, changed, tickVars>>

(* create_configured_bracket_order, and the entry price a strategy records *)
(* in the order or leaves at 0.  The stop type is configuration, which     *)
(* reconfigure() may change any time.                                      *)
ConfiguredBracket(s, q, est, intended, trailing) ==
    IF trailing THEN TrailingBracket(s, q, est, intended, bar[s])
    ELSE FixedBracket(s, q, est, intended)

Requested(r) ==
    IF r.kind \in {"BUY", "SELL"} THEN MarketOrder(r.kind, r.sym, r.qty)
    ELSE ConfiguredBracket(r.sym, r.qty, GetPrice(r.sym),
                           IF r.intended THEN GetPrice(r.sym) ELSE 0,
                           r.kind = "TRAILING")

(* Any strategy: sell an active bracket or none, cancel a type or none,    *)
(* order up to two things from the menu.                                   *)
AnyStrategy ==
    \E manual \in {{}} \cup {{i} : i \in {j \in pending : Active(j)}},
       cancel \in {{}, {"MARKET"}, {"BRACKET"}},
       ids \in {S \in SUBSET Unused :
                    \A i \in S : \A j \in Unused : j < i => j \in S} :
       \E asked \in [ids -> {r \in OrderMenu : GetPrice(r.sym) # NoPrice}] :
            RunStrategy(manual, cancel, [i \in ids |-> Requested(asked[i])])

(* The base class sets MANUAL_SALE and refreshes that bracket against the  *)
(* portfolio's own account; a sale it sees is applied at once.             *)
ManualSale(i) ==
    /\ phase = "manual" /\ i \in plan.manual
    /\ LET asked == [orders[i] EXCEPT !.manual = TRUE]
           o == PollBackend(asked, bar[asked.sym], open, pf)
           sells == o.status = "FILLED" /\ ~o.done
       IN  /\ orders' = [orders EXCEPT ![i] = o]
           /\ Refile({i}, orders')
           /\ pf' = IF sells /\ ~Raises(o, pf) THEN Applied(o, pf) ELSE pf
           /\ phase' = IF sells /\ Raises(o, pf) THEN "raised" ELSE "manual"
           /\ plan' = [plan EXCEPT !.manual = @ \ {i}]
    /\ UNCHANGED <<lastPrice, loopVars, tickVars>>

ManualDone ==
    /\ phase = "manual" /\ plan.manual = {}
    /\ phase' = "cancel"
    /\ UNCHANGED <<omVars, pfVars, loopVars, tickVars, plan>>

BugCancelWith(ids, status) ==
    /\ phase = "cancel"
    /\ LET hit == {i \in ids : orders[i].type \in plan.cancel}
       IN  orders' = [i \in OrderId |->
               IF i \in hit THEN [orders[i] EXCEPT !.status = status]
               ELSE orders[i]]
    /\ Refile(pending, orders')
    /\ plan' = NoPlan
    /\ work' = pf /\ changed' = {}
    /\ phase' = "submit"
    /\ UNCHANGED <<pfVars, todo, tickVars>>

BugCancelKnown == BugCancelWith(Known, "CANCELED")
BugCancelMisspelt == BugCancelWith(pending, "CANCELLED")

(* cancel_all_pending_orders: every pending order of the type, filled      *)
(* entry or not.  Then submit_orders clones the portfolio's account.       *)
Cancel ==
    /\ phase = "cancel"
    /\ LET hit == {i \in pending : orders[i].type \in plan.cancel}
       IN  orders' = [i \in OrderId |->
               IF i \in hit THEN [orders[i] EXCEPT !.status = "CANCELED"]
               ELSE orders[i]]
    /\ Refile(pending, orders')
    /\ plan' = NoPlan
    /\ work' = pf /\ changed' = {}
    /\ phase' = "submit"
    /\ UNCHANGED <<pfVars, todo, tickVars>>

-----------------------------------------------------------------------------
(* One round of the loop in submit_orders, with submit_order inside. *)
SubmitOrder(i) ==
    /\ phase = "submit" /\ IsFirst(i, todo)
    /\ LET o == SubmitBackend(orders[i], bar[orders[i].sym], open, work)
       IN  /\ orders' = [orders EXCEPT ![i] = o]
           /\ IF IsTerminal(o)
              THEN filled' = filled \cup {i} /\ UNCHANGED pending
              ELSE pending' = pending \cup {i} /\ UNCHANGED filled
           /\ work' = ApplyToSnapshot(o, work)
           /\ todo' = todo \ {i}
           /\ changed' = IF o.status \in {"FILLED", "PENDING_SALE"}
                         THEN changed \cup {i} ELSE changed
    /\ UNCHANGED <<exits, pfVars, tickVars, phase, plan>>

BugForgetEntries ==
    /\ phase = "submit" /\ todo = {}
    /\ todo' = {i \in changed : orders[i].status = "FILLED"} /\ changed' = {}
    /\ phase' = "applySubmitted"
    /\ UNCHANGED <<omVars, pfVars, work, tickVars, plan>>

SubmitDone ==
    /\ phase = "submit" /\ todo = {}
    /\ todo' = changed /\ changed' = {}
    /\ phase' = "applySubmitted"
    /\ UNCHANGED <<omVars, pfVars, work, tickVars, plan>>

(* _update_pf_value: remember the closes, then price every position; a     *)
(* position that never had a price raises.  The tick is over.              *)
Value ==
    /\ phase = "value"
    /\ lastPrice' = [s \in Symbols |-> GetPrice(s)]
    /\ phase' = IF \A s \in pf.held : lastPrice'[s] # NoPrice
                THEN "idle" ELSE "raised"
    /\ bar' = [s \in Symbols |-> NoPrice] /\ open' = TRUE
    /\ work' = EmptyAccount
    /\ UNCHANGED <<omVars, pf, todo, changed, plan>>

-----------------------------------------------------------------------------
AnyTick ==
    \E b \in [Symbols -> Prices \cup {NoPrice}] :
        \E o \in (IF MarketHoursOnly THEN BOOLEAN ELSE {TRUE}) : Tick(b, o)

(* Everything but the strategy. *)
Machinery ==
    \/ AnyTick
    \/ PollDone \/ ApplyDone \/ ManualDone \/ Cancel \/ SubmitDone \/ Value
    \/ \E i \in OrderId : \/ PollOrder(i) \/ Apply(i) \/ ApplyRaises(i)
                          \/ ManualSale(i) \/ SubmitOrder(i)

Next == Machinery \/ AnyStrategy

Spec == Init /\ [][Next]_vars

-----------------------------------------------------------------------------
(* Properties *)

(* Every variable holds what its Python counterpart may hold. *)
TypeOK ==
    /\ orders \in [OrderId -> Order]
    /\ pending \in SUBSET OrderId /\ filled \in SUBSET OrderId
    /\ exits \in SUBSET OrderId
    /\ pf \in Account /\ work \in Account
    /\ phase \in Phase
    /\ todo \in SUBSET OrderId /\ changed \in SUBSET OrderId
    /\ bar \in [Symbols -> Prices \cup {NoPrice}] /\ open \in BOOLEAN
    /\ lastPrice \in [Symbols -> Prices \cup {NoPrice}]
    /\ plan \in Plan

(* The OrderManager's books: an order it was handed is in exactly one of   *)
(* pending and filled, whatever was filled, sold by hand or canceled in    *)
(* between; a terminal order is still pending only while the poll that     *)
(* found it runs; and the sale of a bracket is registered exactly when the *)
(* bracket has been sold (order_manager.py:275-336).                       *)
Books ==
    LET asked == phase \in {"manual", "cancel", "submit"}
    IN  /\ pending \cap filled = {}
        /\ phase # "raised" =>
              pending \cup filled = {i \in OrderId : orders[i].type # "NONE"}
                                    \ (IF asked THEN todo ELSE {})
        /\ \A i \in filled : IsTerminal(orders[i])
        /\ \A i \in pending : IsTerminal(orders[i]) => phase = "poll" /\ i \in changed
        /\ exits = {i \in filled : /\ orders[i].type = "BRACKET"
                                   /\ orders[i].status = "FILLED"}

(* The account against which the OrderManager fills the next order is the  *)
(* account the portfolio really has: once the portfolio has applied what   *)
(* the loop found, its cash and positions equal the working snapshot that  *)
(* the OrderManager threaded through the loop (order_manager.py:164-200    *)
(* against portfolio.py:326-478).                                          *)
SnapshotAgrees == phase \in {"strategy", "value"} => work = pf

(* A bracket whose strategy recorded the estimate it was priced around     *)
(* straddles its own fill, however long it waited for a bar and wherever   *)
(* the price went meanwhile: it is neither stopped out nor taken out at    *)
(* the price it was bought (backtesting_om.py:117-135).                    *)
StraddlesEntry ==
    \A i \in pending :
        (Active(i) /\ orders[i].status = "PENDING_SALE" /\ orders[i].intended > 0) =>
            /\ orders[i].price < orders[i].profit
            /\ ~orders[i].trailing => orders[i].stop < orders[i].price

(* Levels are rounded to the cent.  Rounding leaves the stop of a price    *)
(* below it and its target above it, also rescaled to any other price: it  *)
(* does so unless percentages and prices are a few cents apart.            *)
LevelsSurviveRounding ==
    \A p, q \in Prices : /\ p < 2 * q * (p - StopOf(p))
                         /\ p <= 2 * q * (ProfitOf(p) - p)

(* While a bracket waits for its exit its trailing stop only rises: no     *)
(* sequence of bars, manual-sale requests or gaps loosens it               *)
(* (classes.py:124-136).                                                   *)
TrailingOnlyTightens ==
    [][\A i \in OrderId :
          (/\ orders[i].trailing
           /\ orders[i].status = "PENDING_SALE"
           /\ orders'[i].status = "PENDING_SALE")
          => orders'[i].stop >= orders[i].stop]_orders

(* Seen from outside, every order walks the life cycle of order_manager.py:*)
(* it is unused until submit_order files it, and the refinement says that  *)
(* polling, selling by hand, canceling and submitting never move it back.  *)
StatusOf(i) == IF i \in Known THEN orders[i].status ELSE "UNUSED"

OrderStatus == [i \in OrderId |-> StatusOf(i)]

Lifecycle == INSTANCE OrderLifecycle WITH status <- OrderStatus

ImplementsLifecycle == Lifecycle!Spec
=============================================================================
