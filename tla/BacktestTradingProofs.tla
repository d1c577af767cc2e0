------------------------ MODULE BacktestTradingProofs ------------------------
(***************************************************************************)
(* One portfolio through the backtesting OrderManager, for every set of    *)
(* symbols, prices and orders: the type invariant; the OrderManager's      *)
(* books; the life cycle of an order; the trailing stop; the working       *)
(* snapshot, which is the account the portfolio reaches; from it, that no  *)
(* position is short and that the account is overdrawn by                  *)
(* commissions only; the levels around the fill; and the ledger, which is  *)
(* what the executions add up to.  The lemmas about Machinery and          *)
(* RunStrategy are shared by every portfolio that trades over this         *)
(* pipeline.                                                               *)
(***************************************************************************)
EXTENDS BacktestLedger, OrdersProofs, FiniteSetTheorems, WellFoundedInduction

-----------------------------------------------------------------------------
(* Types of the operators *)

(* A bar, and the price the portfolio remembers, is a natural number.      *)
LEMMA PriceType ==
    ASSUME TypeOK, NEW s \in Symbols
    PROVE  bar[s] \in Nat /\ GetPrice(s) \in Nat
<1>1. Prices \cup {NoPrice} \subseteq Nat
  BY OrdersAssumption DEF NoPrice
<1>2. /\ bar \in [Symbols -> Prices \cup {NoPrice}]
      /\ lastPrice \in [Symbols -> Prices \cup {NoPrice}]
  BY DEF TypeOK
<1> QED
  BY <1>1, <1>2 DEF GetPrice

(* The account before the first tick is an account. *)
LEMMA EmptyAccountType == EmptyAccount \in Account
  BY TradingAssumption DEF EmptyAccount, Account

(* The portfolio's account stays an account when it applies an order. *)
LEMMA AppliedType ==
    ASSUME NEW o \in Order, NEW acc \in Account PROVE Applied(o, acc) \in Account
<1> DEFINE q == SellOf(o).qty
           px == SellOf(o).price
           closed == acc.qty[o.sym] = SellOf(o).qty
<1>1. /\ o.sym \in Symbols /\ o.qty \in Int /\ o.price \in Int
      /\ o.sold.qty \in Int /\ o.sold.price \in Int
  BY DEF Order, Exit
<1>2. q \in Int /\ px \in Int
  BY <1>1 DEF SellOf
<1>3. closed \in BOOLEAN
  OBVIOUS
<1>4. Bought(acc, o.sym, o.qty, o.price) \in Account
  BY <1>1, BoughtType
<1> HIDE DEF q, px, closed
<1>5. Sold(acc, o.sym, q, px, closed) \in Account
  BY <1>1, <1>2, <1>3, SoldType
<1> QED
  BY <1>4, <1>5 DEF Applied, q, px, closed

(* What a strategy asks for becomes an order. *)
LEMMA RequestedType ==
    ASSUME TypeOK, NEW r \in OrderMenu PROVE Requested(r) \in Order
<1>1. /\ r.kind \in {"BUY", "SELL", "FIXED", "TRAILING"}
      /\ r.sym \in Symbols /\ r.qty \in Int
  BY TradingAssumption
<1>2. GetPrice(r.sym) \in Nat /\ bar[r.sym] \in Nat
  BY <1>1, PriceType
<1> DEFINE est == GetPrice(r.sym)
           intended == IF r.intended THEN GetPrice(r.sym) ELSE 0
<1>3. intended \in Int
  BY <1>2
<1>4. est \in Nat
  BY <1>2
<1> HIDE DEF intended, est
<1>5. CASE r.kind \in {"BUY", "SELL"}
  <2>1. NewOrder("MARKET", r.kind, r.sym, r.qty) \in Order
    BY <1>1, <1>5, NewOrderType DEF OrderKind, Action
  <2> QED
    BY <1>5, <2>1 DEF Requested, MarketOrder
<1>6. CASE r.kind = "FIXED"
  <2>1. FixedBracket(r.sym, r.qty, est, intended) \in Order
    BY <1>1, <1>3, <1>4, FixedBracketType
  <2> QED
    BY <1>6, <2>1 DEF Requested, ConfiguredBracket, est, intended
<1>7. CASE r.kind = "TRAILING"
  <2>1. TrailingBracket(r.sym, r.qty, est, intended, bar[r.sym]) \in Order
    BY <1>1, <1>2, <1>3, <1>4, TrailingBracketType
  <2> QED
    BY <1>7, <2>1 DEF Requested, ConfiguredBracket, est, intended
<1> QED
  BY <1>1, <1>5, <1>6, <1>7

-----------------------------------------------------------------------------
(* The type invariant *)

(* A portfolio starts well typed. *)
LEMMA InitType == ASSUME Init PROVE TypeOK
<1>1. (CHOOSE s \in Symbols : TRUE) \in Symbols
  BY TradingAssumption
<1>2. UnusedOrder(CHOOSE s \in Symbols : TRUE) \in Order
  BY <1>1, NewOrderType DEF UnusedOrder, OrderKind, Action
<1>3. NoPlan \in Plan
  BY DEF NoPlan, Plan
<1> QED
  BY <1>2, <1>3, EmptyAccountType DEF Init, TypeOK, Phase

(* Replacing one order, or a set of orders, keeps the orders well typed.   *)
LEMMA OrdersUpdate ==
    ASSUME NEW os \in [OrderId -> Order], NEW i \in OrderId, NEW o \in Order
    PROVE  [os EXCEPT ![i] = o] \in [OrderId -> Order]
  OBVIOUS

(* Moving orders between the dictionaries keeps them sets of ids.          *)
LEMMA RefileType ==
    ASSUME TypeOK, NEW S, NEW os, Refile(S, os)
    PROVE  /\ pending' \in SUBSET OrderId /\ filled' \in SUBSET OrderId
           /\ exits' \in SUBSET OrderId
  BY DEF TypeOK, Refile

(* Whatever a strategy asks for, provided that what it creates are orders: *)
(* the step is shared by every strategy of the project.                    *)
LEMMA RunStrategyType ==
    ASSUME TypeOK, NEW manual \in SUBSET OrderId,
           NEW cancel \in SUBSET {"MARKET", "BRACKET"},
           NEW new, DOMAIN new \subseteq OrderId,
           \A k \in DOMAIN new : new[k] \in Order,
           RunStrategy(manual, cancel, new)
    PROVE  TypeOK'
<1> DEFINE sent == {k \in DOMAIN new : new[k].qty > 0}
<1>1. sent \in SUBSET OrderId /\ \A k \in sent : new[k] \in Order
  OBVIOUS
<1>2. /\ plan' = [manual |-> manual, cancel |-> cancel]
      /\ orders' = [i \in OrderId |-> IF i \in sent THEN new[i] ELSE orders[i]]
      /\ todo' = sent /\ phase' = "manual"
      /\ UNCHANGED <<pending, filled, exits, pf, lastPrice, work, changed, bar, open>>
  BY DEF RunStrategy, pfVars, tickVars
<1> HIDE DEF sent
<1>3. plan' \in Plan
  BY <1>2 DEF Plan
<1>4. orders' \in [OrderId -> Order]
  BY <1>1, <1>2 DEF TypeOK
<1> QED
  BY <1>1, <1>2, <1>3, <1>4 DEF TypeOK, Phase

(* Every step of the machinery keeps the state well typed. *)
LEMMA MachineryType == ASSUME TypeOK, Machinery PROVE TypeOK'
<1>1. CASE AnyTick
  <2>1. PICK b \in [Symbols -> Prices \cup {NoPrice}], o \in BOOLEAN : Tick(b, o)
    BY <1>1 DEF AnyTick
  <2> QED
    BY <2>1 DEF TypeOK, Tick, Phase, omVars, pfVars
<1>2. CASE PollDone
  BY <1>2, RefileType DEF TypeOK, PollDone, Phase, pfVars, tickVars
<1>3. CASE ApplyDone
  BY <1>3 DEF TypeOK, ApplyDone, Phase, omVars, pfVars, loopVars, tickVars
<1>4. CASE ManualDone
  BY <1>4 DEF TypeOK, ManualDone, Phase, omVars, pfVars, loopVars, tickVars
<1>5. CASE Cancel
  <2> DEFINE hit == {i \in pending : orders[i].type \in plan.cancel}
  <2>1. /\ orders' = [i \in OrderId |->
               IF i \in hit THEN [orders[i] EXCEPT !.status = "CANCELED"]
               ELSE orders[i]]
        /\ Refile(pending, orders')
        /\ plan' = NoPlan /\ work' = pf /\ changed' = {} /\ phase' = "submit"
        /\ UNCHANGED <<pf, lastPrice, todo, bar, open>>
    BY <1>5 DEF Cancel, pfVars, tickVars
  <2> HIDE DEF hit
  <2>2. \A i \in OrderId : [orders[i] EXCEPT !.status = "CANCELED"] \in Order
    BY FieldUpdate, Zenon DEF TypeOK, Status
  <2>3. orders' \in [OrderId -> Order]
    BY <2>1, <2>2 DEF TypeOK
  <2>4. NoPlan \in Plan
    BY DEF NoPlan, Plan
  <2> QED
    BY <2>1, <2>3, <2>4, RefileType DEF TypeOK, Phase
<1>6. CASE SubmitDone
  BY <1>6 DEF TypeOK, SubmitDone, Phase, omVars, pfVars, tickVars
<1>7. CASE Value
  <2>1. lastPrice' \in [Symbols -> Prices \cup {NoPrice}]
    BY <1>7 DEF TypeOK, Value, GetPrice
  <2> QED
    BY <1>7, <2>1, EmptyAccountType DEF TypeOK, Value, Phase, omVars
<1>8. ASSUME NEW i \in OrderId, PollOrder(i) PROVE TypeOK'
  <2> DEFINE o == PollBackend(orders[i], bar[orders[i].sym], open, work)
  <2>1. orders[i] \in Order /\ orders[i].sym \in Symbols
        /\ work \in Account /\ open \in BOOLEAN
    BY DEF TypeOK, Order
  <2>2. o \in Order
    BY <2>1, PriceType, PollBackendType
  <2>3. ApplyToSnapshot(o, work) \in Account
    BY <2>1, <2>2, SnapshotType
  <2> HIDE DEF o
  <2>4. /\ orders' = [orders EXCEPT ![i] = o]
        /\ todo' = todo \ {i}
        /\ changed' \in {changed, changed \cup {i}}
        /\ work' \in {work, ApplyToSnapshot(o, work)}
        /\ UNCHANGED <<pending, filled, exits, pf, lastPrice, bar, open, phase, plan>>
    BY <1>8 DEF PollOrder, o, pfVars, tickVars
  <2> QED
    BY <2>2, <2>3, <2>4 DEF TypeOK
<1>9. ASSUME NEW i \in OrderId, Apply(i) PROVE TypeOK'
  <2>1. orders[i] \in Order /\ pf \in Account
    BY DEF TypeOK
  <2>2. Applied(orders[i], pf) \in Account
    BY <2>1, AppliedType
  <2>3. [orders[i] EXCEPT !.done = (orders[i].type = "MARKET")] \in Order
    BY <2>1 DEF Order
  <2>4. orders' \in [OrderId -> Order]
    BY <1>9, <2>3 DEF Apply, ApplyOrder, TypeOK
  <2>5. pf' \in Account
    BY <1>9, <2>1, <2>2 DEF Apply, ApplyOrder
  <2>6. /\ todo' = todo \ {i}
        /\ UNCHANGED <<pending, filled, exits, lastPrice, work, changed, bar,
                       open, phase, plan>>
    BY <1>9 DEF Apply, tickVars
  <2> QED
    BY <2>4, <2>5, <2>6 DEF TypeOK
<1>10. ASSUME NEW i \in OrderId, ApplyRaises(i) PROVE TypeOK'
  BY <1>10 DEF TypeOK, ApplyRaises, Phase, omVars, pfVars, loopVars, tickVars
<1>11. ASSUME NEW i \in OrderId, ManualSale(i) PROVE TypeOK'
  <2> DEFINE asked == [orders[i] EXCEPT !.manual = TRUE]
             o == PollBackend(asked, bar[asked.sym], open, pf)
  <2>1. orders[i] \in Order /\ pf \in Account /\ open \in BOOLEAN
    BY DEF TypeOK
  <2>2. asked \in Order
    BY <2>1, FieldUpdate, Zenon
  <2> HIDE DEF asked
  <2>3. asked.sym \in Symbols
    BY <2>2 DEF Order
  <2>4. o \in Order
    BY <2>1, <2>2, <2>3, PriceType, PollBackendType
  <2>5. Applied(o, pf) \in Account
    BY <2>1, <2>4, AppliedType
  <2> HIDE DEF o
  <2>6. /\ orders' = [orders EXCEPT ![i] = o]
        /\ Refile({i}, orders')
        /\ pf' \in {pf, Applied(o, pf)}
        /\ phase' \in {"raised", "manual"}
        /\ plan' = [plan EXCEPT !.manual = @ \ {i}]
        /\ UNCHANGED <<lastPrice, work, todo, changed, bar, open>>
    BY <1>11 DEF ManualSale, asked, o, loopVars, tickVars
  <2>7. plan' \in Plan
    BY <2>6 DEF TypeOK, Plan
  <2> QED
    BY <2>1, <2>4, <2>5, <2>6, <2>7, RefileType DEF TypeOK, Phase
<1>12. ASSUME NEW i \in OrderId, SubmitOrder(i) PROVE TypeOK'
  <2> DEFINE o == SubmitBackend(orders[i], bar[orders[i].sym], open, work)
  <2>1. orders[i] \in Order /\ orders[i].sym \in Symbols
        /\ work \in Account /\ open \in BOOLEAN
    BY DEF TypeOK, Order
  <2>2. o \in Order
    BY <2>1, PriceType, SubmitBackendType
  <2>3. ApplyToSnapshot(o, work) \in Account
    BY <2>1, <2>2, SnapshotType
  <2> HIDE DEF o
  <2>4. /\ orders' = [orders EXCEPT ![i] = o]
        /\ filled' \in {filled, filled \cup {i}}
        /\ pending' \in {pending, pending \cup {i}}
        /\ todo' = todo \ {i}
        /\ changed' \in {changed, changed \cup {i}}
        /\ work' = ApplyToSnapshot(o, work)
        /\ UNCHANGED <<exits, pf, lastPrice, bar, open, phase, plan>>
    BY <1>12 DEF SubmitOrder, o, pfVars, tickVars
  <2> QED
    BY <2>2, <2>3, <2>4 DEF TypeOK
<1> QED
  BY <1>1, <1>2, <1>3, <1>4, <1>5, <1>6, <1>7, <1>8, <1>9, <1>10, <1>11, <1>12
  DEF Machinery

(* So does the step of a strategy that asks for anything on the menu. *)
LEMMA AnyStrategyType == ASSUME TypeOK, AnyStrategy PROVE TypeOK'
<1>1. PICK manual \in {{}} \cup {{i} : i \in {j \in pending : Active(j)}},
           cancel \in {{}, {"MARKET"}, {"BRACKET"}},
           ids \in SUBSET Unused :
           \E asked \in [ids -> {r \in OrderMenu : GetPrice(r.sym) # NoPrice}] :
              RunStrategy(manual, cancel, [i \in ids |-> Requested(asked[i])])
  BY DEF AnyStrategy
<1>2. PICK asked \in [ids -> {r \in OrderMenu : GetPrice(r.sym) # NoPrice}] :
              RunStrategy(manual, cancel, [i \in ids |-> Requested(asked[i])])
  BY <1>1
<1>3. ids \subseteq OrderId
  BY DEF Unused
<1>4. manual \in SUBSET OrderId
  BY DEF TypeOK
<1>5. \A i \in ids : Requested(asked[i]) \in Order
  BY <1>2, RequestedType
<1> DEFINE new == [i \in ids |-> Requested(asked[i])]
<1>6. DOMAIN new \subseteq OrderId /\ \A k \in DOMAIN new : new[k] \in Order
  BY <1>3, <1>5
<1>7. cancel \in SUBSET {"MARKET", "BRACKET"}
  OBVIOUS
<1> HIDE DEF new
<1>8. RunStrategy(manual, cancel, new)
  BY <1>2 DEF new
<1> QED
  BY <1>4, <1>6, <1>7, <1>8, RunStrategyType

(* Every variable holds what its Python counterpart may hold, whatever the *)
(* stream, the broker and the strategy do, in the order they do it.        *)
THEOREM TypeCorrect == Spec => []TypeOK
<1>1. ASSUME TypeOK, [Next]_vars PROVE TypeOK'
  <2>1. CASE Next
    BY <1>1, <2>1, MachineryType, AnyStrategyType DEF Next
  <2>2. CASE UNCHANGED vars
    BY <1>1, <2>2 DEF TypeOK, vars, omVars, pfVars, loopVars, tickVars
  <2> QED
    BY <1>1, <2>1, <2>2
<1> QED
  BY <1>1, InitType, PTL DEF Spec

-----------------------------------------------------------------------------
(* The books of the OrderManager *)

(* What Books needs to be inductive.  The loops of a tick visit an order   *)
(* once, and while it is where they expect it: polling sees an order that  *)
(* is pending and not over yet, submitting sees an order that nobody has   *)
(* filed, and the manual sale a bracket that is pending.                   *)
Filing ==
    /\ phase = "poll" => changed \subseteq pending /\ todo \subseteq pending \ changed
    /\ phase \in {"manual", "cancel", "submit"} =>
          \A i \in todo : /\ i \notin Known
                          /\ orders[i].type # "NONE"
                          /\ orders[i].status = "PENDING"
    /\ phase = "manual" => plan.manual \subseteq pending
    /\ \A i \in OrderId :
          (orders[i].type = "BRACKET" /\ orders[i].status = "FILLED")
             => orders[i].sold # NoExit

BooksInv == TypeOK /\ Books /\ Filing

(* A portfolio starts with empty books. *)
LEMMA InitBooks == ASSUME Init PROVE Books /\ Filing
  BY InitType DEF Init, Books, Filing, UnusedOrder, NewOrder

(* Refiling, when the orders of a set of pending ids have changed, keeps   *)
(* the books: what is over moves, and the rest is still waiting.           *)
LEMMA RefileKeeps ==
    ASSUME NEW S, NEW os, Refile(S, os), pending \cap filled = {},
           \A i \in filled : IsTerminal(os[i]),
           \A i \in pending \ S : ~IsTerminal(os[i]),
           \A i \in S : (os[i].type = "BRACKET" /\ os[i].status = "FILLED")
                            => os[i].sold # NoExit,
           exits = {i \in filled : os[i].type = "BRACKET" /\ os[i].status = "FILLED"}
    PROVE  /\ pending' \cap filled' = {}
           /\ pending' \cup filled' = pending \cup filled
           /\ pending' \subseteq pending
           /\ \A i \in filled' : IsTerminal(os[i])
           /\ \A i \in pending' : ~IsTerminal(os[i])
           /\ exits' = {i \in filled' : /\ os[i].type = "BRACKET"
                                        /\ os[i].status = "FILLED"}
<1> DEFINE over == {i \in S \cap pending : IsTerminal(os[i])}
<1>1. /\ pending' = pending \ over /\ filled' = filled \cup over
      /\ exits' = exits \cup {i \in over : /\ os[i].type = "BRACKET"
                                           /\ os[i].status = "FILLED"
                                           /\ os[i].sold # NoExit}
  BY DEF Refile
<1>2. \A i \in over : i \in S /\ i \in pending /\ IsTerminal(os[i])
  OBVIOUS
<1>3. \A i \in pending \ over : ~IsTerminal(os[i])
  OBVIOUS
<1> HIDE DEF over, IsTerminal
<1>4. exits' = {i \in filled' : os[i].type = "BRACKET" /\ os[i].status = "FILLED"}
  BY <1>1, <1>2
<1> QED
  BY <1>1, <1>2, <1>3, <1>4

(* A strategy hands over orders that are new and waiting, so that nothing  *)
(* the books know is touched.  Shared by every strategy of the project.    *)
LEMMA RunStrategyBooks ==
    ASSUME BooksInv, NEW manual \in SUBSET pending, NEW cancel,
           NEW new, DOMAIN new \subseteq OrderId,
           \A k \in DOMAIN new : new[k].type # "NONE" /\ new[k].status = "PENDING",
           RunStrategy(manual, cancel, new)
    PROVE  Books' /\ Filing'
<1> DEFINE sent == {k \in DOMAIN new : new[k].qty > 0}
<1>1. /\ phase = "strategy" /\ phase' = "manual"
      /\ plan' = [manual |-> manual, cancel |-> cancel]
      /\ orders' = [i \in OrderId |-> IF i \in sent THEN new[i] ELSE orders[i]]
      /\ todo' = sent /\ sent \subseteq Unused
      /\ UNCHANGED <<pending, filled, exits>>
  BY DEF RunStrategy
<1>2. /\ sent \subseteq OrderId
      /\ \A k \in sent : new[k].type # "NONE" /\ new[k].status = "PENDING"
  OBVIOUS
<1> HIDE DEF sent
<1>3. /\ pending \cap filled = {}
      /\ pending \cup filled = {i \in OrderId : orders[i].type # "NONE"}
      /\ \A i \in filled : IsTerminal(orders[i])
      /\ \A i \in pending : ~IsTerminal(orders[i])
      /\ exits = {i \in filled : orders[i].type = "BRACKET" /\ orders[i].status = "FILLED"}
      /\ \A i \in OrderId :
            (orders[i].type = "BRACKET" /\ orders[i].status = "FILLED")
               => orders[i].sold # NoExit
  BY <1>1 DEF BooksInv, Books, Filing
<1>4. \A i \in sent : i \notin Known
  BY <1>1, <1>3 DEF Unused, Known
<1>5. \A i \in Known : orders'[i] = orders[i]
  BY <1>1, <1>3, <1>4 DEF Known
<1>6. {i \in OrderId : orders'[i].type # "NONE"} \ todo' = pending \cup filled
  BY <1>1, <1>2, <1>3, <1>4, <1>5 DEF Known
<1>7. Books'
  BY <1>1, <1>3, <1>5, <1>6 DEF Books, Known, IsTerminal
<1>8. Filing'
  BY <1>1, <1>2, <1>3, <1>4 DEF Filing, Known
<1> QED
  BY <1>7, <1>8

(* Every step of the machinery keeps the books. *)
LEMMA MachineryBooks == ASSUME BooksInv, Machinery PROVE Books' /\ Filing'
<1> USE DEF BooksInv
<1>0. /\ pending \cap filled = {}
      /\ \A i \in filled : IsTerminal(orders[i])
      /\ exits = {i \in filled : orders[i].type = "BRACKET" /\ orders[i].status = "FILLED"}
      /\ \A i \in OrderId :
            (orders[i].type = "BRACKET" /\ orders[i].status = "FILLED")
               => orders[i].sold # NoExit
      /\ pending \subseteq OrderId /\ filled \subseteq OrderId
      /\ \A i \in OrderId : orders[i] \in Order
  BY DEF Books, Filing, TypeOK
<1>1. CASE AnyTick
  <2>1. PICK b, o : Tick(b, o)
    BY <1>1 DEF AnyTick
  <2>2. /\ phase = "idle" /\ phase' = "poll" /\ todo' = pending /\ changed' = {}
        /\ UNCHANGED <<orders, pending, filled, exits>>
    BY <2>1 DEF Tick, omVars
  <2> QED
    BY <1>0, <2>2 DEF Books, Filing, Known
<1>2. CASE PollDone
  <2>1. /\ phase = "poll" /\ phase' = "applyPolled" /\ Refile(pending, orders)
        /\ UNCHANGED orders
    BY <1>2 DEF PollDone
  <2>2. pending \cup filled = {i \in OrderId : orders[i].type # "NONE"}
    BY <2>1 DEF Books
  <2>3. /\ pending' \cap filled' = {}
        /\ pending' \cup filled' = pending \cup filled
        /\ \A i \in filled' : IsTerminal(orders[i])
        /\ \A i \in pending' : ~IsTerminal(orders[i])
        /\ exits' = {i \in filled' : /\ orders[i].type = "BRACKET"
                                     /\ orders[i].status = "FILLED"}
    BY <1>0, <2>1, RefileKeeps
  <2> QED
    BY <1>0, <2>1, <2>2, <2>3 DEF Books, Filing, IsTerminal
<1>3. CASE ApplyDone
  <2>1. /\ phase \in {"applyPolled", "applySubmitted"} /\ phase' \in {"strategy", "value"}
        /\ todo = {} /\ UNCHANGED <<orders, pending, filled, exits, todo, changed, plan>>
    BY <1>3 DEF ApplyDone, ApplyPhase, omVars, loopVars
  <2> QED
    BY <1>0, <2>1 DEF Books, Filing
<1>4. CASE ManualDone
  <2>1. /\ phase = "manual" /\ phase' = "cancel"
        /\ UNCHANGED <<orders, pending, filled, exits, todo, changed, plan>>
    BY <1>4 DEF ManualDone, omVars, loopVars
  <2> QED
    BY <1>0, <2>1 DEF Books, Filing, Known
<1>5. CASE Cancel
  <2> DEFINE hit == {i \in pending : orders[i].type \in plan.cancel}
  <2>1. /\ phase = "cancel" /\ phase' = "submit"
        /\ orders' = [i \in OrderId |->
               IF i \in hit THEN [orders[i] EXCEPT !.status = "CANCELED"]
               ELSE orders[i]]
        /\ Refile(pending, orders') /\ UNCHANGED todo
    BY <1>5 DEF Cancel
  <2>2. hit \subseteq pending
    OBVIOUS
  <2> HIDE DEF hit
  <2>3. \A i \in OrderId : /\ orders'[i].type = orders[i].type
                           /\ orders'[i].status \in {orders[i].status, "CANCELED"}
                           /\ orders'[i].sold = orders[i].sold
                           /\ i \notin pending => orders'[i] = orders[i]
    <3>1. \A o \in Order : LET c == [o EXCEPT !.status = "CANCELED"]
                           IN  c.type = o.type /\ c.status = "CANCELED" /\ c.sold = o.sold
      BY DEF Order
    <3> QED
      BY <1>0, <2>1, <2>2, <3>1
  <2>4. /\ \A i \in filled : IsTerminal(orders'[i])
        /\ \A i \in pending : (orders'[i].type = "BRACKET" /\ orders'[i].status = "FILLED")
                                 => orders'[i].sold # NoExit
        /\ exits = {i \in filled : orders'[i].type = "BRACKET" /\ orders'[i].status = "FILLED"}
    <3>1. \A i \in filled : orders'[i] = orders[i]
      BY <1>0, <2>3
    <3> QED
      BY <1>0, <2>3, <3>1
  <2>5. /\ pending' \cap filled' = {}
        /\ pending' \cup filled' = pending \cup filled
        /\ \A i \in filled' : IsTerminal(orders'[i])
        /\ \A i \in pending' : ~IsTerminal(orders'[i])
        /\ exits' = {i \in filled' : /\ orders'[i].type = "BRACKET"
                                     /\ orders'[i].status = "FILLED"}
    <3>1. PICK os : os = orders'
      OBVIOUS
    <3>2. Refile(pending, os)
      BY <2>1, <3>1 DEF Refile
    <3> QED
      BY <1>0, <2>4, <3>1, <3>2, RefileKeeps
  <2>6. pending \cup filled = {i \in OrderId : orders[i].type # "NONE"} \ todo
    BY <2>1 DEF Books
  <2>7. \A i \in todo : i \notin Known /\ orders[i].type # "NONE" /\ orders[i].status = "PENDING"
    BY <2>1 DEF Filing
  <2>8. Books'
    <3>1. {i \in OrderId : orders'[i].type # "NONE"} = {i \in OrderId : orders[i].type # "NONE"}
      BY <2>3
    <3> QED
      BY <2>1, <2>5, <2>6, <3>1 DEF Books, IsTerminal
  <2>9. Filing'
    <3>1. \A i \in todo : i \in OrderId /\ i \notin pending
      BY <2>7 DEF Known, TypeOK
    <3>2. \A i \in todo : orders'[i] = orders[i]
      BY <2>3, <3>1
    <3>3. \A i \in OrderId : (orders'[i].type = "BRACKET" /\ orders'[i].status = "FILLED")
                                => orders'[i].sold # NoExit
      BY <1>0, <2>3
    <3> QED
      BY <2>1, <2>5, <2>7, <3>2, <3>3 DEF Filing, Known
  <2> QED
    BY <2>8, <2>9
<1>6. CASE SubmitDone
  <2>1. /\ phase = "submit" /\ phase' = "applySubmitted" /\ todo = {}
        /\ UNCHANGED <<orders, pending, filled, exits>>
    BY <1>6 DEF SubmitDone, omVars
  <2> QED
    BY <1>0, <2>1 DEF Books, Filing
<1>7. CASE Value
  <2>1. /\ phase = "value" /\ phase' \in {"idle", "raised"}
        /\ UNCHANGED <<orders, pending, filled, exits, todo, changed, plan>>
    BY <1>7 DEF Value, omVars
  <2> QED
    BY <1>0, <2>1 DEF Books, Filing
<1>8. ASSUME NEW i \in OrderId, PollOrder(i) PROVE Books' /\ Filing'
  <2> DEFINE r == PollBackend(orders[i], bar[orders[i].sym], open, work)
  <2>1. /\ phase = "poll" /\ i \in todo
        /\ orders' = [orders EXCEPT ![i] = r]
        /\ todo' = todo \ {i}
        /\ changed' = IF r.status # orders[i].status THEN changed \cup {i} ELSE changed
        /\ UNCHANGED <<pending, filled, exits, phase, plan>>
    BY <1>8 DEF PollOrder, IsFirst, pfVars, tickVars
  <2>2. i \in pending /\ i \notin changed /\ i \notin filled
    BY <1>0, <2>1 DEF Filing
  <2>3. orders[i].type \in {"MARKET", "BRACKET"} /\ orders[i].status \notin Terminal
    <3>1. orders[i].type # "NONE" /\ ~IsTerminal(orders[i])
      BY <2>1, <2>2 DEF Books
    <3> QED
      BY <1>0, <3>1 DEF Order, OrderKind, IsTerminal
  <2>4. /\ bar[orders[i].sym] \in Nat /\ open \in BOOLEAN /\ work \in Account
    BY <1>0, PriceType DEF Order, TypeOK
  <2>5. /\ r.type = orders[i].type
        /\ (r.type = "BRACKET" /\ r.status = "FILLED") => r.sold # NoExit
    BY <1>0, <2>3, <2>4, PollBackendKeeps
  <2> HIDE DEF r
  <2>6. /\ orders'[i] = r
        /\ \A j \in OrderId : j # i => orders'[j] = orders[j]
    BY <2>1 DEF TypeOK
  <2>7. Books'
    <3>1. {j \in OrderId : orders'[j].type # "NONE"} = {j \in OrderId : orders[j].type # "NONE"}
      BY <2>5, <2>6
    <3>2. \A j \in filled : orders'[j] = orders[j]
      BY <1>0, <2>2, <2>6
    <3>3. \A j \in pending : IsTerminal(orders'[j]) => j \in changed'
      <4>1. ASSUME NEW j \in pending, j # i, IsTerminal(orders'[j]) PROVE j \in changed'
        BY <1>0, <2>1, <2>6, <4>1 DEF Books
      <4>2. IsTerminal(r) => i \in changed'
        BY <2>1, <2>3 DEF IsTerminal
      <4> QED
        BY <2>6, <4>1, <4>2
    <3>4. pending \cup filled = {j \in OrderId : orders'[j].type # "NONE"}
      BY <2>1, <3>1 DEF Books
    <3>5. exits = {j \in filled : orders'[j].type = "BRACKET" /\ orders'[j].status = "FILLED"}
      BY <1>0, <3>2
    <3> QED
      BY <1>0, <2>1, <3>2, <3>3, <3>4, <3>5 DEF Books, IsTerminal
  <2>8. Filing'
    <3>1. \A j \in OrderId : (orders'[j].type = "BRACKET" /\ orders'[j].status = "FILLED")
                                => orders'[j].sold # NoExit
      BY <1>0, <2>5, <2>6
    <3>2. changed' \subseteq pending /\ todo' \subseteq pending \ changed'
      BY <2>1, <2>2 DEF Filing
    <3> QED
      BY <2>1, <3>1, <3>2 DEF Filing
  <2> QED
    BY <2>7, <2>8
<1>9. ASSUME NEW i \in OrderId, Apply(i) PROVE Books' /\ Filing'
  <2>1. /\ phase \in {"applyPolled", "applySubmitted"}
        /\ \/ orders' = orders
           \/ orders' = [orders EXCEPT ![i].done = (orders[i].type = "MARKET")]
        /\ UNCHANGED <<pending, filled, exits, phase>>
    BY <1>9 DEF Apply, ApplyOrder, ApplyPhase
  <2>2. \A j \in OrderId : /\ orders'[j].type = orders[j].type
                           /\ orders'[j].status = orders[j].status
                           /\ orders'[j].sold = orders[j].sold
    <3>1. ASSUME NEW j \in OrderId, NEW d \in BOOLEAN,
                 orders' = [orders EXCEPT ![i].done = d]
          PROVE  /\ orders'[j].type = orders[j].type
                 /\ orders'[j].status = orders[j].status
                 /\ orders'[j].sold = orders[j].sold
      BY <1>0, <3>1 DEF Order, TypeOK
    <3>2. (orders[i].type = "MARKET") \in BOOLEAN
      OBVIOUS
    <3> QED
      BY <2>1, <3>1, <3>2
  <2>3. Books'
    <3>1. {j \in OrderId : orders'[j].type # "NONE"} = {j \in OrderId : orders[j].type # "NONE"}
      BY <2>2
    <3>2. exits = {j \in filled : orders'[j].type = "BRACKET" /\ orders'[j].status = "FILLED"}
      BY <1>0, <2>2
    <3> QED
      BY <1>0, <2>1, <2>2, <3>1, <3>2 DEF Books, IsTerminal
  <2> QED
    BY <1>0, <2>1, <2>2, <2>3 DEF Filing
<1>10. ASSUME NEW i \in OrderId, ApplyRaises(i) PROVE Books' /\ Filing'
  <2>1. /\ phase \in {"applyPolled", "applySubmitted"} /\ phase' = "raised"
        /\ UNCHANGED <<orders, pending, filled, exits>>
    BY <1>10 DEF ApplyRaises, ApplyPhase, omVars
  <2> QED
    BY <1>0, <2>1 DEF Books, Filing
<1>11. ASSUME NEW i \in OrderId, ManualSale(i) PROVE Books' /\ Filing'
  <2> DEFINE asked == [orders[i] EXCEPT !.manual = TRUE]
             r == PollBackend(asked, bar[asked.sym], open, pf)
  <2>1. /\ phase = "manual" /\ i \in plan.manual
        /\ orders' = [orders EXCEPT ![i] = r]
        /\ Refile({i}, orders')
        /\ phase' \in {"raised", "manual"}
        /\ plan' = [plan EXCEPT !.manual = @ \ {i}]
        /\ UNCHANGED todo
    BY <1>11 DEF ManualSale, loopVars
  <2>2. i \in pending /\ i \notin filled /\ i \notin todo
    BY <1>0, <2>1 DEF Filing, Known
  <2>3. orders[i].type \in {"MARKET", "BRACKET"} /\ orders[i].status \notin Terminal
    <3>1. orders[i].type # "NONE" /\ ~IsTerminal(orders[i])
      BY <2>1, <2>2 DEF Books
    <3> QED
      BY <1>0, <3>1 DEF Order, OrderKind, IsTerminal
  <2>4. asked \in Order /\ asked.type = orders[i].type /\ asked.status = orders[i].status
    BY <1>0 DEF Order
  <2> HIDE DEF asked
  <2>5. bar[asked.sym] \in Nat /\ open \in BOOLEAN /\ pf \in Account
    BY <2>4, PriceType DEF Order, TypeOK
  <2>6. /\ r.type = orders[i].type
        /\ (r.type = "BRACKET" /\ r.status = "FILLED") => r.sold # NoExit
    BY <2>3, <2>4, <2>5, PollBackendKeeps
  <2> HIDE DEF r
  <2>7. /\ orders'[i] = r
        /\ \A j \in OrderId : j # i => orders'[j] = orders[j]
    BY <2>1 DEF TypeOK
  <2>8. /\ \A j \in filled : orders'[j] = orders[j]
        /\ \A j \in pending \ {i} : ~IsTerminal(orders'[j])
    <3>1. \A j \in pending : ~IsTerminal(orders[j])
      BY <2>1 DEF Books
    <3> QED
      BY <1>0, <2>2, <2>7, <3>1
  <2>9. /\ \A j \in filled : IsTerminal(orders'[j])
        /\ exits = {j \in filled : orders'[j].type = "BRACKET" /\ orders'[j].status = "FILLED"}
        /\ \A j \in {i} : (orders'[j].type = "BRACKET" /\ orders'[j].status = "FILLED")
                              => orders'[j].sold # NoExit
    BY <1>0, <2>6, <2>7, <2>8
  <2>10. /\ pending' \cap filled' = {}
         /\ pending' \cup filled' = pending \cup filled
         /\ pending' \subseteq pending
         /\ \A j \in filled' : IsTerminal(orders'[j])
         /\ \A j \in pending' : ~IsTerminal(orders'[j])
         /\ exits' = {j \in filled' : /\ orders'[j].type = "BRACKET"
                                      /\ orders'[j].status = "FILLED"}
    <3>1. PICK os : os = orders'
      OBVIOUS
    <3>2. Refile({i}, os)
      BY <2>1, <3>1 DEF Refile
    <3> QED
      BY <1>0, <2>8, <2>9, <3>1, <3>2, RefileKeeps
  <2>11. /\ pending \cup filled = {j \in OrderId : orders[j].type # "NONE"} \ todo
         /\ \A j \in todo : j \notin Known /\ orders[j].type # "NONE" /\ orders[j].status = "PENDING"
         /\ plan.manual \subseteq pending
    BY <2>1 DEF Books, Filing
  <2>12. Books'
    <3>1. {j \in OrderId : orders'[j].type # "NONE"} = {j \in OrderId : orders[j].type # "NONE"}
      BY <2>6, <2>7
    <3> QED
      BY <2>1, <2>10, <2>11, <3>1 DEF Books, IsTerminal
  <2>13. Filing'
    <3>1. \A j \in todo : orders'[j] = orders[j]
      BY <2>2, <2>7 DEF TypeOK
    <3>2. \A j \in OrderId : (orders'[j].type = "BRACKET" /\ orders'[j].status = "FILLED")
                                => orders'[j].sold # NoExit
      BY <1>0, <2>6, <2>7
    <3>3. plan'.manual = plan.manual \ {i}
      BY <2>1 DEF TypeOK, Plan
    <3>4. plan'.manual \subseteq pending'
      <4>1. \A j \in pending \ {i} : j \in pending'
        BY <2>1 DEF Refile
      <4> QED
        BY <2>11, <3>3, <4>1
    <3> QED
      BY <2>1, <2>10, <2>11, <3>1, <3>2, <3>4 DEF Filing, Known
  <2> QED
    BY <2>12, <2>13
<1>12. ASSUME NEW i \in OrderId, SubmitOrder(i) PROVE Books' /\ Filing'
  <2> DEFINE r == SubmitBackend(orders[i], bar[orders[i].sym], open, work)
  <2>1. /\ phase = "submit" /\ i \in todo /\ UNCHANGED phase
        /\ orders' = [orders EXCEPT ![i] = r]
        /\ IF IsTerminal(r)
           THEN filled' = filled \cup {i} /\ UNCHANGED pending
           ELSE pending' = pending \cup {i} /\ UNCHANGED filled
        /\ todo' = todo \ {i} /\ UNCHANGED exits
    BY <1>12 DEF SubmitOrder, IsFirst
  <2>2. /\ pending \cup filled = {j \in OrderId : orders[j].type # "NONE"} \ todo
        /\ \A j \in todo : j \notin Known /\ orders[j].type # "NONE" /\ orders[j].status = "PENDING"
        /\ \A j \in pending : ~IsTerminal(orders[j])
    BY <2>1 DEF Books, Filing
  <2>3. /\ i \notin pending /\ i \notin filled
        /\ orders[i].type \in {"MARKET", "BRACKET"} /\ orders[i].status = "PENDING"
    BY <1>0, <2>1, <2>2 DEF Known, Order, OrderKind
  <2>4. bar[orders[i].sym] \in Nat /\ open \in BOOLEAN /\ work \in Account
    BY <1>0, PriceType DEF Order, TypeOK
  <2>5. r.type = orders[i].type /\ (r.type = "BRACKET" => r.status \notin Terminal)
    BY <1>0, <2>3, <2>4, SubmitBackendKeeps
  <2> HIDE DEF r
  <2>6. /\ orders'[i] = r
        /\ \A j \in OrderId : j # i => orders'[j] = orders[j]
    BY <2>1 DEF TypeOK
  <2>7. /\ pending' \cup filled' = pending \cup filled \cup {i}
        /\ pending' \cap filled' = {}
    BY <1>0, <2>1, <2>3
  <2>8. \A j \in pending \cup filled : orders'[j] = orders[j]
    BY <1>0, <2>3, <2>6
  <2>9. \A j \in todo \ {i} : orders'[j] = orders[j]
    BY <2>6 DEF TypeOK
  <2>10. Books'
    <3>1. {j \in OrderId : orders'[j].type # "NONE"} = {j \in OrderId : orders[j].type # "NONE"}
      BY <2>5, <2>6
    <3>2. pending' \cup filled' = {j \in OrderId : orders'[j].type # "NONE"} \ todo'
      BY <2>1, <2>2, <2>3, <2>7, <3>1
    <3>3. /\ \A j \in filled' : IsTerminal(orders'[j])
          /\ \A j \in pending' : ~IsTerminal(orders'[j])
      BY <1>0, <2>1, <2>2, <2>6, <2>8
    <3>4. exits = {j \in filled' : orders'[j].type = "BRACKET" /\ orders'[j].status = "FILLED"}
      BY <1>0, <2>1, <2>5, <2>6, <2>8 DEF Terminal
    <3> QED
      BY <2>1, <2>7, <3>2, <3>3, <3>4 DEF Books, IsTerminal
  <2>11. Filing'
    <3>1. \A j \in OrderId : (orders'[j].type = "BRACKET" /\ orders'[j].status = "FILLED")
                                => orders'[j].sold # NoExit
      BY <1>0, <2>5, <2>6 DEF Terminal
    <3> QED
      BY <2>1, <2>2, <2>7, <2>9, <3>1 DEF Filing, Known
  <2> QED
    BY <2>10, <2>11
<1> QED
  BY <1>1, <1>2, <1>3, <1>4, <1>5, <1>6, <1>7, <1>8, <1>9, <1>10, <1>11, <1>12
  DEF Machinery

(* What a strategy asks for is new: it has a type, and waits. *)
LEMMA RequestedKeeps ==
    ASSUME NEW r \in OrderMenu
    PROVE  Requested(r).type # "NONE" /\ Requested(r).status = "PENDING"
<1>1. r.kind \in {"BUY", "SELL", "FIXED", "TRAILING"}
  BY TradingAssumption
<1> QED
  BY <1>1 DEF Requested, ConfiguredBracket, MarketOrder, FixedBracket, TrailingBracket, NewOrder

(* A strategy that asks for anything on the menu keeps the books. *)
LEMMA AnyStrategyBooks == ASSUME BooksInv, AnyStrategy PROVE Books' /\ Filing'
<1>1. PICK manual \in {{}} \cup {{i} : i \in {j \in pending : Active(j)}},
           cancel \in {{}, {"MARKET"}, {"BRACKET"}},
           ids \in SUBSET Unused :
           \E asked \in [ids -> {r \in OrderMenu : GetPrice(r.sym) # NoPrice}] :
              RunStrategy(manual, cancel, [i \in ids |-> Requested(asked[i])])
  BY DEF AnyStrategy
<1>2. PICK asked \in [ids -> {r \in OrderMenu : GetPrice(r.sym) # NoPrice}] :
              RunStrategy(manual, cancel, [i \in ids |-> Requested(asked[i])])
  BY <1>1
<1> DEFINE new == [i \in ids |-> Requested(asked[i])]
<1>3. DOMAIN new \subseteq OrderId
  BY DEF Unused
<1>4. \A k \in DOMAIN new : new[k].type # "NONE" /\ new[k].status = "PENDING"
  BY <1>2, RequestedKeeps
<1> HIDE DEF new
<1>5. RunStrategy(manual, cancel, new)
  BY <1>2 DEF new
<1>6. manual \in SUBSET pending
  OBVIOUS
<1> QED
  BY <1>3, <1>4, <1>5, <1>6, RunStrategyBooks

(* The books and what they rest on hold throughout. *)
LEMMA BooksInvariant == Spec => []BooksInv
<1>1. Init => BooksInv
  BY InitType, InitBooks DEF BooksInv
<1>2. BooksInv /\ [Next]_vars => BooksInv'
  <2>1. ASSUME BooksInv, Next PROVE BooksInv'
    <3>1. TypeOK'
      BY <2>1, MachineryType, AnyStrategyType DEF BooksInv, Next
    <3>2. Books' /\ Filing'
      BY <2>1, MachineryBooks, AnyStrategyBooks DEF Next
    <3> QED
      BY <3>1, <3>2 DEF BooksInv
  <2>2. ASSUME BooksInv, UNCHANGED vars PROVE BooksInv'
    BY <2>2 DEF BooksInv, TypeOK, Books, Filing, Known, IsTerminal, vars,
                omVars, pfVars, loopVars, tickVars
  <2> QED
    BY <2>1, <2>2
<1> QED
  BY <1>1, <1>2, PTL DEF Spec

(* No order is lost, none is both pending and filled, and the sale of a    *)
(* bracket is registered exactly when the bracket was sold: polling,       *)
(* selling by hand, canceling and submitting keep the OrderManager's       *)
(* dictionaries in step, for any stream and any strategy.                  *)
THEOREM BooksCorrect == Spec => []Books
<1>1. BooksInv => Books
  BY DEF BooksInv
<1> QED
  BY <1>1, BooksInvariant, PTL

-----------------------------------------------------------------------------
(* The life cycle of an order *)

(* Refiling moves orders between the dictionaries and loses none. *)
LEMMA RefileKnown == ASSUME NEW S, NEW os, Refile(S, os) PROVE Known' = Known
  BY DEF Refile, Known

(* A bar only moves an order forward, and leaves one that is over alone.   *)
LEMMA PollBackendMoves ==
    ASSUME NEW o \in Order, NEW px \in Nat, NEW op \in BOOLEAN, NEW acc \in Account,
           o.type \in {"MARKET", "BRACKET"}, o.status \notin Terminal
    PROVE  LET r == PollBackend(o, px, op, acc)
           IN  r.status = o.status \/ <<o.status, r.status>> \in Lifecycle!Moves
<1> DEFINE r == PollBackend(o, px, op, acc)
<1>1. o.status \in {"PENDING", "PENDING_SALE"} BY DEF Order, Status, Terminal
<1>2. CASE px = NoPrice \/ ~op BY <1>2 DEF PollBackend
<1>3. CASE px # NoPrice /\ op
  <2>0. px \in Nat \ {0} BY <1>3 DEF NoPrice
  <2>1. CASE o.type = "MARKET"
    <3>1. r = ProcessMarket(o, px, acc) BY <1>1, <1>3, <2>1 DEF PollBackend
    <3>2. ProcessMarket(o, px, acc).status \in Terminal
      BY DEF ProcessMarket, Order, Terminal
    <3> QED BY <1>1, <3>1, <3>2 DEF Lifecycle!Moves, Terminal
  <2>2. CASE o.type = "BRACKET" /\ o.status = "PENDING"
    <3>1. r.status = "PENDING_SALE"
      BY <1>3, <2>0, <2>2, EnterDeferredKeeps DEF PollBackend
    <3> QED BY <2>2, <3>1 DEF Lifecycle!Moves
  <2>3. CASE o.type = "BRACKET" /\ o.status # "PENDING"
    <3> DEFINE t == IF o.trailing THEN Trail(o, px) ELSE o
    <3>1. t \in Order /\ t.status = o.status BY <2>0, TrailType, TrailKeeps
    <3> HIDE DEF t
    <3>2. r = HoldBracket(o, px, acc) BY <1>1, <1>3, <2>3 DEF PollBackend
    <3>3. HoldBracket(o, px, acc) \in
             {SellManually(o, px, acc), FillExit(t, "STOP", px, acc),
              FillExit(t, "PROFIT", px, acc), t}
      BY DEF HoldBracket, t
    <3>4. SellManually(o, px, acc).status = "FILLED" BY DEF SellManually, Order
    <3>5. \A leg : FillExit(t, leg, px, acc).status = "FILLED"
      BY <3>1 DEF FillExit, Order
    <3>6. r.status \in {"PENDING_SALE", "FILLED"}
      BY <1>1, <2>3, <3>1, <3>2, <3>3, <3>4, <3>5
    <3> QED BY <1>1, <2>3, <3>6 DEF Lifecycle!Moves
  <2> QED BY <2>1, <2>2, <2>3
<1> QED BY <1>2, <1>3

(* Every order that a step of the machinery moves, it moves forward. *)
LEMMA MachineryMoves ==
    ASSUME BooksInv, Machinery, NEW i \in OrderId, StatusOf(i)' # StatusOf(i)
    PROVE  <<StatusOf(i), StatusOf(i)'>> \in Lifecycle!Moves
<1>0. /\ \A j \in OrderId : orders[j] \in Order
      /\ pending \subseteq OrderId /\ filled \subseteq OrderId
      /\ \A j \in OrderId : StatusOf(j) = IF j \in Known THEN orders[j].status ELSE "UNUSED"
  BY DEF BooksInv, TypeOK, StatusOf
<1>1. ASSUME Known' = Known, \A j \in OrderId : orders'[j].status = orders[j].status
      PROVE  FALSE
  BY <1>1 DEF StatusOf
<1>2. CASE AnyTick
  BY <1>1, <1>2 DEF AnyTick, Tick, omVars, Known
<1>3. CASE PollDone BY <1>1, <1>3, RefileKnown DEF PollDone
<1>4. CASE ApplyDone BY <1>1, <1>4 DEF ApplyDone, omVars, Known
<1>5. CASE ManualDone BY <1>1, <1>5 DEF ManualDone, omVars, Known
<1>6. CASE SubmitDone BY <1>1, <1>6 DEF SubmitDone, omVars, Known
<1>7. CASE Value BY <1>1, <1>7 DEF Value, omVars, Known
<1>8. CASE Cancel
  <2> DEFINE hit == {j \in pending : orders[j].type \in plan.cancel}
  <2>1. /\ phase = "cancel" /\ Refile(pending, orders')
        /\ orders' = [j \in OrderId |->
               IF j \in hit THEN [orders[j] EXCEPT !.status = "CANCELED"] ELSE orders[j]]
    BY <1>8 DEF Cancel
  <2>2. PICK os : os = orders' OBVIOUS
  <2>3. Known' = Known
    <3>1. Refile(pending, os) BY <2>1, <2>2 DEF Refile
    <3> QED BY <3>1, RefileKnown
  <2>4. i \in hit /\ i \in Known
    <3>1. i \notin hit => orders'[i] = orders[i] BY <2>1
    <3> QED BY <2>3, <3>1 DEF StatusOf, Known
  <2>5. orders'[i].status = "CANCELED"
    <3>1. [orders[i] EXCEPT !.status = "CANCELED"].status = "CANCELED" BY <1>0 DEF Order
    <3> QED BY <2>1, <2>4, <3>1
  <2>6. ~IsTerminal(orders[i]) BY <2>1, <2>4 DEF BooksInv, Books
  <2>7. orders[i].status \in {"PENDING", "PENDING_SALE"}
    BY <1>0, <2>6 DEF IsTerminal, Terminal, Order, Status
  <2> QED BY <2>3, <2>4, <2>5, <2>7 DEF StatusOf, Lifecycle!Moves
<1>9. ASSUME NEW k \in OrderId, PollOrder(k)
      PROVE  <<StatusOf(i), StatusOf(i)'>> \in Lifecycle!Moves
  <2> DEFINE r == PollBackend(orders[k], bar[orders[k].sym], open, work)
  <2>1. /\ phase = "poll" /\ k \in todo /\ orders' = [orders EXCEPT ![k] = r]
        /\ UNCHANGED <<pending, filled>>
    BY <1>9 DEF PollOrder, IsFirst
  <2>2. k \in pending /\ k \notin changed BY <2>1 DEF BooksInv, Filing
  <2>3. orders[k].type \in {"MARKET", "BRACKET"} /\ orders[k].status \notin Terminal
    <3>1. orders[k].type # "NONE" /\ ~IsTerminal(orders[k])
      BY <2>1, <2>2 DEF BooksInv, Books
    <3> QED BY <1>0, <3>1 DEF Order, OrderKind, IsTerminal
  <2>4. bar[orders[k].sym] \in Nat /\ open \in BOOLEAN /\ work \in Account
    BY <1>0, PriceType DEF Order, TypeOK, BooksInv
  <2>5. r.status = orders[k].status \/ <<orders[k].status, r.status>> \in Lifecycle!Moves
    BY <1>0, <2>3, <2>4, PollBackendMoves
  <2> HIDE DEF r
  <2>6. orders'[k] = r /\ \A j \in OrderId : j # k => orders'[j] = orders[j]
    BY <2>1 DEF BooksInv, TypeOK
  <2>7. Known' = Known /\ k \in Known BY <2>1, <2>2 DEF Known
  <2>8. i = k BY <2>6, <2>7 DEF StatusOf
  <2> QED BY <2>5, <2>6, <2>7, <2>8 DEF StatusOf
<1>10. ASSUME NEW k \in OrderId, Apply(k) PROVE FALSE
  <2>1. /\ \/ orders' = orders
           \/ orders' = [orders EXCEPT ![k].done = (orders[k].type = "MARKET")]
        /\ UNCHANGED <<pending, filled>>
    BY <1>10 DEF Apply, ApplyOrder
  <2>2. \A j \in OrderId : orders'[j].status = orders[j].status
    BY <1>0, <2>1 DEF Order, BooksInv, TypeOK
  <2> QED BY <1>1, <2>1, <2>2 DEF Known
<1>11. ASSUME NEW k \in OrderId, ApplyRaises(k) PROVE FALSE
  BY <1>1, <1>11 DEF ApplyRaises, omVars, Known
<1>12. ASSUME NEW k \in OrderId, ManualSale(k)
       PROVE  <<StatusOf(i), StatusOf(i)'>> \in Lifecycle!Moves
  <2> DEFINE asked == [orders[k] EXCEPT !.manual = TRUE]
             r == PollBackend(asked, bar[asked.sym], open, pf)
  <2>1. /\ phase = "manual" /\ k \in plan.manual
        /\ orders' = [orders EXCEPT ![k] = r] /\ Refile({k}, orders')
    BY <1>12 DEF ManualSale
  <2>2. k \in pending BY <2>1 DEF BooksInv, Filing
  <2>3. orders[k].type \in {"MARKET", "BRACKET"} /\ orders[k].status \notin Terminal
    <3>1. orders[k].type # "NONE" /\ ~IsTerminal(orders[k])
      BY <2>1, <2>2 DEF BooksInv, Books
    <3> QED BY <1>0, <3>1 DEF Order, OrderKind, IsTerminal
  <2>4. asked \in Order /\ asked.type = orders[k].type /\ asked.status = orders[k].status
    BY <1>0 DEF Order
  <2> HIDE DEF asked
  <2>5. bar[asked.sym] \in Nat /\ open \in BOOLEAN /\ pf \in Account
    BY <2>4, PriceType DEF Order, TypeOK, BooksInv
  <2>6. r.status = orders[k].status \/ <<orders[k].status, r.status>> \in Lifecycle!Moves
    BY <2>3, <2>4, <2>5, PollBackendMoves
  <2> HIDE DEF r
  <2>7. orders'[k] = r /\ \A j \in OrderId : j # k => orders'[j] = orders[j]
    BY <2>1 DEF BooksInv, TypeOK
  <2>8. Known' = Known /\ k \in Known
    <3>1. PICK os : os = orders' OBVIOUS
    <3>2. Refile({k}, os) BY <2>1, <3>1 DEF Refile
    <3> QED BY <2>2, <3>2, RefileKnown DEF Known
  <2>9. i = k BY <2>7, <2>8 DEF StatusOf
  <2> QED BY <2>6, <2>7, <2>8, <2>9 DEF StatusOf
<1>13. ASSUME NEW k \in OrderId, SubmitOrder(k)
       PROVE  <<StatusOf(i), StatusOf(i)'>> \in Lifecycle!Moves
  <2> DEFINE r == SubmitBackend(orders[k], bar[orders[k].sym], open, work)
  <2>1. /\ phase = "submit" /\ k \in todo /\ orders' = [orders EXCEPT ![k] = r]
        /\ Known' = Known \cup {k}
    BY <1>13 DEF SubmitOrder, IsFirst, Known
  <2>2. k \notin Known BY <2>1 DEF BooksInv, Filing
  <2>3. bar[orders[k].sym] \in Nat /\ open \in BOOLEAN /\ work \in Account
    BY <1>0, PriceType DEF Order, TypeOK, BooksInv
  <2>4. r \in Order BY <1>0, <2>3, SubmitBackendType
  <2> HIDE DEF r
  <2>5. orders'[k] = r /\ \A j \in OrderId : j # k => orders'[j] = orders[j]
    BY <2>1 DEF BooksInv, TypeOK
  <2>6. i = k BY <2>1, <2>5 DEF StatusOf
  <2>7. StatusOf(i) = "UNUSED" /\ StatusOf(i)' = r.status
    BY <2>1, <2>2, <2>5, <2>6 DEF StatusOf
  <2> QED BY <2>4, <2>7 DEF Order, Status, Lifecycle!Moves
<1> QED BY <1>2, <1>3, <1>4, <1>5, <1>6, <1>7, <1>8, <1>9, <1>10, <1>11, <1>12, <1>13
        DEF Machinery

(* No strategy moves an order the books know. *)
LEMMA RunStrategyMoves ==
    ASSUME BooksInv, NEW manual, NEW cancel, NEW new, RunStrategy(manual, cancel, new)
    PROVE  \A i \in OrderId : StatusOf(i)' = StatusOf(i)
<1> DEFINE sent == {k \in DOMAIN new : new[k].qty > 0}
<1>1. /\ phase = "strategy" /\ sent \subseteq Unused
      /\ orders' = [i \in OrderId |-> IF i \in sent THEN new[i] ELSE orders[i]]
      /\ UNCHANGED <<pending, filled>>
  BY DEF RunStrategy
<1> HIDE DEF sent
<1>2. pending \cup filled = {i \in OrderId : orders[i].type # "NONE"}
  BY <1>1 DEF BooksInv, Books
<1>3. \A i \in OrderId : i \in Known => i \notin sent BY <1>1, <1>2 DEF Known, Unused
<1> QED BY <1>1, <1>3 DEF StatusOf, Known

(* Seen from outside, every order walks the life cycle, for any stream and *)
(* any strategy: nothing ever moves it back or brings it to life again.    *)
THEOREM LifecycleImplemented == Spec => ImplementsLifecycle
<1>1. Init => Lifecycle!Init
  BY DEF Init, Lifecycle!Init, OrderStatus, StatusOf, Known
<1>2. BooksInv /\ BooksInv' /\ [Next]_vars => [Lifecycle!Next]_OrderStatus
  <2> SUFFICES ASSUME BooksInv, BooksInv', [Next]_vars, OrderStatus' # OrderStatus
               PROVE  Lifecycle!Next
    OBVIOUS
  <2>1. Next
    BY DEF vars, omVars, OrderStatus, StatusOf, Known
  <2>2. OrderStatus' \in [OrderId -> {"UNUSED", "PENDING", "FILLED",
                                      "PENDING_SALE", "CANCELED"}]
    BY DEF OrderStatus, StatusOf, BooksInv, TypeOK, Order, Status
  <2>3. \A i \in OrderId : OrderStatus[i] = StatusOf(i) /\ OrderStatus'[i] = StatusOf(i)'
    BY DEF OrderStatus
  <2>4. \A i \in OrderId : StatusOf(i)' # StatusOf(i) =>
                              <<StatusOf(i), StatusOf(i)'>> \in Lifecycle!Moves
    <3>1. CASE Machinery BY <3>1, MachineryMoves
    <3>2. CASE AnyStrategy BY <3>2, RunStrategyMoves DEF AnyStrategy
    <3> QED BY <2>1, <3>1, <3>2 DEF Next
  <2> QED BY <2>2, <2>3, <2>4 DEF Lifecycle!Next
<1> QED BY <1>1, <1>2, BooksInvariant, PTL DEF Spec, ImplementsLifecycle, Lifecycle!Spec

-----------------------------------------------------------------------------
(* The trailing stop *)

(* The stop follows the mark it hangs from, also through the rounding. *)
LEMMA StopMonotone ==
    ASSUME NEW p \in Int, NEW q \in Int, p <= q PROVE StopOf(p) <= StopOf(q)
<1>1. PICK k \in Nat : k = 100 - StopPct
  BY OrdersAssumption
<1>2. p * k <= q * k
  <2>1. (q - p) * k >= 0
    BY <1>1
  <2> QED BY <1>1, <2>1
<1>3. PICK x \in Int, y \in Int : x = p * k /\ y = q * k
  BY <1>1
<1>4. Rounded(x, 100) <= Rounded(y, 100)
  BY <1>2, <1>3 DEF Rounded
<1> QED BY <1>1, <1>3, <1>4 DEF StopOf

(* While a trailing bracket waits for its exit, its stop is the one of its *)
(* high-water mark, which a bar has set.                                   *)
OnItsMark(o) ==
    (o.trailing /\ o.status = "PENDING_SALE") => o.hwm > 0 /\ o.stop = StopOf(o.hwm)

Tightened(o, r) ==
    (o.trailing /\ o.status = "PENDING_SALE" /\ r.status = "PENDING_SALE")
        => r.stop >= o.stop

(* Trailing sets the stop on the new mark, which is no lower. *)
LEMMA TrailTightens ==
    ASSUME NEW o \in Order, NEW px \in Nat \ {0}, OnItsMark(o)
    PROVE  OnItsMark(Trail(o, px)) /\ Tightened(o, Trail(o, px))
<1> DEFINE top == IF o.hwm = NoPrice THEN px ELSE Greater(o.hwm, px)
<1>1. top \in Int /\ px \in Int /\ o.hwm \in Int
  BY DEF Greater, Order
<1>2. (o.hwm > 0 => o.hwm <= top) /\ px <= top
  BY <1>1 DEF Greater, NoPrice
<1> HIDE DEF top
<1>3. /\ Trail(o, px).hwm = top /\ Trail(o, px).stop = StopOf(top)
      /\ Trail(o, px).trailing = o.trailing /\ Trail(o, px).status = o.status
  BY DEF Trail, top, Order
<1>4. o.hwm > 0 => StopOf(o.hwm) <= StopOf(top)
  BY <1>1, <1>2, StopMonotone
<1>5. o.stop \in Int /\ StopOf(top) \in Int
  BY <1>1, <1>3, TrailType DEF Order
<1> QED BY <1>1, <1>2, <1>3, <1>4, <1>5 DEF OnItsMark, Tightened

(* An entry sets the mark to the fill. *)
LEMMA EntryOnItsMark ==
    ASSUME NEW o \in Order, NEW px \in Nat \ {0}, NEW acc \in Account
    PROVE  /\ OnItsMark(EnterBracket(o, px, acc))
           /\ OnItsMark(EnterDeferred(o, px, acc))
<1> DEFINE q == Lesser(o.qty, Affordable(acc.cash, px))
           e == [o EXCEPT !.status = "PENDING_SALE", !.price = px, !.qty = q]
           m == [e EXCEPT !.hwm = px]
           r == EnterBracket(o, px, acc)
<1>1. m.hwm = px /\ m.trailing = o.trailing /\ e.trailing = o.trailing
  BY DEF Order
<1>2. r = IF o.trailing THEN Trail(m, px) ELSE e
  BY DEF EnterBracket
<1>3. o.trailing => /\ r.hwm = px /\ r.stop = StopOf(px) /\ r.trailing
  <2>1. Trail(m, px) = [m EXCEPT !.hwm = px, !.stop = StopOf(px)]
    BY <1>1 DEF Trail, Greater, NoPrice
  <2>2. /\ [m EXCEPT !.hwm = px, !.stop = StopOf(px)].hwm = px
        /\ [m EXCEPT !.hwm = px, !.stop = StopOf(px)].stop = StopOf(px)
        /\ [m EXCEPT !.hwm = px, !.stop = StopOf(px)].trailing = o.trailing
    BY DEF Order
  <2> QED BY <1>2, <2>1, <2>2
<1>4. ~o.trailing => ~r.trailing
  BY <1>1, <1>2
<1>5. r \in Order
  BY EnterBracketType
<1> HIDE DEF q, e, m, r
<1>6. OnItsMark(r)
  BY <1>3, <1>4 DEF OnItsMark
<1>7. o.trailing \in BOOLEAN
  BY DEF Order
<1>8. LET d == EnterDeferred(o, px, acc)
      IN  /\ d.trailing = r.trailing /\ d.hwm = r.hwm
          /\ o.trailing => d.stop = r.stop
  BY <1>5, <1>7 DEF EnterDeferred, r, Order
<1>9. OnItsMark(EnterDeferred(o, px, acc))
  BY <1>3, <1>4, <1>8 DEF OnItsMark
<1> QED BY <1>6, <1>9 DEF r

(* Nothing a bar does to an order takes its stop off the mark or loosens it. *)
LEMMA PollTightens ==
    ASSUME NEW o \in Order, NEW px \in Nat, NEW op \in BOOLEAN, NEW acc \in Account,
           OnItsMark(o)
    PROVE  LET r == PollBackend(o, px, op, acc) IN OnItsMark(r) /\ Tightened(o, r)
<1> DEFINE r == PollBackend(o, px, op, acc)
<1>1. CASE r = o BY <1>1 DEF Tightened, Order
<1>2. CASE px # NoPrice /\ op /\ o.type = "MARKET" /\ o.status # "FILLED"
  <2>1. r = ProcessMarket(o, px, acc) BY <1>2 DEF PollBackend
  <2>2. ProcessMarket(o, px, acc).status # "PENDING_SALE" BY DEF ProcessMarket, Order
  <2> QED BY <2>1, <2>2 DEF OnItsMark, Tightened
<1>3. CASE px # NoPrice /\ op /\ o.type # "MARKET" /\ o.status = "PENDING"
  <2>1. r = EnterDeferred(o, px, acc) BY <1>3 DEF PollBackend
  <2> QED BY <1>3, <2>1, EntryOnItsMark DEF Tightened, NoPrice
<1>4. CASE px # NoPrice /\ op /\ o.type # "MARKET" /\ o.status \notin {"FILLED", "PENDING"}
  <2> DEFINE t == IF o.trailing THEN Trail(o, px) ELSE o
  <2>1. t \in Order BY TrailType
  <2>2. OnItsMark(t) /\ Tightened(o, t) BY <1>4, TrailTightens DEF NoPrice, Tightened, Order
  <2> HIDE DEF t
  <2>3. r = HoldBracket(o, px, acc) BY <1>4 DEF PollBackend
  <2>4. r \in {SellManually(o, px, acc), FillExit(t, "STOP", px, acc),
               FillExit(t, "PROFIT", px, acc), t}
    BY <2>3 DEF HoldBracket, t
  <2>5. SellManually(o, px, acc).status = "FILLED" BY DEF SellManually, Order
  <2>6. \A leg : FillExit(t, leg, px, acc).status = "FILLED" BY <2>1 DEF FillExit, Order
  <2> QED BY <2>2, <2>4, <2>5, <2>6 DEF OnItsMark, Tightened
<1> QED BY <1>1, <1>2, <1>3, <1>4 DEF PollBackend

(* Nor does submitting it. *)
LEMMA SubmitTightens ==
    ASSUME NEW o \in Order, NEW px \in Nat, NEW op \in BOOLEAN, NEW acc \in Account,
           OnItsMark(o), o.status = "PENDING"
    PROVE  LET r == SubmitBackend(o, px, op, acc) IN OnItsMark(r) /\ Tightened(o, r)
<1> DEFINE r == SubmitBackend(o, px, op, acc)
<1>1. ProcessMarket(o, px, acc).status # "PENDING_SALE" BY DEF ProcessMarket, Order
<1>2. px # NoPrice => OnItsMark(EnterBracket(o, px, acc)) BY EntryOnItsMark DEF NoPrice
<1>3. r \in {o, ProcessMarket(o, px, acc)} \/ (px # NoPrice /\ r = EnterBracket(o, px, acc))
  BY DEF SubmitBackend
<1> QED BY <1>1, <1>2, <1>3 DEF OnItsMark, Tightened

OnMarks == \A i \in OrderId : OnItsMark(orders[i])

AllTightened == \A i \in OrderId : Tightened(orders[i], orders'[i])

(* Every step of the machinery leaves the stops on their marks. *)
LEMMA MachineryTightens ==
    ASSUME BooksInv, OnMarks, Machinery PROVE OnMarks' /\ AllTightened
<1>0. \A i \in OrderId : orders[i] \in Order /\ orders[i].stop \in Int
  BY DEF BooksInv, TypeOK, Order
<1>1. ASSUME UNCHANGED orders PROVE OnMarks' /\ AllTightened
  BY <1>0, <1>1 DEF OnMarks, AllTightened, Tightened
<1>2. ASSUME NEW i \in OrderId, NEW r, orders' = [orders EXCEPT ![i] = r],
             OnItsMark(r), Tightened(orders[i], r)
      PROVE  OnMarks' /\ AllTightened
  <2>1. /\ orders'[i] = r
        /\ \A j \in OrderId : j # i => orders'[j] = orders[j]
    BY <1>2 DEF BooksInv, TypeOK
  <2> QED BY <1>0, <1>2, <2>1 DEF OnMarks, AllTightened, Tightened
<1>3. CASE AnyTick \/ PollDone \/ ApplyDone \/ ManualDone \/ SubmitDone \/ Value
  <2>1. UNCHANGED orders
    BY <1>3 DEF AnyTick, Tick, PollDone, ApplyDone, ManualDone, SubmitDone, Value, omVars
  <2> QED BY <1>1, <2>1
<1>4. CASE Cancel
  <2>1. PICK hit : orders' = [i \in OrderId |->
               IF i \in hit THEN [orders[i] EXCEPT !.status = "CANCELED"] ELSE orders[i]]
    BY <1>4 DEF Cancel
  <2>2. \A i \in OrderId : [orders[i] EXCEPT !.status = "CANCELED"].status # "PENDING_SALE"
    BY <1>0 DEF Order
  <2>3. \A i \in OrderId : orders'[i] = orders[i] \/ orders'[i].status # "PENDING_SALE"
    BY <2>1, <2>2
  <2> QED BY <1>0, <2>3 DEF OnMarks, AllTightened, OnItsMark, Tightened
<1>5. ASSUME NEW i \in OrderId, PollOrder(i) PROVE OnMarks' /\ AllTightened
  <2> DEFINE r == PollBackend(orders[i], bar[orders[i].sym], open, work)
  <2>1. orders' = [orders EXCEPT ![i] = r] BY <1>5 DEF PollOrder
  <2>2. bar[orders[i].sym] \in Nat /\ open \in BOOLEAN /\ work \in Account
    BY <1>0, PriceType DEF Order, TypeOK, BooksInv
  <2>3. OnItsMark(r) /\ Tightened(orders[i], r)
    BY <1>0, <2>2, PollTightens DEF OnMarks
  <2> HIDE DEF r
  <2> QED BY <1>2, <2>1, <2>3
<1>6. ASSUME NEW i \in OrderId, Apply(i) PROVE OnMarks' /\ AllTightened
  <2>1. \/ UNCHANGED orders
        \/ orders' = [orders EXCEPT ![i] = [orders[i] EXCEPT !.done = (orders[i].type = "MARKET")]]
    BY <1>6 DEF Apply, ApplyOrder
  <2> DEFINE r == [orders[i] EXCEPT !.done = (orders[i].type = "MARKET")]
  <2>2. /\ r.trailing = orders[i].trailing /\ r.status = orders[i].status
        /\ r.hwm = orders[i].hwm /\ r.stop = orders[i].stop
    BY <1>0 DEF Order
  <2> HIDE DEF r
  <2>3. OnItsMark(r) /\ Tightened(orders[i], r)
    BY <1>0, <2>2 DEF OnMarks, OnItsMark, Tightened
  <2> QED BY <1>1, <1>2, <2>1, <2>3 DEF r
<1>7. ASSUME NEW i \in OrderId, ApplyRaises(i) PROVE OnMarks' /\ AllTightened
  BY <1>1, <1>7 DEF ApplyRaises, omVars
<1>8. ASSUME NEW i \in OrderId, ManualSale(i) PROVE OnMarks' /\ AllTightened
  <2> DEFINE asked == [orders[i] EXCEPT !.manual = TRUE]
             r == PollBackend(asked, bar[asked.sym], open, pf)
  <2>1. orders' = [orders EXCEPT ![i] = r] BY <1>8 DEF ManualSale
  <2>2. /\ asked \in Order
        /\ asked.trailing = orders[i].trailing /\ asked.status = orders[i].status
        /\ asked.hwm = orders[i].hwm /\ asked.stop = orders[i].stop
    BY <1>0 DEF Order
  <2>3. OnItsMark(asked) BY <2>2 DEF OnMarks, OnItsMark
  <2> HIDE DEF asked
  <2>4. bar[asked.sym] \in Nat /\ open \in BOOLEAN /\ pf \in Account
    BY <2>2, PriceType DEF Order, TypeOK, BooksInv
  <2>5. OnItsMark(r) /\ Tightened(asked, r)
    BY <2>2, <2>3, <2>4, PollTightens
  <2> HIDE DEF r
  <2>6. Tightened(orders[i], r) BY <2>2, <2>5 DEF Tightened
  <2> QED BY <1>2, <2>1, <2>5, <2>6
<1>9. ASSUME NEW i \in OrderId, SubmitOrder(i) PROVE OnMarks' /\ AllTightened
  <2> DEFINE r == SubmitBackend(orders[i], bar[orders[i].sym], open, work)
  <2>1. orders' = [orders EXCEPT ![i] = r] /\ phase = "submit" /\ i \in todo
    BY <1>9 DEF SubmitOrder, IsFirst
  <2>2. orders[i].status = "PENDING" BY <2>1 DEF BooksInv, Filing
  <2>3. bar[orders[i].sym] \in Nat /\ open \in BOOLEAN /\ work \in Account
    BY <1>0, PriceType DEF Order, TypeOK, BooksInv
  <2>4. OnItsMark(r) /\ Tightened(orders[i], r)
    BY <1>0, <2>2, <2>3, SubmitTightens DEF OnMarks
  <2> HIDE DEF r
  <2> QED BY <1>2, <2>1, <2>4
<1> QED BY <1>3, <1>4, <1>5, <1>6, <1>7, <1>8, <1>9 DEF Machinery

(* A strategy hands over orders that still wait for their entry. *)
LEMMA RunStrategyTightens ==
    ASSUME BooksInv, OnMarks, NEW manual, NEW cancel, NEW new,
           \A k \in DOMAIN new : new[k].status = "PENDING",
           RunStrategy(manual, cancel, new)
    PROVE  OnMarks' /\ AllTightened
<1>1. PICK sent \in SUBSET DOMAIN new :
        orders' = [i \in OrderId |-> IF i \in sent THEN new[i] ELSE orders[i]]
  BY DEF RunStrategy
<1>2. \A i \in OrderId : orders'[i] = orders[i] \/ orders'[i].status = "PENDING"
  BY <1>1
<1> QED BY <1>2 DEF OnMarks, AllTightened, OnItsMark, Tightened, BooksInv, TypeOK, Order

(* So does a strategy that asks for anything on the menu.                  *)
LEMMA AnyStrategyTightens ==
    ASSUME BooksInv, OnMarks, AnyStrategy PROVE OnMarks' /\ AllTightened
<1>0. PICK manual \in {{}} \cup {{i} : i \in {j \in pending : Active(j)}},
           cancel \in {{}, {"MARKET"}, {"BRACKET"}},
           ids \in SUBSET Unused :
        \E asked \in [ids -> {r \in OrderMenu : GetPrice(r.sym) # NoPrice}] :
            RunStrategy(manual, cancel, [i \in ids |-> Requested(asked[i])])
  BY DEF AnyStrategy
<1>1. PICK asked \in [ids -> {r \in OrderMenu : GetPrice(r.sym) # NoPrice}] :
            RunStrategy(manual, cancel, [i \in ids |-> Requested(asked[i])])
  BY <1>0
<1> DEFINE new == [i \in ids |-> Requested(asked[i])]
<1>2. \A k \in DOMAIN new : new[k].status = "PENDING" BY RequestedKeeps
<1> HIDE DEF new
<1>3. RunStrategy(manual, cancel, new) BY <1>1 DEF new
<1> QED BY <1>2, <1>3, RunStrategyTightens

(* While a bracket waits for its exit its trailing stop never moves down,  *)
(* whatever bars, gaps, entries on a later bar and manual sales do.        *)
THEOREM TrailingTightens == Spec => TrailingOnlyTightens
<1>1. Init => OnMarks
  BY DEF Init, OnMarks, OnItsMark, UnusedOrder, NewOrder
<1>2. BooksInv /\ OnMarks /\ [Next]_vars => OnMarks' /\ (orders' = orders \/ AllTightened)
  <2>1. ASSUME BooksInv, OnMarks, Next PROVE OnMarks' /\ AllTightened
    BY <2>1, MachineryTightens, AnyStrategyTightens DEF Next
  <2>2. ASSUME OnMarks, UNCHANGED vars PROVE OnMarks' /\ orders' = orders
    BY <2>2 DEF OnMarks, vars, omVars
  <2> QED BY <2>1, <2>2
<1>3. BooksInv /\ OnMarks /\ [Next]_vars =>
        [\A i \in OrderId :
          (/\ orders[i].trailing
           /\ orders[i].status = "PENDING_SALE"
           /\ orders'[i].status = "PENDING_SALE")
          => orders'[i].stop >= orders[i].stop]_orders
  BY <1>2 DEF AllTightened, Tightened
<1> QED BY <1>1, <1>2, <1>3, BooksInvariant, PTL DEF Spec, TrailingOnlyTightens

-----------------------------------------------------------------------------
(* The working snapshot *)

(* What the portfolio does with an order it can handle is what the         *)
(* OrderManager foresaw.                                                   *)
LEMMA AppliedIsSnapshot ==
    ASSUME NEW o \in Order, NEW acc \in Account, o.type # "NONE", ~Raises(o, acc),
           (o.type = "BRACKET" /\ o.status = "FILLED") => o.sold # NoExit
    PROVE  Applied(o, acc) = ApplyToSnapshot(o, acc)
<1>1. o.type \in {"MARKET", "BRACKET"} /\ o.action \in {"BUY", "SELL"}
  BY DEF Order, OrderKind, Action
<1>2. CASE Buys(o)
  BY <1>1, <1>2 DEF Applied, ApplyToSnapshot, Buys
<1>3. CASE Sells(o)
  <2> DEFINE q == SellOf(o).qty
             px == SellOf(o).price
             have == acc.qty[o.sym]
  <2>1. have \in Int /\ q \in Int
    BY DEF SellOf, Order, Exit, Account
  <2>2. o.sym \in acc.held /\ ~(have < q)
    BY <1>3 DEF Raises
  <2>3. (have = q) = (have - q <= 0)
    BY <2>1, <2>2
  <2>4. Applied(o, acc) = Sold(acc, o.sym, q, px, have = q)
    BY <1>1, <1>3 DEF Applied, Buys, Sells
  <2>5. ApplyToSnapshot(o, acc) = Sold(acc, o.sym, q, px, have - q <= 0)
    BY <1>1, <1>3, <2>2 DEF ApplyToSnapshot, Sells, SellOf
  <2> HIDE DEF have, q, px
  <2> QED BY <2>3, <2>4, <2>5
<1>4. CASE ~Buys(o) /\ ~Sells(o)
  BY <1>1, <1>4 DEF Applied, ApplyToSnapshot, Buys, Sells
<1> QED BY <1>2, <1>3, <1>4

(* Applying the orders of S, one after the other as their ids go, leads    *)
(* from one account to another through accounts of a set A: after[i] is    *)
(* the account that the order i leaves.                                    *)
Follows(i, j, S) == i < j /\ \A k \in S : k <= i \/ k >= j

IsLast(i, S) == \A k \in S : k <= i

PathOver(os, S, from, to, after) ==
    /\ S = {} => from = to
    /\ \A i \in S : IsFirst(i, S) => after[i] = ApplyToSnapshot(os[i], from)
    /\ \A i, j \in S : Follows(i, j, S) => after[j] = ApplyToSnapshot(os[j], after[i])
    /\ \A i \in S : IsLast(i, S) => to = after[i]

Path(os, S, from, to, A) ==
    \E after \in [OrderId -> A] : PathOver(os, S, from, to, after)

(* A path over no order leads nowhere.                                     *)
LEMMA PathEmpty ==
    ASSUME NEW os, NEW A, NEW from \in A, NEW to \in A
    PROVE  Path(os, {}, from, to, A) <=> from = to
<1>1. [i \in OrderId |-> from] \in [OrderId -> A] OBVIOUS
<1> QED BY <1>1 DEF Path, PathOver

(* A path does not depend on what it leaves out of an order.               *)
LEMMA PathKept ==
    ASSUME NEW os, NEW ns, NEW S, NEW from, NEW to, NEW A, NEW B, A \subseteq B,
           \A j \in S : ns[j] = os[j], Path(os, S, from, to, A)
    PROVE  Path(ns, S, from, to, B)
<1>1. PICK after \in [OrderId -> A] : PathOver(os, S, from, to, after)
  BY DEF Path
<1>2. after \in [OrderId -> B] BY DEF Path
<1>3. PathOver(ns, S, from, to, after) BY <1>1 DEF PathOver
<1> QED BY <1>2, <1>3 DEF Path

(* A loop that finds one more order, later than the others, makes the path *)
(* longer.                                                                 *)
LEMMA PathExtend ==
    ASSUME NEW os, NEW ns, NEW A, NEW S \in SUBSET OrderId, NEW from, NEW to,
           NEW i \in OrderId, \A j \in S : j < i, \A j \in S : ns[j] = os[j],
           Path(os, S, from, to, A), ApplyToSnapshot(ns[i], to) \in A
    PROVE  Path(ns, S \cup {i}, from, ApplyToSnapshot(ns[i], to), A)
<1>1. PICK after \in [OrderId -> A] : PathOver(os, S, from, to, after)
  BY DEF Path
<1> DEFINE T == S \cup {i}
           next == ApplyToSnapshot(ns[i], to)
           b == [after EXCEPT ![i] = next]
<1> HIDE DEF next
<1>2. b \in [OrderId -> A] /\ b[i] = next /\ \A j \in S : b[j] = after[j]
  <2>1. \A j \in S : j # i /\ j \in OrderId BY TradingAssumption
  <2> QED BY <2>1 DEF next
<1>3. \A j \in OrderId : j \in Nat BY TradingAssumption
<1>4. \A j \in T : IsFirst(j, T) => b[j] = ApplyToSnapshot(ns[j], from)
  <2>1. ASSUME NEW j \in S, IsFirst(j, T) PROVE b[j] = ApplyToSnapshot(ns[j], from)
    BY <1>1, <1>2, <2>1 DEF PathOver, IsFirst
  <2>2. IsFirst(i, T) => S = {} BY <1>3 DEF IsFirst
  <2> QED BY <1>1, <1>2, <2>1, <2>2 DEF PathOver, next
<1>5. \A j, k \in T : Follows(j, k, T) => b[k] = ApplyToSnapshot(ns[k], b[j])
  <2> SUFFICES ASSUME NEW j \in T, NEW k \in T, Follows(j, k, T)
               PROVE  b[k] = ApplyToSnapshot(ns[k], b[j])
    OBVIOUS
  <2>1. j \in S BY <1>3 DEF Follows
  <2>2. CASE k = i
    <3>1. IsLast(j, S)
      BY <1>3, <2>2 DEF Follows, IsLast
    <3> QED BY <1>1, <1>2, <2>1, <2>2, <3>1 DEF PathOver, next
  <2>3. CASE k \in S
    BY <1>1, <1>2, <2>1, <2>3 DEF PathOver, Follows
  <2> QED BY <2>2, <2>3
<1>6. \A j \in T : IsLast(j, T) => j = i
  BY <1>3 DEF IsLast
<1> HIDE DEF b
<1>7. PathOver(ns, T, from, next, b)
  BY <1>2, <1>4, <1>5, <1>6 DEF PathOver
<1> QED BY <1>2, <1>7 DEF Path, next

(* The portfolio that applies the first order of a path reaches an account *)
(* of the path, and leaves the rest of it.                                 *)
LEMMA PathConsume ==
    ASSUME NEW os, NEW ns, NEW A, NEW S \in SUBSET OrderId, NEW from, NEW to,
           NEW i \in OrderId, IsFirst(i, S),
           \A j \in S \ {i} : ns[j] = os[j], Path(os, S, from, to, A)
    PROVE  /\ ApplyToSnapshot(os[i], from) \in A
           /\ Path(ns, S \ {i}, ApplyToSnapshot(os[i], from), to, A)
<1>1. PICK after \in [OrderId -> A] : PathOver(os, S, from, to, after)
  BY DEF Path
<1> DEFINE T == S \ {i}
           next == ApplyToSnapshot(os[i], from)
<1>2. i \in S /\ after[i] = next /\ \A j \in S : j \in Nat /\ i <= j
  BY <1>1, TradingAssumption DEF IsFirst, PathOver
<1>3. T = {} => next = to
  <2>1. T = {} => IsLast(i, S) BY <1>2 DEF IsLast
  <2> QED BY <1>1, <1>2, <2>1 DEF PathOver
<1>4. ASSUME NEW j \in T, IsFirst(j, T) PROVE after[j] = ApplyToSnapshot(ns[j], next)
  <2>1. Follows(i, j, S) BY <1>2, <1>4 DEF IsFirst, Follows
  <2> QED BY <1>1, <1>2, <2>1 DEF PathOver
<1>5. ASSUME NEW j \in T, NEW k \in T, Follows(j, k, T)
      PROVE  after[k] = ApplyToSnapshot(ns[k], after[j])
  <2>1. Follows(j, k, S) BY <1>2, <1>5 DEF Follows
  <2> QED BY <1>1, <2>1 DEF PathOver
<1>6. ASSUME NEW j \in T, IsLast(j, T) PROVE to = after[j]
  <2>1. IsLast(j, S) BY <1>2, <1>6 DEF IsLast
  <2> QED BY <1>1, <2>1 DEF PathOver
<1> HIDE DEF next
<1>7. PathOver(ns, T, next, to, after)
  BY <1>3, <1>4, <1>5, <1>6 DEF PathOver
<1> QED BY <1>2, <1>7 DEF Path, next

(* The orders that a loop found are a path from the account the portfolio  *)
(* has to the working snapshot, and the portfolio follows that path: none  *)
(* of them has been applied before, and they are applied in the order in   *)
(* which the loop met them.                                                *)
Found(i) == orders[i].type # "NONE" /\ ~orders[i].done

Foreseen ==
    /\ \A i \in OrderId : orders[i].done => IsTerminal(orders[i])
    /\ phase \in {"poll", "submit"} =>
          /\ \A i \in changed : Found(i)
          /\ \A i \in changed, j \in todo : i < j
          /\ Path(orders, changed, pf, work, Account)
    /\ ApplyPhase => /\ \A i \in todo : Found(i)
                     /\ Path(orders, todo, pf, work, Account)
    /\ SnapshotAgrees

(* Before the first tick nothing was found.                                *)
LEMMA InitForeseen == ASSUME Init PROVE Foreseen
  BY DEF Init, Foreseen, UnusedOrder, NewOrder, ApplyPhase, SnapshotAgrees

(* Polling lengthens the path, over whatever accounts it runs. *)
LEMMA PollPath ==
    ASSUME BooksInv, Foreseen, NEW i \in OrderId, PollOrder(i), NEW A, NEW B,
           A \subseteq B, Path(orders, changed, pf, work, A), work' \in B
    PROVE  Path(orders', changed', pf', work', B)
<1> DEFINE r == PollBackend(orders[i], bar[orders[i].sym], open, work)
           moved == r.status # orders[i].status
<1>1. /\ phase = "poll" /\ IsFirst(i, todo) /\ pf' = pf
      /\ orders' = [orders EXCEPT ![i] = r]
      /\ changed' = IF moved THEN changed \cup {i} ELSE changed
      /\ work' = IF moved THEN ApplyToSnapshot(r, work) ELSE work
  BY DEF PollOrder, pfVars
<1> HIDE DEF r
<1>2. changed \subseteq OrderId BY DEF BooksInv, TypeOK
<1>3. \A j \in changed : j < i /\ j # i
  BY <1>1, TradingAssumption, <1>2 DEF Foreseen, IsFirst
<1>4. orders'[i] = r /\ \A j \in changed : orders'[j] = orders[j]
  BY <1>1, <1>2, <1>3 DEF BooksInv, TypeOK
<1>5. PICK ns : ns = orders' OBVIOUS
<1>6. Path(ns, changed, pf, work, B) BY <1>4, <1>5, PathKept
<1>7. CASE moved
  <2>1. Path(ns, changed \cup {i}, pf, ApplyToSnapshot(ns[i], work), B)
    BY <1>1, <1>2, <1>3, <1>4, <1>5, <1>6, <1>7, PathExtend
  <2> QED BY <1>1, <1>4, <1>5, <1>7, <2>1
<1>8. CASE ~moved BY <1>1, <1>5, <1>6, <1>8
<1> QED BY <1>7, <1>8

(* So does submitting. *)
LEMMA SubmitPath ==
    ASSUME BooksInv, Foreseen, NEW i \in OrderId, SubmitOrder(i), NEW A, NEW B,
           A \subseteq B, Path(orders, changed, pf, work, A), work' \in B
    PROVE  Path(orders', changed', pf', work', B)
<1> DEFINE r == SubmitBackend(orders[i], bar[orders[i].sym], open, work)
           moved == r.status \in {"FILLED", "PENDING_SALE"}
<1>1. /\ phase = "submit" /\ i \in todo /\ pf' = pf
      /\ orders' = [orders EXCEPT ![i] = r]
      /\ changed' = IF moved THEN changed \cup {i} ELSE changed
      /\ work' = ApplyToSnapshot(r, work)
  BY DEF SubmitOrder, pfVars, IsFirst
<1> HIDE DEF r
<1>2. changed \subseteq OrderId BY DEF BooksInv, TypeOK
<1>3. \A j \in changed : j < i /\ j # i
  BY <1>1, TradingAssumption, <1>2 DEF Foreseen
<1>4. orders'[i] = r /\ \A j \in changed : orders'[j] = orders[j]
  BY <1>1, <1>2, <1>3 DEF BooksInv, TypeOK
<1>5. PICK ns : ns = orders' OBVIOUS
<1>6. Path(ns, changed, pf, work, B) BY <1>4, <1>5, PathKept
<1>7. CASE moved
  <2>1. Path(ns, changed \cup {i}, pf, ApplyToSnapshot(ns[i], work), B)
    BY <1>1, <1>2, <1>3, <1>4, <1>5, <1>6, <1>7, PathExtend
  <2> QED BY <1>1, <1>4, <1>5, <1>7, <2>1
<1>8. CASE ~moved
  <2>1. ApplyToSnapshot(r, work) = work BY <1>8 DEF ApplyToSnapshot
  <2> QED BY <1>1, <1>5, <1>6, <1>8, <2>1
<1> QED BY <1>7, <1>8

(* And the portfolio walks along it. *)
LEMMA ApplyPath ==
    ASSUME BooksInv, Foreseen, NEW i \in OrderId, Apply(i), NEW A, NEW B,
           A \subseteq B, Path(orders, todo, pf, work, A)
    PROVE  pf' \in B /\ Path(orders', todo', pf', work', B)
<1>0. orders \in [OrderId -> Order] /\ pf \in Account /\ todo \subseteq OrderId
  BY DEF BooksInv, TypeOK
<1>1. /\ ApplyPhase /\ IsFirst(i, todo) /\ (orders[i].done \/ ~Raises(orders[i], pf))
      /\ ApplyOrder(i) /\ todo' = todo \ {i} /\ UNCHANGED work
  BY DEF Apply
<1>2. Found(i) BY <1>1 DEF Foreseen, IsFirst
<1>3. /\ pf' = Applied(orders[i], pf)
      /\ orders' = [orders EXCEPT ![i] = [orders[i] EXCEPT !.done = (orders[i].type = "MARKET")]]
  BY <1>1, <1>2 DEF ApplyOrder, Found
<1>4. Applied(orders[i], pf) = ApplyToSnapshot(orders[i], pf)
  <2>1. (orders[i].type = "BRACKET" /\ orders[i].status = "FILLED") => orders[i].sold # NoExit
    BY DEF BooksInv, Filing
  <2> QED BY <1>0, <1>1, <1>2, <2>1, AppliedIsSnapshot DEF Found
<1>5. PICK ns : ns = orders' OBVIOUS
<1>6. \A j \in todo \ {i} : ns[j] = orders[j] BY <1>0, <1>3, <1>5
<1>7. Path(orders, todo, pf, work, B) BY PathKept
<1>8. /\ ApplyToSnapshot(orders[i], pf) \in B
      /\ Path(ns, todo \ {i}, ApplyToSnapshot(orders[i], pf), work, B)
  BY <1>0, <1>1, <1>6, <1>7, PathConsume
<1> QED BY <1>1, <1>3, <1>4, <1>5, <1>8

(* Every step of the machinery keeps the snapshot ahead of the portfolio.  *)
LEMMA MachineryForeseen == ASSUME BooksInv, Foreseen, Machinery PROVE Foreseen'
<1>0. /\ orders \in [OrderId -> Order] /\ pf \in Account /\ work \in Account
      /\ todo \subseteq OrderId /\ changed \subseteq OrderId /\ pending \subseteq OrderId
      /\ \A i \in OrderId : orders[i] \in Order
      /\ \A i \in OrderId : i \in Nat
      /\ work' \in Account
  BY TradingAssumption, MachineryType DEF BooksInv, TypeOK
<1>1. CASE AnyTick
  <2>1. /\ phase' = "poll" /\ changed' = {} /\ work' = pf /\ UNCHANGED <<orders, pf>>
    BY <1>1 DEF AnyTick, Tick, omVars, pfVars
  <2> QED BY <1>0, <2>1, PathEmpty DEF Foreseen, IsTerminal, ApplyPhase, SnapshotAgrees
<1>2. CASE PollDone
  <2>1. /\ phase = "poll" /\ phase' = "applyPolled" /\ todo' = changed
        /\ UNCHANGED <<orders, pf, work>>
    BY <1>2 DEF PollDone, pfVars
  <2> QED BY <2>1 DEF Foreseen, Found, IsTerminal, ApplyPhase, SnapshotAgrees
<1>3. CASE SubmitDone
  <2>1. /\ phase = "submit" /\ phase' = "applySubmitted" /\ todo' = changed
        /\ UNCHANGED <<orders, pf, work>>
    BY <1>3 DEF SubmitDone, omVars, pfVars
  <2> QED BY <2>1 DEF Foreseen, Found, IsTerminal, ApplyPhase, SnapshotAgrees
<1>4. CASE ApplyDone
  <2>1. /\ ApplyPhase /\ phase' \in {"strategy", "value"} /\ todo = {}
        /\ UNCHANGED <<orders, pf, work>>
    BY <1>4 DEF ApplyDone, omVars, pfVars, loopVars
  <2>2. pf = work BY <1>0, <2>1, PathEmpty DEF Foreseen
  <2> QED BY <2>1, <2>2 DEF Foreseen, IsTerminal, ApplyPhase, SnapshotAgrees
<1>5. CASE ManualDone
  <2>1. phase' = "cancel" /\ UNCHANGED orders BY <1>5 DEF ManualDone, omVars
  <2> QED BY <2>1 DEF Foreseen, IsTerminal, ApplyPhase, SnapshotAgrees
<1>6. CASE Value
  <2>1. phase' \in {"idle", "raised"} /\ UNCHANGED orders BY <1>6 DEF Value, omVars
  <2> QED BY <2>1 DEF Foreseen, IsTerminal, ApplyPhase, SnapshotAgrees
<1>7. CASE Cancel
  <2>1. PICK hit : orders' = [i \in OrderId |->
               IF i \in hit THEN [orders[i] EXCEPT !.status = "CANCELED"] ELSE orders[i]]
    BY <1>7 DEF Cancel
  <2>2. phase' = "submit" /\ changed' = {} /\ work' = pf /\ pf' = pf
    BY <1>7 DEF Cancel, pfVars
  <2>3. \A i \in OrderId : [orders[i] EXCEPT !.status = "CANCELED"].status = "CANCELED"
    BY <1>0 DEF Order
  <2>4. \A i \in OrderId : orders'[i] = orders[i] \/ orders'[i].status = "CANCELED"
    BY <2>1, <2>3
  <2>5. \A i \in OrderId : orders'[i].done => IsTerminal(orders'[i])
    BY <2>4 DEF Foreseen, IsTerminal, Terminal
  <2>6. Path(orders', {}, pf, pf, Account)
    <3>1. PICK os : os = orders' OBVIOUS
    <3> QED BY <1>0, <3>1, PathEmpty
  <2> QED BY <2>2, <2>5, <2>6 DEF Foreseen, IsTerminal, ApplyPhase, SnapshotAgrees
<1>8. ASSUME NEW i \in OrderId, PollOrder(i) PROVE Foreseen'
  <2> DEFINE r == PollBackend(orders[i], bar[orders[i].sym], open, work)
             moved == r.status # orders[i].status
  <2>1. /\ phase = "poll" /\ phase' = "poll" /\ IsFirst(i, todo) /\ pf' = pf
        /\ orders' = [orders EXCEPT ![i] = r] /\ todo' = todo \ {i}
        /\ changed' = IF moved THEN changed \cup {i} ELSE changed
        /\ work' = IF moved THEN ApplyToSnapshot(r, work) ELSE work
    BY <1>8 DEF PollOrder, pfVars
  <2>2. i \in pending /\ i \notin changed BY <2>1 DEF BooksInv, Filing, IsFirst
  <2>3. orders[i].type # "NONE" /\ ~IsTerminal(orders[i]) /\ ~orders[i].done
    BY <2>1, <2>2 DEF BooksInv, Books, Foreseen
  <2>4. bar[orders[i].sym] \in Nat BY <1>0, PriceType DEF Order, BooksInv
  <2>5. SameOrder(orders[i], r) BY <1>0, <2>4, PollSame
  <2> HIDE DEF r
  <2>6. orders'[i] = r /\ \A j \in OrderId : j # i => orders'[j] = orders[j]
    BY <1>0, <2>1
  <2>7. \A j \in changed : j < i
    BY <1>0, <2>1 DEF Foreseen, IsFirst
  <2>8. Path(orders', changed', pf', work', Account)
    BY <1>0, <1>8, PollPath, <2>1 DEF Foreseen
  <2>9. \A j \in changed' : Found(j)'
    BY <1>0, <2>1, <2>3, <2>5, <2>6 DEF Foreseen, Found, SameOrder
  <2>10. \A j \in changed', k \in todo' : j < k
    BY <1>0, <2>1 DEF Foreseen, IsFirst
  <2>11. \A j \in OrderId : orders'[j].done => IsTerminal(orders'[j])
    BY <2>3, <2>5, <2>6 DEF Foreseen, SameOrder
  <2> QED BY <2>1, <2>8, <2>9, <2>10, <2>11 DEF Foreseen, IsTerminal, ApplyPhase, SnapshotAgrees
<1>9. ASSUME NEW i \in OrderId, Apply(i) PROVE Foreseen'
  <2>1. /\ ApplyPhase /\ IsFirst(i, todo) /\ (orders[i].done \/ ~Raises(orders[i], pf))
        /\ ApplyOrder(i) /\ todo' = todo \ {i} /\ UNCHANGED <<work, phase>>
    BY <1>9 DEF Apply
  <2>2. Found(i) /\ i \in todo BY <2>1 DEF Foreseen, IsFirst
  <2>3. /\ pf' = Applied(orders[i], pf)
        /\ orders' = [orders EXCEPT ![i] = [orders[i] EXCEPT !.done = (orders[i].type = "MARKET")]]
    BY <2>1, <2>2 DEF ApplyOrder, Found
  <2>5. \A j \in OrderId : j # i => orders'[j] = orders[j]
    BY <1>0, <2>3
  <2>6. orders'[i].status = orders[i].status /\ orders'[i].done = (orders[i].type = "MARKET")
    BY <1>0, <2>3 DEF Order
  <2>7. Path(orders', todo', pf', work', Account)
    BY <1>9, <2>1, ApplyPath DEF Foreseen
  <2>8. orders[i].type = "MARKET" => IsTerminal(orders[i])
    BY <2>1, <2>2 DEF Raises, Found, IsTerminal
  <2>9. \A j \in OrderId : orders'[j].done => IsTerminal(orders'[j])
    BY <2>5, <2>6, <2>8 DEF Foreseen, IsTerminal
  <2>10. \A j \in todo' : Found(j)'
    BY <1>0, <2>1, <2>5 DEF Foreseen, Found
  <2> QED BY <2>1, <2>7, <2>9, <2>10 DEF Foreseen, IsTerminal, ApplyPhase, SnapshotAgrees
<1>10. ASSUME NEW i \in OrderId, ApplyRaises(i) PROVE Foreseen'
  <2>1. phase' = "raised" /\ UNCHANGED orders BY <1>10 DEF ApplyRaises, omVars
  <2> QED BY <2>1 DEF Foreseen, IsTerminal, ApplyPhase, SnapshotAgrees
<1>11. ASSUME NEW i \in OrderId, ManualSale(i) PROVE Foreseen'
  <2> DEFINE asked == [orders[i] EXCEPT !.manual = TRUE]
             r == PollBackend(asked, bar[asked.sym], open, pf)
  <2>1. /\ phase = "manual" /\ phase' \in {"manual", "raised"} /\ i \in plan.manual
        /\ orders' = [orders EXCEPT ![i] = r]
    BY <1>11 DEF ManualSale
  <2>2. ~orders[i].done
    BY <2>1 DEF BooksInv, Books, Filing, Foreseen
  <2>3. asked \in Order /\ asked.done = orders[i].done BY <1>0 DEF Order
  <2> HIDE DEF asked
  <2>4. bar[asked.sym] \in Nat BY <2>3, PriceType DEF Order, BooksInv
  <2>5. SameOrder(asked, r) BY <1>0, <2>3, <2>4, PollSame
  <2> HIDE DEF r
  <2>6. \A j \in OrderId : orders'[j].done => IsTerminal(orders'[j])
    BY <1>0, <2>1, <2>2, <2>3, <2>5 DEF Foreseen, SameOrder
  <2> QED BY <2>1, <2>6 DEF Foreseen, IsTerminal, ApplyPhase, SnapshotAgrees
<1>12. ASSUME NEW i \in OrderId, SubmitOrder(i) PROVE Foreseen'
  <2> DEFINE r == SubmitBackend(orders[i], bar[orders[i].sym], open, work)
             moved == r.status \in {"FILLED", "PENDING_SALE"}
  <2>1. /\ phase = "submit" /\ phase' = "submit" /\ IsFirst(i, todo) /\ pf' = pf
        /\ orders' = [orders EXCEPT ![i] = r] /\ todo' = todo \ {i}
        /\ changed' = IF moved THEN changed \cup {i} ELSE changed
        /\ work' = ApplyToSnapshot(r, work)
    BY <1>12 DEF SubmitOrder, pfVars
  <2>2. /\ orders[i].type # "NONE" /\ orders[i].status = "PENDING"
        /\ i \in todo
    BY <2>1 DEF BooksInv, Filing, IsFirst
  <2>3. ~orders[i].done BY <2>2 DEF Foreseen, IsTerminal, Terminal
  <2>4. bar[orders[i].sym] \in Nat BY <1>0, PriceType DEF Order, BooksInv
  <2>5. SameOrder(orders[i], r) BY <1>0, <2>4, SubmitSame
  <2> HIDE DEF r
  <2>6. orders'[i] = r /\ \A j \in OrderId : j # i => orders'[j] = orders[j]
    BY <1>0, <2>1
  <2>7. \A j \in changed : j < i /\ j # i
    BY <1>0, <2>1, <2>2 DEF Foreseen
  <2>8. Path(orders', changed', pf', work', Account)
    BY <1>0, <1>12, SubmitPath, <2>1 DEF Foreseen
  <2>9. \A j \in changed' : Found(j)'
    BY <1>0, <2>1, <2>2, <2>3, <2>5, <2>6 DEF Foreseen, Found, SameOrder
  <2>10. \A j \in changed', k \in todo' : j < k
    BY <1>0, <2>1 DEF Foreseen, IsFirst
  <2>11. \A j \in OrderId : orders'[j].done => IsTerminal(orders'[j])
    BY <2>3, <2>5, <2>6 DEF Foreseen, SameOrder
  <2> QED BY <2>1, <2>8, <2>9, <2>10, <2>11 DEF Foreseen, IsTerminal, ApplyPhase, SnapshotAgrees
<1> QED BY <1>1, <1>2, <1>3, <1>4, <1>5, <1>6, <1>7, <1>8, <1>9, <1>10, <1>11, <1>12
        DEF Machinery

(* No strategy hands over an order that was applied before. *)
LEMMA RunStrategyForeseen ==
    ASSUME BooksInv, Foreseen, NEW manual, NEW cancel, NEW new,
           \A k \in DOMAIN new : ~new[k].done,
           RunStrategy(manual, cancel, new)
    PROVE  Foreseen'
<1>1. PICK sent \in SUBSET DOMAIN new :
        orders' = [i \in OrderId |-> IF i \in sent THEN new[i] ELSE orders[i]]
  BY DEF RunStrategy
<1>2. phase' = "manual" BY DEF RunStrategy
<1>3. \A i \in OrderId : orders'[i].done => orders'[i] = orders[i]
  BY <1>1
<1> QED BY <1>2, <1>3 DEF Foreseen, IsTerminal, ApplyPhase, SnapshotAgrees

(* So does a strategy that asks for anything on the menu.                  *)
LEMMA AnyStrategyForeseen == ASSUME BooksInv, Foreseen, AnyStrategy PROVE Foreseen'
<1>0. PICK manual \in {{}} \cup {{i} : i \in {j \in pending : Active(j)}},
           cancel \in {{}, {"MARKET"}, {"BRACKET"}},
           ids \in SUBSET Unused :
        \E asked \in [ids -> {r \in OrderMenu : GetPrice(r.sym) # NoPrice}] :
            RunStrategy(manual, cancel, [i \in ids |-> Requested(asked[i])])
  BY DEF AnyStrategy
<1>1. PICK asked \in [ids -> {r \in OrderMenu : GetPrice(r.sym) # NoPrice}] :
            RunStrategy(manual, cancel, [i \in ids |-> Requested(asked[i])])
  BY <1>0
<1> DEFINE new == [i \in ids |-> Requested(asked[i])]
<1>2. \A r \in OrderMenu : ~Requested(r).done
  BY TradingAssumption DEF Requested, ConfiguredBracket, MarketOrder, FixedBracket, TrailingBracket, NewOrder
<1>3. \A k \in DOMAIN new : ~new[k].done BY <1>2
<1> HIDE DEF new
<1>4. RunStrategy(manual, cancel, new) BY <1>1 DEF new
<1> QED BY <1>3, <1>4, RunStrategyForeseen

(* The path exists throughout.                                             *)
LEMMA ForeseenInvariant == Spec => []Foreseen
<1>1. BooksInv /\ Foreseen /\ [Next]_vars => Foreseen'
  <2>1. ASSUME BooksInv, Foreseen, Next PROVE Foreseen'
    BY <2>1, MachineryForeseen, AnyStrategyForeseen DEF Next
  <2>2. ASSUME Foreseen, UNCHANGED vars PROVE Foreseen'
    BY <2>2 DEF Foreseen, Found, IsTerminal, ApplyPhase, SnapshotAgrees, vars, omVars,
                pfVars, loopVars
  <2> QED BY <2>1, <2>2
<1> QED BY <1>1, InitForeseen, BooksInvariant, PTL DEF Spec

(* The account against which the OrderManager sizes the next order is the  *)
(* account the portfolio really has.                                       *)
THEOREM SnapshotCorrect == Spec => []SnapshotAgrees
<1>1. Foreseen => SnapshotAgrees
  BY DEF Foreseen
<1> QED BY <1>1, ForeseenInvariant, PTL

-----------------------------------------------------------------------------
(* Overdrafts and short positions *)

(* An account that is overdrawn by no more than n commissions.             *)
PaidFor(n) == {a \in Account : a.cash >= -(TxCost * n)}

(* One more execution allows a larger overdraft.                           *)
LEMMA PaidLater ==
    ASSUME NEW m \in Nat, NEW n \in Nat, m <= n PROVE PaidFor(m) \subseteq PaidFor(n)
<1>1. TxCost * m <= TxCost * n
  <2>1. TxCost * (n - m) >= 0 BY OrdersAssumption
  <2> QED BY <2>1, OrdersAssumption
<1>2. PICK x \in Int, y \in Int : x = TxCost * m /\ y = TxCost * n
  BY OrdersAssumption
<1> QED BY <1>1, <1>2 DEF PaidFor, Account

(* Cash affords what it pays for, and a negative number of shares only     *)
(* when it is overdrawn by the price of one.                               *)
LEMMA AffordableSigned ==
    ASSUME NEW cash \in Int, NEW px \in Nat \ {0}
    PROVE  /\ Affordable(cash, px) \in Int
           /\ Affordable(cash, px) > 0 => px * Affordable(cash, px) <= cash
           /\ Affordable(cash, px) < 0 => px <= -cash
<1>1. CASE cash >= 0
  BY <1>1 DEF Affordable
<1>2. CASE ~(cash >= 0)
  <2>1. PICK m \in Nat : m = -cash /\ m > 0 BY <1>2
  <2>2. PICK d \in Nat : d = m \div px BY <2>1
  <2>3. m < px => d = 0 BY <2>1, <2>2
  <2>4. Affordable(cash, px) = -d BY <1>2, <2>1, <2>2 DEF Affordable
  <2> QED BY <2>1, <2>2, <2>3, <2>4
<1> QED BY <1>1, <1>2

(* The size of an entry, which is clamped to what the cash affords, is     *)
(* paid for or negative, and negative only in such an overdraft.           *)
LEMMA SizeSigned ==
    ASSUME NEW want \in Nat, NEW cash \in Int, NEW px \in Nat \ {0}
    PROVE  \E q \in Int : /\ q = Lesser(want, Affordable(cash, px))
                          /\ q <= 0 \/ px * q <= cash
                          /\ q < 0 => px <= -cash
<1>1. PICK h \in Int : /\ h = Affordable(cash, px)
                       /\ h > 0 => px * h <= cash
                       /\ h < 0 => px <= -cash
  BY AffordableSigned
<1>2. PICK q \in Int : q = Lesser(want, h) BY DEF Lesser
<1>3. q <= want /\ q <= h /\ (q = want \/ q = h) BY <1>2 DEF Lesser
<1>4. q > 0 => px * q <= px * h
  <2>1. px * (h - q) >= 0 BY <1>3
  <2> QED BY <1>3, <2>1
<1>5. q > 0 => px * q <= cash
  <2>1. PICK x \in Int, y \in Int : x = px * q /\ y = px * h OBVIOUS
  <2> QED BY <1>1, <1>3, <1>4, <2>1
<1> QED BY <1>1, <1>2, <1>3, <1>5

(* A purchase that the cash pays for, or a negative one, overdraws it by a *)
(* commission more.                                                        *)
LEMMA BoughtPaid ==
    ASSUME NEW n \in Nat, NEW a \in PaidFor(n), NEW s \in Symbols, NEW q \in Int,
           NEW px \in Nat \ {0}, q <= 0 \/ px * q <= a.cash
    PROVE  Bought(a, s, q, px) \in PaidFor(n + 1)
<1> DEFINE b == Bought(a, s, q, px)
<1>1. a \in Account /\ a.cash \in Int /\ a.cash >= -(TxCost * n)
  BY DEF PaidFor, Account
<1>2. b \in Account BY <1>1, BoughtType
<1>3. PICK x \in Int, y \in Int, z \in Int : x = TxCost * n /\ y = px * q /\ z = TxCost * (n + 1)
  BY OrdersAssumption
<1>4. z = x + TxCost /\ x >= 0 BY <1>3, OrdersAssumption
<1>5. q <= 0 => y <= 0
  <2>1. px * (-q) = -y BY <1>3
  <2>2. q <= 0 => px * (-q) >= 0 OBVIOUS
  <2> QED BY <1>3, <2>1, <2>2
<1>6. b.cash = a.cash - y - TxCost BY <1>3 DEF Bought
<1>7. b.cash >= -z BY <1>1, <1>3, <1>4, <1>5, <1>6, OrdersAssumption
<1> HIDE DEF b
<1>8. b \in PaidFor(n + 1) BY <1>2, <1>3, <1>7 DEF PaidFor
<1> QED BY <1>8 DEF b

(* So does a sale of no negative quantity.                                 *)
LEMMA SoldPaid ==
    ASSUME NEW n \in Nat, NEW a \in PaidFor(n), NEW s \in Symbols, NEW q \in Nat,
           NEW px \in Nat, NEW closed \in BOOLEAN
    PROVE  Sold(a, s, q, px, closed) \in PaidFor(n + 1)
<1> DEFINE b == Sold(a, s, q, px, closed)
<1>1. a \in Account /\ a.cash \in Int /\ a.cash >= -(TxCost * n)
  BY DEF PaidFor, Account
<1>2. b \in Account BY <1>1, SoldType
<1>3. PICK x \in Int, y \in Int, z \in Int : x = TxCost * n /\ y = px * q /\ z = TxCost * (n + 1)
  BY OrdersAssumption
<1>4. z = x + TxCost /\ y >= 0 BY <1>3, OrdersAssumption
<1>5. b.cash = a.cash + y - TxCost BY <1>3 DEF Sold
<1>6. b.cash >= -z BY <1>1, <1>3, <1>4, <1>5, OrdersAssumption
<1> HIDE DEF b
<1>7. b \in PaidFor(n + 1) BY <1>2, <1>3, <1>6 DEF PaidFor
<1> QED BY <1>7 DEF b

(* The shares of the symbols after a purchase, *)
LEMMA BoughtShares ==
    ASSUME NEW a \in Account, NEW s \in Symbols, NEW q \in Int, NEW px \in Int
    PROVE  \A t \in Symbols : Shares(Bought(a, s, q, px), t) =
              IF t = s THEN Shares(a, s) + q ELSE Shares(a, t)
<1>1. PICK b : b = Bought(a, s, q, px) OBVIOUS
<1>2. b.held = a.held \cup {s} /\ b.qty = [a.qty EXCEPT ![s] = Shares(a, s) + q]
  BY <1>1 DEF Bought
<1>3. \A t \in Symbols : Shares(b, t) = IF t = s THEN Shares(a, s) + q ELSE Shares(a, t)
  BY <1>2 DEF Shares, Account
<1> QED BY <1>1, <1>3, Zenon

(* and after a sale of shares that are there.                              *)
LEMMA SoldShares ==
    ASSUME NEW a \in Account, NEW s \in Symbols, NEW q \in Int, NEW px \in Int,
           NEW closed \in BOOLEAN, q <= Shares(a, s)
    PROVE  /\ Shares(Sold(a, s, q, px, closed), s) >= 0
           /\ \A t \in Symbols :
                 t # s => Shares(Sold(a, s, q, px, closed), t) = Shares(a, t)
<1>0. PICK b : b = Sold(a, s, q, px, closed) OBVIOUS
<1>1. /\ b.held = IF closed THEN a.held \ {s} ELSE a.held
      /\ b.qty = [a.qty EXCEPT ![s] = IF closed THEN 0 ELSE @ - q]
  BY <1>0 DEF Sold
<1>2. \A t \in Symbols : t # s => Shares(b, t) = Shares(a, t)
  BY <1>1 DEF Shares, Account
<1>3. Shares(b, s) \in {0, Shares(a, s) - q}
  BY <1>1 DEF Shares, Account
<1>4. Shares(a, s) \in Int BY SharesType
<1>5. Shares(b, s) >= 0 BY <1>3, <1>4
<1> QED BY <1>0, <1>2, <1>5, Zenon

(* A waiting order asks for no negative quantity, and an order has a fill  *)
(* price exactly from its entry on.                                        *)
Sane(o) ==
    /\ o.type = "MARKET" => o.status # "PENDING_SALE"
    /\ o.status = "PENDING" => o.qty >= 0 /\ o.price = NoPrice
    /\ (o.type = "BRACKET" /\ o.status \in {"PENDING_SALE", "FILLED"}) => o.price # NoPrice

(* A bracket has bought once it has a fill price, a market order when it   *)
(* is filled.                                                              *)
HasBought(o) == IF o.type = "BRACKET" THEN o.price # NoPrice
                ELSE o.action = "BUY" /\ o.status = "FILLED"

(* What an order o that becomes r leaves of the account a that n executions *)
(* left, when m are counted with its own: it is overdrawn by commissions   *)
(* only unless the order bought back what was short, and the order has not *)
(* made its symbol short unless it is a negative purchase itself.          *)
Outcome(o, r, a, b, n, m) ==
    /\ b \in Account
    /\ a \in PaidFor(n) => b \in PaidFor(m) \/ BuysBack(r)
    /\ \A s \in Symbols : s # o.sym => Shares(b, s) = Shares(a, s)
    /\ \/ Shares(b, o.sym) >= 0
       \/ ShortSale(r) /\ (a \in PaidFor(n) => r.price <= TxCost * (m - 1))
       \/ /\ Shares(b, o.sym) >= Shares(a, o.sym)
          /\ ShortSale(o) => ShortSale(r) /\ r.price = o.price

(* The order executes as it becomes r.                                     *)
Deals(o, r) == (~HasBought(o) /\ HasBought(r)) \/ Sells(r)

Counted(o, r, n, m) == n <= m /\ (Deals(o, r) => n + 1 <= m)

(* Nothing happens to an order that keeps its status.                      *)
LEMMA NoOutcome ==
    ASSUME NEW o \in Order, NEW r, NEW a \in Account, NEW n \in Nat, NEW m \in Nat, n <= m,
           ShortSale(o) => ShortSale(r) /\ r.price = o.price
    PROVE  Outcome(o, r, a, a, n, m)
<1>1. o.sym \in Symbols /\ Shares(a, o.sym) \in Int BY SharesType DEF Order
<1> QED BY <1>1, PaidLater DEF Outcome

(* What a market order trades it has the money or the shares for.          *)
LEMMA MarketOutcome ==
    ASSUME NEW o \in Order, o.type = "MARKET", o.status = "PENDING", Sane(o),
           NEW a \in Account, NEW px \in Nat \ {0},
           NEW r, r = ProcessMarket(o, px, a), NEW n \in Nat, NEW m \in Nat, Counted(o, r, n, m)
    PROVE  Sane(r) /\ Outcome(o, r, a, ApplyToSnapshot(r, a), n, m)
<1> DEFINE have == IF o.action = "SELL" THEN Shares(a, o.sym) ELSE Affordable(a.cash, px)
<1>1. /\ a.cash \in Int /\ Shares(a, o.sym) \in Int
      /\ o.sym \in Symbols /\ o.qty \in Nat /\ o.action \in {"BUY", "SELL"}
  BY SharesType DEF Sane, Order, Action, Account
<1>2. have \in Int BY <1>1, AffordableSigned
<1>3. PICK tx \in Int : tx = Lesser(o.qty, have) BY <1>1, <1>2 DEF Lesser
<1>4. /\ r.type = "MARKET" /\ r.action = o.action /\ r.sym = o.sym
      /\ r.qty = tx /\ r.price = px
      /\ r.status = IF tx <= 0 THEN "CANCELED" ELSE "FILLED"
  BY <1>3 DEF ProcessMarket, Order, Lesser
<1>5. Sane(r) /\ ~ShortSale(o) BY <1>4 DEF Sane, ShortSale
<1>6. CASE tx <= 0
  <2>1. ApplyToSnapshot(r, a) = a BY <1>4, <1>6 DEF ApplyToSnapshot
  <2> QED BY <1>5, <2>1, NoOutcome DEF Counted
<1>7. CASE tx > 0 /\ o.action = "BUY"
  <2>1. ApplyToSnapshot(r, a) = Bought(a, o.sym, tx, px)
    BY <1>4, <1>7 DEF ApplyToSnapshot
  <2>2. tx = Lesser(o.qty, Affordable(a.cash, px)) BY <1>3, <1>7
  <2>20. PICK q \in Int : /\ q = Lesser(o.qty, Affordable(a.cash, px))
                          /\ q <= 0 \/ px * q <= a.cash
    BY <1>1, SizeSigned
  <2>21. px * tx <= a.cash BY <1>7, <2>2, <2>20
  <2>3. n + 1 <= m BY <1>4, <1>7 DEF Counted, Deals, HasBought
  <2>4. a \in PaidFor(n) => Bought(a, o.sym, tx, px) \in PaidFor(m)
    BY <1>1, <2>21, <2>3, BoughtPaid, PaidLater
  <2>5. Bought(a, o.sym, tx, px) \in Account BY <1>1, BoughtType
  <2>6. \A t \in Symbols : Shares(Bought(a, o.sym, tx, px), t) =
            IF t = o.sym THEN Shares(a, o.sym) + tx ELSE Shares(a, t)
    BY <1>1, BoughtShares
  <2> QED BY <1>1, <1>5, <1>7, <2>1, <2>4, <2>5, <2>6 DEF Outcome
<1>8. CASE tx > 0 /\ o.action = "SELL"
  <2>1. tx <= Shares(a, o.sym) /\ o.sym \in a.held
    BY <1>1, <1>3, <1>8 DEF Shares, Lesser
  <2> DEFINE closed == a.qty[o.sym] - tx <= 0
  <2>2. closed \in BOOLEAN OBVIOUS
  <2> DEFINE b == Sold(a, o.sym, tx, px, closed)
  <2>3. ApplyToSnapshot(r, a) = b
    BY <1>4, <1>8, <2>1 DEF ApplyToSnapshot
  <2> HIDE DEF closed
  <2>4. n + 1 <= m BY <1>4, <1>8 DEF Counted, Deals, Sells
  <2>5. a \in PaidFor(n) => b \in PaidFor(m)
    BY <1>1, <1>8, <2>2, <2>4, SoldPaid, PaidLater
  <2>6. b \in Account BY <1>1, <2>2, SoldType
  <2>7. /\ Shares(b, o.sym) >= 0
        /\ \A t \in Symbols : t # o.sym => Shares(b, t) = Shares(a, t)
    BY <1>1, <2>1, <2>2, SoldShares
  <2> HIDE DEF b
  <2> QED BY <1>1, <1>5, <2>3, <2>5, <2>6, <2>7 DEF Outcome
<1> QED BY <1>1, <1>6, <1>7, <1>8

(* An entry is clamped to the cash at hand. *)
LEMMA EntryFields ==
    ASSUME NEW o \in Order, NEW px \in Nat \ {0}, NEW a \in Account,
           NEW r \in {EnterBracket(o, px, a), EnterDeferred(o, px, a)}
    PROVE  /\ r.qty = Lesser(o.qty, Affordable(a.cash, px)) /\ r.price = px
           /\ r.status = "PENDING_SALE"
<1> DEFINE q == Lesser(o.qty, Affordable(a.cash, px))
           e == [o EXCEPT !.status = "PENDING_SALE", !.price = px, !.qty = q]
           m == [e EXCEPT !.hwm = px]
           b == EnterBracket(o, px, a)
           d == EnterDeferred(o, px, a)
<1>1. /\ e.qty = q /\ e.price = px /\ e.status = "PENDING_SALE"
      /\ Trail(m, px).qty = q /\ Trail(m, px).price = px
      /\ Trail(m, px).status = "PENDING_SALE"
  BY DEF Order, Trail
<1>2. b = IF o.trailing THEN Trail(m, px) ELSE e
  BY DEF EnterBracket
<1>3. b \in Order BY EnterBracketType
<1> HIDE DEF q, e, m, b
<1>4. b.qty = q /\ b.price = px /\ b.status = "PENDING_SALE"
  BY <1>1, <1>2
<1>5. d.qty = b.qty /\ d.price = b.price /\ d.status = b.status
  BY <1>3 DEF EnterDeferred, b, Order
<1> HIDE DEF d
<1> QED BY <1>4, <1>5 DEF b, d, q

(* An entry is paid for, or it is a negative purchase on cash that the     *)
(* commissions overdrew by the price of a share.                           *)
LEMMA EntryOutcome ==
    ASSUME NEW o \in Order, o.type = "BRACKET", o.status = "PENDING", Sane(o),
           NEW a \in Account, NEW px \in Nat \ {0},
           NEW r \in {EnterBracket(o, px, a), EnterDeferred(o, px, a)},
           NEW n \in Nat, NEW m \in Nat, Counted(o, r, n, m)
    PROVE  Sane(r) /\ Outcome(o, r, a, ApplyToSnapshot(r, a), n, m)
<1>1. a.cash \in Int /\ o.sym \in Symbols /\ o.qty \in Nat /\ Shares(a, o.sym) \in Int
  BY SharesType DEF Sane, Order, Account
<1>2. PICK q \in Int : /\ q = Lesser(o.qty, Affordable(a.cash, px))
                       /\ q <= 0 \/ px * q <= a.cash
                       /\ q < 0 => px <= -a.cash
  BY <1>1, SizeSigned
<1>3. SameOrder(o, r) BY EnterBracketSame, EnterDeferredSame
<1>4. r.qty = q /\ r.price = px /\ r.status = "PENDING_SALE" /\ r.type = "BRACKET"
  BY <1>2, <1>3, EntryFields DEF SameOrder
<1>5. Sane(r) /\ ~ShortSale(o) BY <1>4 DEF Sane, ShortSale, NoPrice
<1>6. ApplyToSnapshot(r, a) = Bought(a, o.sym, q, px)
  BY <1>3, <1>4 DEF ApplyToSnapshot, SameOrder
<1>7. n + 1 <= m BY <1>4 DEF Counted, Deals, HasBought, Sane, NoPrice
<1>8. a \in PaidFor(n) => Bought(a, o.sym, q, px) \in PaidFor(m)
  BY <1>1, <1>2, <1>7, BoughtPaid, PaidLater
<1>9. Bought(a, o.sym, q, px) \in Account BY <1>1, BoughtType
<1>10. \A t \in Symbols : Shares(Bought(a, o.sym, q, px), t) =
           IF t = o.sym THEN Shares(a, o.sym) + q ELSE Shares(a, t)
  BY <1>1, BoughtShares
<1>11. CASE q >= 0
  BY <1>1, <1>5, <1>6, <1>8, <1>9, <1>10, <1>11 DEF Outcome
<1>12. CASE q < 0
  <2>1. ShortSale(r) BY <1>4, <1>12 DEF ShortSale, NoPrice
  <2>2. a \in PaidFor(n) => px <= TxCost * (m - 1)
    <3>1. PICK k \in Nat : k = m - 1 BY <1>7
    <3>2. PaidFor(n) \subseteq PaidFor(k) BY <1>7, <3>1, PaidLater
    <3>3. PICK x \in Int : x = TxCost * k BY OrdersAssumption
    <3> QED BY <1>1, <1>2, <1>12, <3>1, <3>2, <3>3 DEF PaidFor
  <2> QED BY <1>1, <1>4, <1>5, <1>6, <1>8, <1>9, <1>10, <2>1, <2>2 DEF Outcome
<1> QED BY <1>1, <1>2, <1>11, <1>12

(* An exit sells what is there: it leaves no short position, and costs     *)
(* money only when it buys back what was short.                            *)
LEMMA SaleOutcome ==
    ASSUME NEW o \in Order, NEW a \in Account, NEW px \in Nat \ {0}, NEW r \in Order,
           r.type = "BRACKET", r.status = "FILLED", r.sym = o.sym,
           r.sold.qty <= Shares(a, o.sym), r.sold.price = px,
           NEW n \in Nat, NEW m \in Nat, Counted(o, r, n, m)
    PROVE  Outcome(o, r, a, ApplyToSnapshot(r, a), n, m)
<1>1. o.sym \in Symbols /\ Shares(a, o.sym) \in Int
  BY SharesType DEF Order
<1>2. PICK q \in Int : q = r.sold.qty BY DEF Order, Exit
<1>3. r.sold # NoExit BY DEF NoExit, NoPrice
<1>4. n + 1 <= m BY DEF Counted, Deals, Sells
<1>5. BuysBack(r) \/ q >= 0 BY <1>2 DEF BuysBack
<1>6. CASE o.sym \in a.held
  <2> DEFINE closed == a.qty[o.sym] - q <= 0
  <2>1. closed \in BOOLEAN OBVIOUS
  <2> DEFINE b == Sold(a, o.sym, q, px, closed)
  <2>2. ApplyToSnapshot(r, a) = b
    BY <1>2, <1>3, <1>6 DEF ApplyToSnapshot
  <2> HIDE DEF closed
  <2>3. b \in Account BY <1>1, <2>1, SoldType
  <2>4. (a \in PaidFor(n) /\ q >= 0) => b \in PaidFor(m)
    BY <1>1, <1>4, <2>1, SoldPaid, PaidLater
  <2>5. /\ Shares(b, o.sym) >= 0
        /\ \A t \in Symbols : t # o.sym => Shares(b, t) = Shares(a, t)
    BY <1>1, <1>2, <2>1, SoldShares
  <2> HIDE DEF b
  <2> QED BY <1>1, <1>5, <2>2, <2>3, <2>4, <2>5 DEF Outcome
<1>7. CASE o.sym \notin a.held
  <2>1. ApplyToSnapshot(r, a) = a BY <1>3, <1>7 DEF ApplyToSnapshot
  <2>2. Shares(a, o.sym) >= 0 BY <1>7 DEF Shares
  <2> QED BY <1>4, <2>1, <2>2, PaidLater DEF Outcome
<1> QED BY <1>6, <1>7

(* What a bar does to a bracket that waits for its exit.                   *)
LEMMA HoldOutcome ==
    ASSUME NEW o \in Order, o.type = "BRACKET", o.status = "PENDING_SALE", Sane(o),
           NEW a \in Account, NEW px \in Nat \ {0},
           NEW r, r = HoldBracket(o, px, a),
           NEW n \in Nat, NEW m \in Nat, Counted(o, r, n, m)
    PROVE  LET b == IF r.status = o.status THEN a ELSE ApplyToSnapshot(r, a)
           IN  Sane(r) /\ Outcome(o, r, a, b, n, m)
<1> DEFINE t == IF o.trailing THEN Trail(o, px) ELSE o
           have == Shares(a, o.sym)
<1>1. o.sym \in Symbols /\ have \in Int /\ o.qty \in Int /\ o.legQty \in Int /\ o.price # NoPrice
  BY SharesType DEF Order, Sane
<1>2. /\ t \in Order /\ t.type = "BRACKET" /\ t.status = "PENDING_SALE"
      /\ t.sym = o.sym /\ t.qty = o.qty /\ t.legQty = o.legQty /\ t.price = o.price
  <2>1. px \in Int OBVIOUS
  <2>2. LET u == Trail(o, px)
        IN  /\ u.type = o.type /\ u.status = o.status /\ u.sym = o.sym
            /\ u.qty = o.qty /\ u.legQty = o.legQty /\ u.price = o.price
    BY DEF Trail, Order
  <2> QED BY <2>1, <2>2, TrailType
<1>3. r \in {SellManually(o, px, a), FillExit(t, "STOP", px, a),
             FillExit(t, "PROFIT", px, a), t}
  BY DEF HoldBracket
<1> HIDE DEF t
<1>4. ASSUME r.status = "FILLED", r \in Order, r.type = "BRACKET", r.sym = o.sym,
             r.price = o.price, r.sold.qty <= have, r.sold.price = px
      PROVE  LET b == IF r.status = o.status THEN a ELSE ApplyToSnapshot(r, a)
             IN  Sane(r) /\ Outcome(o, r, a, b, n, m)
  <2>1. Sane(r) BY <1>1, <1>4 DEF Sane
  <2>2. Outcome(o, r, a, ApplyToSnapshot(r, a), n, m) BY <1>4, SaleOutcome
  <2> QED BY <1>4, <2>1, <2>2
<1>5. ASSUME NEW leg \in {"STOP", "PROFIT"}, r = FillExit(t, leg, px, a)
      PROVE  LET b == IF r.status = o.status THEN a ELSE ApplyToSnapshot(r, a)
             IN  Sane(r) /\ Outcome(o, r, a, b, n, m)
  <2>1. r \in Order BY <1>2, <1>5, FillExitType DEF Leg
  <2>2. /\ r.type = t.type /\ r.status = "FILLED" /\ r.sym = t.sym /\ r.price = t.price
        /\ r.sold.qty = Lesser(t.legQty, Shares(a, t.sym)) /\ r.sold.price = px
    BY <1>2, <1>5 DEF FillExit, Order
  <2>3. r.sold.qty <= have BY <1>1, <1>2, <2>2 DEF Lesser
  <2> HIDE DEF have
  <2> QED BY <1>2, <1>4, <2>1, <2>2, <2>3
<1>6. CASE r = SellManually(o, px, a)
  <2>1. r \in Order BY <1>6, SellManuallyType
  <2>2. /\ r.type = o.type /\ r.status = "FILLED" /\ r.sym = o.sym /\ r.price = o.price
        /\ r.sold.qty = Lesser(o.qty, have) /\ r.sold.price = px
    BY <1>6 DEF SellManually, ProcessMarket, MarketOrder, NewOrder, Order
  <2>3. r.sold.qty <= have BY <1>1, <2>2 DEF Lesser
  <2> HIDE DEF have
  <2> QED BY <1>4, <2>1, <2>2, <2>3
<1>7. CASE r = t
  <2>1. Sane(r) BY <1>1, <1>2, <1>7 DEF Sane
  <2>2. ShortSale(o) => ShortSale(r) /\ r.price = o.price
    BY <1>2, <1>7 DEF ShortSale
  <2>3. Outcome(o, r, a, a, n, m) BY <2>2, NoOutcome DEF Counted
  <2> QED BY <1>2, <1>7, <2>1, <2>3
<1> QED BY <1>3, <1>5, <1>6, <1>7

(* Whatever a bar does to an order, *)
LEMMA PollOutcome ==
    ASSUME NEW o \in Order, o.type \in {"MARKET", "BRACKET"}, o.status \notin Terminal,
           Sane(o),
           NEW a \in Account, NEW px \in Nat, NEW op,
           NEW r, r = PollBackend(o, px, op, a),
           NEW n \in Nat, NEW m \in Nat, Counted(o, r, n, m)
    PROVE  LET b == IF r.status = o.status THEN a ELSE ApplyToSnapshot(r, a)
           IN  /\ Sane(r) /\ (o.type = "BRACKET" => r.status # "CANCELED")
               /\ Outcome(o, r, a, b, n, m)
<1>1. CASE r = o
  <2>1. Outcome(o, r, a, a, n, m) BY <1>1, NoOutcome DEF Counted
  <2> QED BY <1>1, <2>1 DEF Terminal
<1>2. CASE px # NoPrice /\ op
  <2>1. px \in Nat \ {0} /\ o.status \in {"PENDING", "PENDING_SALE"}
    BY <1>2 DEF NoPrice, Order, Status, Terminal
  <2>2. CASE o.type = "MARKET"
    <3>1. r = ProcessMarket(o, px, a) BY <1>2, <2>1, <2>2 DEF PollBackend
    <3>2. o.status = "PENDING" BY <2>1, <2>2 DEF Sane
    <3>3. r.status # o.status BY <3>1, <3>2 DEF ProcessMarket, Order
    <3> QED BY <2>2, <2>1, <3>1, <3>2, <3>3, MarketOutcome
  <2>3. CASE o.type = "BRACKET" /\ o.status = "PENDING"
    <3>1. r = EnterDeferred(o, px, a) BY <1>2, <2>3 DEF PollBackend
    <3>2. r.status = "PENDING_SALE" BY <2>1, <3>1, EntryFields
    <3>3. Sane(r) /\ Outcome(o, r, a, ApplyToSnapshot(r, a), n, m)
      BY <2>1, <2>3, <3>1, EntryOutcome
    <3> QED BY <2>3, <3>2, <3>3
  <2>4. CASE o.type = "BRACKET" /\ o.status = "PENDING_SALE"
    <3>1. r = HoldBracket(o, px, a) BY <1>2, <2>4 DEF PollBackend
    <3> DEFINE t == IF o.trailing THEN Trail(o, px) ELSE o
    <3>2. HoldBracket(o, px, a) \in
             {SellManually(o, px, a), FillExit(t, "STOP", px, a), FillExit(t, "PROFIT", px, a), t}
      BY DEF HoldBracket
    <3>3. t \in Order /\ t.status = o.status BY TrailType, TrailKeeps
    <3> HIDE DEF t
    <3>4. /\ SellManually(o, px, a).status = "FILLED"
          /\ \A leg : FillExit(t, leg, px, a).status = "FILLED"
      BY <3>3 DEF SellManually, FillExit, Order
    <3>5. r.status \in {o.status, "FILLED"} BY <3>1, <3>2, <3>3, <3>4
    <3> QED BY <2>1, <2>4, <3>1, <3>5, HoldOutcome
  <2> QED BY <2>1, <2>2, <2>3, <2>4
<1> QED BY <1>1, <1>2 DEF PollBackend

(* and whatever submitting it does.                                        *)
LEMMA SubmitOutcome ==
    ASSUME NEW o \in Order, o.type \in {"MARKET", "BRACKET"}, o.status = "PENDING",
           Sane(o), NEW a \in Account, NEW px \in Nat, NEW op,
           NEW r, r = SubmitBackend(o, px, op, a),
           NEW n \in Nat, NEW m \in Nat, Counted(o, r, n, m)
    PROVE  Sane(r) /\ Outcome(o, r, a, ApplyToSnapshot(r, a), n, m)
<1>1. CASE r = o
  <2>1. ApplyToSnapshot(o, a) = a BY DEF ApplyToSnapshot
  <2>2. Outcome(o, r, a, a, n, m) BY <1>1, NoOutcome DEF Counted
  <2> QED BY <1>1, <2>1, <2>2
<1>2. CASE px # NoPrice /\ op
  <2>1. px \in Nat \ {0} BY <1>2 DEF NoPrice
  <2>2. CASE o.type = "MARKET"
    <3>1. r = ProcessMarket(o, px, a) BY <1>2, <2>2 DEF SubmitBackend
    <3> QED BY <2>1, <2>2, <3>1, MarketOutcome
  <2>3. CASE o.type = "BRACKET"
    <3>1. r = EnterBracket(o, px, a) BY <1>2, <2>3 DEF SubmitBackend
    <3> QED BY <2>1, <2>3, <3>1, EntryOutcome
  <2> QED BY <2>2, <2>3
<1> QED BY <1>1, <1>2 DEF SubmitBackend

(* The executions of a run are finitely many.                              *)
LEMMA ExecutionsBounded ==
    ASSUME NEW E \in SUBSET (OrderId \X {"BUY", "SELL"})
    PROVE  IsFiniteSet(E) /\ Cardinality(E) \in Nat
<1>1. IsFiniteSet({"BUY", "SELL"})
  <2>1. IsFiniteSet({"BUY"}) BY FS_Singleton
  <2>2. {"BUY", "SELL"} = {"BUY"} \cup {"SELL"} OBVIOUS
  <2> QED BY <2>1, <2>2, FS_AddElement
<1>2. IsFiniteSet(OrderId \X {"BUY", "SELL"}) BY <1>1, LedgerAssumption, FS_Product
<1>3. IsFiniteSet(E) BY <1>2, FS_Subset
<1> QED BY <1>3, FS_CardinalityType

(* The executions so far, and a step that takes none of them back.         *)
Executed == Cardinality(Executions)

Grows ==
    /\ \A i \in OrderId : (BoughtBy(i) => BoughtBy(i)') /\ (SoldBy(i) => SoldBy(i)')

Executes(i) == (~BoughtBy(i) /\ BoughtBy(i)') \/ (~SoldBy(i) /\ SoldBy(i)')

(* What was executed stays so, and an order that executes is counted.      *)
LEMMA ExecutedGrows ==
    ASSUME Grows
    PROVE  /\ Executed \in Nat /\ Executed' \in Nat /\ Executed <= Executed'
           /\ \A i \in OrderId : Executes(i) => Executed + 1 <= Executed'
<1>1. Executions \in SUBSET (Executions') BY DEF Executions, Grows
<1>2. /\ Executions \in SUBSET (OrderId \X {"BUY", "SELL"})
      /\ Executions' \in SUBSET (OrderId \X {"BUY", "SELL"})
  BY DEF Executions
<1>3. PICK E, F : E = Executions /\ F = Executions' OBVIOUS
<1>4. /\ IsFiniteSet(E) /\ Cardinality(E) \in Nat
      /\ IsFiniteSet(F) /\ Cardinality(F) \in Nat
  BY <1>2, <1>3, ExecutionsBounded
<1>5. Cardinality(E) <= Cardinality(F) BY <1>1, <1>3, <1>4, FS_Subset
<1>6. ASSUME NEW i \in OrderId, Executes(i)
      PROVE  Cardinality(E) + 1 <= Cardinality(F)
  <2>1. PICK e : e \notin E /\ e \in F
    BY <1>3, <1>6 DEF Executes, Executions
  <2>2. E \cup {e} \in SUBSET F BY <1>1, <1>3, <2>1
  <2>3. Cardinality(E \cup {e}) = Cardinality(E) + 1
    BY <1>4, <2>1, FS_AddElement
  <2> QED BY <1>4, <2>2, <2>3, FS_Subset
<1> QED BY <1>3, <1>4, <1>5, <1>6 DEF Executed

(* BoughtBy, through the order alone.                                      *)
LEMMA BoughtByIs ==
    \A i : BoughtBy(i) <=> i \in Known /\ HasBought(orders[i])
  BY DEF BoughtBy, HasBought

(* Polling an order undoes nothing.                                        *)
LEMMA PollUndoesNothing ==
    ASSUME NEW o \in Order, NEW r \in Order, Sane(o), Sane(r), SameOrder(o, r),
           o.type \in {"MARKET", "BRACKET"}, o.status \notin Terminal,
           o.type = "BRACKET" => r.status # "CANCELED",
           r.status = o.status \/ <<o.status, r.status>> \in Lifecycle!Moves
    PROVE  /\ HasBought(o) => HasBought(r)
           /\ ~Sells(o)
<1>1. o.status \in {"PENDING", "PENDING_SALE"} BY DEF Order, Status, Terminal
<1>2. o.status = "PENDING_SALE" => r.status \in {"PENDING_SALE", "FILLED", "CANCELED"}
  BY DEF Lifecycle!Moves
<1>3. HasBought(o) => HasBought(r)
  BY <1>1, <1>2 DEF HasBought, Sane, SameOrder
<1>4. ~Sells(o) BY <1>1 DEF Sells
<1> QED BY <1>3, <1>4

(* An account of the run, when the orders are os, those in K are known and *)
(* n executions were counted: it is overdrawn by their commissions only,   *)
(* and short only of what a bracket sold short at a price that the         *)
(* commissions before it cover, unless some bracket has bought back what   *)
(* was short.                                                              *)
Redeemed(os) == \E i \in OrderId : BuysBack(os[i])

Sound(a, os, K, n) ==
    /\ a \in Account
    /\ a \in PaidFor(n) \/ Redeemed(os)
    /\ \A s \in Symbols : Shares(a, s) < 0 =>
          \E i \in OrderId : /\ i \in K /\ ShortSale(os[i]) /\ os[i].sym = s
                             /\ os[i].price <= TxCost * (n - 1) \/ Redeemed(os)

(* A short sale that was covered by the commissions of n executions is     *)
(* covered by those of more.                                               *)
LEMMA DearStays ==
    ASSUME NEW p \in Int, NEW n \in Nat, NEW m \in Nat, n <= m, p <= TxCost * (n - 1)
    PROVE  p <= TxCost * (m - 1)
<1>1. TxCost * (m - n) >= 0 BY OrdersAssumption
<1>2. TxCost * (m - 1) = TxCost * (n - 1) + TxCost * (m - n) BY OrdersAssumption
<1>3. PICK x \in Int, y \in Int, z \in Int :
          x = TxCost * (m - 1) /\ y = TxCost * (n - 1) /\ z = TxCost * (m - n)
  BY OrdersAssumption
<1> QED BY <1>1, <1>2, <1>3

(* An account that no order touches stays sound.                           *)
LEMMA SoundKept ==
    ASSUME NEW os \in [OrderId -> Order], NEW ns \in [OrderId -> Order],
           NEW K, NEW L, K \subseteq L,
           NEW n \in Nat, NEW m \in Nat, n <= m, NEW a, Sound(a, os, K, n),
           \A i \in OrderId :
              /\ BuysBack(os[i]) => BuysBack(ns[i])
              /\ (i \in K /\ ShortSale(os[i])) =>
                    ShortSale(ns[i]) /\ ns[i].sym = os[i].sym /\ ns[i].price = os[i].price
    PROVE  Sound(a, ns, L, m)
<1>1. Redeemed(os) => Redeemed(ns) BY DEF Redeemed
<1>2. a \in Account /\ (a \in PaidFor(m) \/ Redeemed(ns))
  BY <1>1, PaidLater DEF Sound
<1>3. ASSUME NEW s \in Symbols, Shares(a, s) < 0
      PROVE  \E i \in OrderId : /\ i \in L /\ ShortSale(ns[i]) /\ ns[i].sym = s
                                /\ ns[i].price <= TxCost * (m - 1) \/ Redeemed(ns)
  <2>1. PICK i \in OrderId : /\ i \in K /\ ShortSale(os[i]) /\ os[i].sym = s
                             /\ os[i].price <= TxCost * (n - 1) \/ Redeemed(os)
    BY <1>3 DEF Sound
  <2>2. ShortSale(ns[i]) /\ ns[i].sym = s /\ ns[i].price = os[i].price BY <2>1
  <2>3. os[i].price \in Int BY DEF Order
  <2>4. ns[i].price <= TxCost * (m - 1) \/ Redeemed(ns)
    BY <1>1, <2>1, <2>2, <2>3, DearStays
  <2> QED BY <2>1, <2>2, <2>4
<1> QED BY <1>2, <1>3 DEF Sound

(* Neither does one that one order touches become unsound.                 *)
LEMMA SoundStep ==
    ASSUME NEW os \in [OrderId -> Order], NEW i \in OrderId, NEW r \in Order,
           NEW ns, ns = [os EXCEPT ![i] = r], ~BuysBack(os[i]), SameOrder(os[i], r),
           NEW K, NEW L, L = K \cup {i},
           NEW n \in Nat, NEW m \in Nat, n <= m,
           NEW a, Sound(a, os, K, n), NEW b, Outcome(os[i], r, a, b, n, m)
    PROVE  Sound(b, ns, L, m)
<1>1. ns[i] = r /\ \A j \in OrderId : j # i => ns[j] = os[j] OBVIOUS
<1>2. Redeemed(os) => Redeemed(ns) BY <1>1 DEF Redeemed
<1>3. BuysBack(r) => Redeemed(ns) BY <1>1 DEF Redeemed
<1>4. b \in Account BY DEF Outcome
<1>5. b \in PaidFor(m) \/ Redeemed(ns)
  BY <1>2, <1>3 DEF Sound, Outcome
<1>6. r.sym = os[i].sym /\ os[i].sym \in Symbols BY DEF SameOrder, Order
<1>7. \A j \in OrderId : os[j].price \in Int /\ os[j].sym \in Symbols BY DEF Order
<1>8. ASSUME NEW s \in Symbols, Shares(b, s) < 0
      PROVE  \E j \in OrderId : /\ j \in L /\ ShortSale(ns[j]) /\ ns[j].sym = s
                                /\ ns[j].price <= TxCost * (m - 1) \/ Redeemed(ns)
  <2>1. a \in Account BY DEF Sound
  <2>2. Shares(a, s) \in Int /\ Shares(b, s) \in Int BY <1>4, <2>1, SharesType
  <2>3. CASE s = os[i].sym /\ ShortSale(r) /\ (a \in PaidFor(n) => r.price <= TxCost * (m - 1))
    BY <1>1, <1>2, <1>6, <2>3 DEF Sound
  <2>4. CASE \/ s # os[i].sym
             \/ /\ Shares(b, s) >= Shares(a, s)
                /\ ShortSale(os[i]) => ShortSale(r) /\ r.price = os[i].price
    <3>1. Shares(a, s) < 0 BY <1>8, <2>2, <2>4 DEF Outcome
    <3>2. PICK j \in OrderId : /\ j \in K /\ ShortSale(os[j]) /\ os[j].sym = s
                               /\ os[j].price <= TxCost * (n - 1) \/ Redeemed(os)
      BY <3>1 DEF Sound
    <3>3. ShortSale(ns[j]) /\ ns[j].sym = s /\ ns[j].price = os[j].price
      BY <1>1, <1>6, <2>4, <3>2
    <3>4. ns[j].price <= TxCost * (m - 1) \/ Redeemed(ns)
      BY <1>2, <1>7, <3>2, <3>3, DearStays
    <3> QED BY <3>2, <3>3, <3>4
  <2>5. CASE s = os[i].sym
    <3>1. \/ Shares(b, s) >= 0
          \/ ShortSale(r) /\ (a \in PaidFor(n) => r.price <= TxCost * (m - 1))
          \/ /\ Shares(b, s) >= Shares(a, s)
             /\ ShortSale(os[i]) => ShortSale(r) /\ r.price = os[i].price
      BY <2>5 DEF Outcome
    <3>2. CASE Shares(b, s) >= 0 BY <1>8, <2>2, <3>2
    <3>3. CASE ShortSale(r) /\ (a \in PaidFor(n) => r.price <= TxCost * (m - 1))
      BY <2>3, <2>5, <3>3, Zenon
    <3>4. CASE /\ Shares(b, s) >= Shares(a, s)
               /\ ShortSale(os[i]) => ShortSale(r) /\ r.price = os[i].price
      BY <2>4, <3>4, Zenon
    <3> QED BY <3>1, <3>2, <3>3, <3>4, Zenon
  <2> QED BY <2>4, <2>5
<1> QED BY <1>4, <1>5, <1>8 DEF Sound

(* The account at which the next order is sized is sound: the portfolio's  *)
(* own between the loops, the working snapshot during a loop and until the *)
(* portfolio has caught up with it.                                        *)
OnAccount == phase \in {"idle", "strategy", "manual", "cancel"}
OnSnapshot == phase \in {"poll", "applyPolled", "submit", "applySubmitted", "value"}

Funded ==
    /\ \A i \in OrderId : Sane(orders[i])
    /\ OnAccount => Sound(pf, orders, Known, Executed)
    /\ OnSnapshot => Sound(work, orders, Known, Executed)

(* A portfolio starts with its cash and no position.                       *)
LEMMA InitFunded == ASSUME Init PROVE Funded
<1>0. pf = EmptyAccount /\ phase = "idle"
  BY Zenon DEF Init
<1>1. Executions \in SUBSET (OrderId \X {"BUY", "SELL"}) BY DEF Executions
<1>2. PICK n \in Nat : n = Executed
  BY <1>1, ExecutionsBounded DEF Executed
<1>3. PICK x \in Nat : x = TxCost * n BY OrdersAssumption
<1>4. pf \in Account /\ pf.cash >= 0 /\ \A s \in Symbols : Shares(pf, s) = 0
  <2>2. EmptyAccount.cash = InitialCash /\ EmptyAccount.held = {} BY DEF EmptyAccount
  <2> QED BY <1>0, <2>2, EmptyAccountType, TradingAssumption DEF Shares
<1>5. pf.cash \in Int BY <1>4 DEF Account
<1>6. pf \in PaidFor(n) BY <1>3, <1>4, <1>5 DEF PaidFor
<1>7. \A i \in OrderId : Sane(orders[i])
  BY DEF Init, UnusedOrder, NewOrder, Sane
<1>8. Sound(pf, orders, Known, Executed) BY <1>2, <1>4, <1>6 DEF Sound
<1> QED BY <1>0, <1>7, <1>8 DEF Funded, OnSnapshot

(* Every step of the machinery leaves that account sound.                  *)
LEMMA MachineryFunded ==
    ASSUME BooksInv, Foreseen, Funded, Machinery PROVE Funded'
<1>0. /\ orders \in [OrderId -> Order] /\ \A i \in OrderId : orders[i] \in Order
      /\ pending \subseteq OrderId /\ filled \subseteq OrderId /\ open \in BOOLEAN
  BY DEF BooksInv, TypeOK
<1>1. ASSUME UNCHANGED <<orders, Known>>,
             OnAccount' => Sound(pf', orders, Known, Executed),
             OnSnapshot' => Sound(work', orders, Known, Executed)
      PROVE  Funded'
  <2>1. Executed' = Executed
    BY <1>1 DEF Executed, Executions, BoughtBy, SoldBy
  <2> QED BY <1>1, <2>1 DEF Funded
<1>2. CASE ApplyDone
  <2>1. /\ ApplyPhase /\ todo = {} /\ phase' \in {"strategy", "value"}
        /\ UNCHANGED <<orders, Known, pf, work>>
    BY <1>2 DEF ApplyDone, omVars, pfVars, loopVars, Known
  <2>2. pf \in Account /\ work \in Account BY DEF BooksInv, TypeOK
  <2>3. pf = work BY <2>1, <2>2, PathEmpty DEF Foreseen
  <2> QED BY <1>1, <2>1, <2>3 DEF Funded, OnAccount, OnSnapshot, ApplyPhase
<1>3. CASE ManualDone
  BY <1>1, <1>3 DEF ManualDone, omVars, pfVars, Known, Funded, OnAccount, OnSnapshot
<1>4. CASE Value
  <2>1. phase = "value" /\ phase' \in {"idle", "raised"} /\ UNCHANGED <<orders, Known, pf>>
    BY <1>4 DEF Value, omVars, Known
  <2>2. pf = work BY <2>1 DEF Foreseen, SnapshotAgrees
  <2> QED BY <1>1, <2>1, <2>2 DEF Funded, OnAccount, OnSnapshot
<1>5. ASSUME NEW i \in OrderId, ApplyRaises(i) PROVE Funded'
  BY <1>1, <1>5 DEF ApplyRaises, omVars, Known, OnAccount, OnSnapshot
<1>6. CASE AnyTick
  <2>1. /\ phase = "idle" /\ phase' = "poll" /\ work' = pf
        /\ UNCHANGED <<orders, Known>>
    BY <1>6 DEF AnyTick, Tick, omVars, Known
  <2> QED BY <1>1, <2>1 DEF Funded, OnAccount, OnSnapshot
<1>7. CASE PollDone
  <2>1. Known' = Known BY <1>7, RefileKnown DEF PollDone
  <2> QED BY <1>1, <1>7, <2>1 DEF PollDone, Funded, OnAccount, OnSnapshot
<1>8. CASE SubmitDone
  BY <1>1, <1>8 DEF SubmitDone, omVars, Known, Funded, OnAccount, OnSnapshot
<1>9. CASE Cancel
  <2>1. PICK hit \in SUBSET pending : orders' = [i \in OrderId |->
               IF i \in hit THEN [orders[i] EXCEPT !.status = "CANCELED"] ELSE orders[i]]
    BY <1>9 DEF Cancel
  <2>2. /\ phase = "cancel" /\ phase' = "submit" /\ work' = pf
        /\ Refile(pending, orders')
    BY <1>9 DEF Cancel
  <2>3. Known' = Known
    <3>1. PICK os : os = orders' OBVIOUS
    <3>2. Refile(pending, os) BY <2>2, <3>1 DEF Refile
    <3> QED BY <3>2, RefileKnown
  <2>4. ASSUME NEW i \in OrderId
        PROVE  /\ Sane(orders'[i])
               /\ HasBought(orders[i]) => HasBought(orders'[i])
               /\ (i \in Known /\ Sells(orders[i])) => Sells(orders'[i])
               /\ BuysBack(orders[i]) => BuysBack(orders'[i])
               /\ ShortSale(orders[i]) => /\ ShortSale(orders'[i])
                                          /\ orders'[i].sym = orders[i].sym
                                          /\ orders'[i].price = orders[i].price
               /\ orders'[i] \in Order
    <3>1. CASE i \in hit
      <4> DEFINE c == [orders[i] EXCEPT !.status = "CANCELED"]
      <4>1. /\ c.status = "CANCELED" /\ c.qty = orders[i].qty
            /\ c.type = orders[i].type /\ c.action = orders[i].action
            /\ c.price = orders[i].price /\ c.sym = orders[i].sym
        BY <1>0 DEF Order
      <4>2. c \in Order BY <1>0 DEF Order, Status
      <4>3. orders'[i] = c BY <2>1, <3>1
      <4>4. Sane(orders[i]) BY DEF Funded
      <4>5. orders[i].status # "FILLED"
        BY <2>1, <2>2, <3>1 DEF BooksInv, Books, IsTerminal, Terminal
      <4> HIDE DEF c
      <4> QED BY <4>1, <4>2, <4>3, <4>4, <4>5 DEF Sane, HasBought, Sells, BuysBack, ShortSale
    <3>2. CASE i \notin hit
      BY <1>0, <2>1, <3>2 DEF Funded
    <3> QED BY <3>1, <3>2
  <2>5. Grows BY <2>3, <2>4, BoughtByIs DEF Grows, BoughtBy, SoldBy, HasBought
  <2>6. PICK os, n : os = orders' /\ n = Executed' OBVIOUS
  <2>7. os \in [OrderId -> Order] BY <2>1, <2>4, <2>6
  <2>8. Sound(pf, os, Known, n)
    BY <1>0, <2>2, <2>4, <2>5, <2>6, <2>7, ExecutedGrows, SoundKept DEF Funded, OnAccount
  <2> QED BY <2>2, <2>3, <2>4, <2>6, <2>8 DEF Funded, OnAccount, OnSnapshot
<1>10. ASSUME NEW i \in OrderId, NEW r \in Order, orders' = [orders EXCEPT ![i] = r], Sane(r),
              SameOrder(orders[i], r), ~BuysBack(orders[i]), Known' = Known \cup {i},
              i \in Known => /\ HasBought(orders[i]) => HasBought(r)
                             /\ ~Sells(orders[i])
       PROVE  /\ \A j \in OrderId : Sane(orders'[j])
              /\ Executed \in Nat /\ Executed' \in Nat
              /\ Counted(orders[i], r, Executed, Executed')
  <2>1. orders'[i] = r /\ \A j \in OrderId : j # i => orders'[j] = orders[j]
    BY <1>0, <1>10
  <2>2. \A j \in OrderId : Sane(orders'[j]) BY <1>10, <2>1 DEF Funded
  <2>3. Grows BY <1>10, <2>1 DEF Grows, BoughtBy, SoldBy, HasBought
  <2>4. Deals(orders[i], r) => Executes(i)
    BY <1>10, <2>1, BoughtByIs DEF Executes, Deals, BoughtBy, SoldBy, HasBought
  <2> QED BY <2>2, <2>3, <2>4, ExecutedGrows DEF Counted
<1>11. ASSUME NEW i \in OrderId, PollOrder(i) PROVE Funded'
  <2>1. PICK r : /\ r = PollBackend(orders[i], bar[orders[i].sym], open, work)
                 /\ phase = "poll" /\ phase' = "poll" /\ i \in todo
                 /\ orders' = [orders EXCEPT ![i] = r] /\ UNCHANGED <<pending, filled>>
                 /\ work' = IF r.status = orders[i].status THEN work
                            ELSE ApplyToSnapshot(r, work)
    BY <1>11 DEF PollOrder, IsFirst
  <2>2. i \in pending BY <2>1 DEF BooksInv, Filing
  <2>3. orders[i].type \in {"MARKET", "BRACKET"} /\ orders[i].status \notin Terminal
    <3>1. orders[i].type # "NONE" /\ ~IsTerminal(orders[i])
      BY <2>1, <2>2 DEF BooksInv, Books, Filing
    <3> QED BY <1>0, <3>1 DEF Order, OrderKind, IsTerminal
  <2>4. bar[orders[i].sym] \in Nat /\ work \in Account
    BY <1>0, PriceType DEF Order, TypeOK, BooksInv
  <2>5. Sane(orders[i]) /\ Sound(work, orders, Known, Executed)
    BY <2>1 DEF Funded, OnSnapshot
  <2>6. r \in Order /\ SameOrder(orders[i], r)
    BY <1>0, <2>1, <2>4, PollBackendType, PollSame
  <2>7. r.status = orders[i].status \/ <<orders[i].status, r.status>> \in Lifecycle!Moves
    BY <1>0, <2>1, <2>3, <2>4, PollBackendMoves
  <2>8. Sane(r) /\ (orders[i].type = "BRACKET" => r.status # "CANCELED")
    <3>1. PICK n \in Nat, m \in Nat : Counted(orders[i], r, n, m)
      <4>1. Counted(orders[i], r, 0, 1) BY DEF Counted
      <4> QED BY <4>1
    <3> QED BY <1>0, <2>1, <2>3, <2>4, <2>5, <3>1, PollOutcome
  <2>9. (HasBought(orders[i]) => HasBought(r)) /\ ~Sells(orders[i]) /\ ~BuysBack(orders[i])
    BY <1>0, <2>3, <2>5, <2>6, <2>7, <2>8, PollUndoesNothing DEF BuysBack, Terminal
  <2>10. Known' = Known \cup {i} BY <2>1, <2>2 DEF Known
  <2>11. /\ \A j \in OrderId : Sane(orders'[j])
         /\ Executed \in Nat /\ Executed' \in Nat
         /\ Counted(orders[i], r, Executed, Executed')
    BY <1>10, <2>1, <2>6, <2>8, <2>9, <2>10
  <2>12. PICK os, b, K, n : os = orders' /\ b = work' /\ K = Known' /\ n = Executed' OBVIOUS
  <2>13. Outcome(orders[i], r, work, b, Executed, n)
    BY <1>0, <2>1, <2>3, <2>4, <2>5, <2>11, <2>12, PollOutcome
  <2>14. Sound(b, os, K, n)
    BY <1>0, <2>1, <2>5, <2>6, <2>9, <2>10, <2>11, <2>12, <2>13, SoundStep DEF Counted
  <2> QED BY <2>1, <2>11, <2>12, <2>14 DEF Funded, OnAccount, OnSnapshot
<1>12. ASSUME NEW i \in OrderId, SubmitOrder(i) PROVE Funded'
  <2>1. PICK r : /\ r = SubmitBackend(orders[i], bar[orders[i].sym], open, work)
                 /\ phase = "submit" /\ phase' = "submit" /\ i \in todo
                 /\ orders' = [orders EXCEPT ![i] = r] /\ Known' = Known \cup {i}
                 /\ work' = ApplyToSnapshot(r, work)
    BY <1>12 DEF SubmitOrder, IsFirst, Known
  <2>2. /\ orders[i].type \in {"MARKET", "BRACKET"} /\ orders[i].status = "PENDING"
        /\ i \notin Known
    BY <1>0, <2>1 DEF BooksInv, Filing, Order, OrderKind
  <2>3. bar[orders[i].sym] \in Nat /\ work \in Account
    BY <1>0, PriceType DEF Order, TypeOK, BooksInv
  <2>4. Sane(orders[i]) /\ Sound(work, orders, Known, Executed)
    BY <2>1 DEF Funded, OnSnapshot
  <2>5. r \in Order /\ SameOrder(orders[i], r)
    BY <1>0, <2>1, <2>3, SubmitBackendType, SubmitSame
  <2>6. Sane(r)
    <3>1. PICK n \in Nat, m \in Nat : Counted(orders[i], r, n, m)
      <4>1. Counted(orders[i], r, 0, 1) BY DEF Counted
      <4> QED BY <4>1
    <3> QED BY <1>0, <2>1, <2>2, <2>3, <2>4, <3>1, SubmitOutcome
  <2>7. ~BuysBack(orders[i]) BY <2>2 DEF BuysBack
  <2>8. /\ \A j \in OrderId : Sane(orders'[j])
        /\ Executed \in Nat /\ Executed' \in Nat
        /\ Counted(orders[i], r, Executed, Executed')
    BY <1>10, <2>1, <2>2, <2>5, <2>6, <2>7
  <2>9. PICK os, b, K, n : os = orders' /\ b = work' /\ K = Known' /\ n = Executed' OBVIOUS
  <2>10. Outcome(orders[i], r, work, b, Executed, n)
    BY <1>0, <2>1, <2>2, <2>3, <2>4, <2>8, <2>9, SubmitOutcome
  <2>11. Sound(b, os, K, n)
    BY <1>0, <2>1, <2>4, <2>5, <2>7, <2>8, <2>9, <2>10, SoundStep DEF Counted
  <2> QED BY <2>1, <2>8, <2>9, <2>11 DEF Funded, OnAccount, OnSnapshot
<1>13. ASSUME NEW i \in OrderId, Apply(i) PROVE Funded'
  <2>1. /\ ApplyPhase /\ UNCHANGED <<phase, pending, filled, work>>
        /\ \/ orders' = orders
           \/ orders' = [orders EXCEPT ![i] = [orders[i] EXCEPT !.done = (orders[i].type = "MARKET")]]
    BY <1>13 DEF Apply, ApplyOrder
  <2>2. \A j \in OrderId :
           /\ orders'[j] \in Order
           /\ orders'[j].type = orders[j].type /\ orders'[j].status = orders[j].status
           /\ orders'[j].price = orders[j].price /\ orders'[j].action = orders[j].action
           /\ orders'[j].qty = orders[j].qty /\ orders'[j].sym = orders[j].sym
           /\ orders'[j].sold = orders[j].sold
    <3> DEFINE c == [orders[i] EXCEPT !.done = (orders[i].type = "MARKET")]
    <3>1. /\ c \in Order
          /\ c.type = orders[i].type /\ c.status = orders[i].status
          /\ c.price = orders[i].price /\ c.action = orders[i].action
          /\ c.qty = orders[i].qty /\ c.sym = orders[i].sym /\ c.sold = orders[i].sold
      BY <1>0 DEF Order
    <3> HIDE DEF c
    <3>2. orders' = orders \/ orders' = [orders EXCEPT ![i] = c] BY <2>1 DEF c
    <3> QED BY <1>0, <3>1, <3>2
  <2>3. \A j \in OrderId : Sane(orders'[j]) BY <2>2 DEF Funded, Sane
  <2>4. Grows BY <2>1, <2>2 DEF Grows, BoughtBy, SoldBy, Sells, Known
  <2>5. PICK os, n : os = orders' /\ n = Executed' OBVIOUS
  <2>6. \A j \in OrderId :
           /\ BuysBack(orders[j]) => BuysBack(os[j])
           /\ ShortSale(orders[j]) => /\ ShortSale(os[j]) /\ os[j].sym = orders[j].sym
                                      /\ os[j].price = orders[j].price
    BY <2>2, <2>5 DEF BuysBack, ShortSale
  <2>7. os \in [OrderId -> Order] BY <1>0, <2>1, <2>2, <2>5
  <2>8. Sound(work, os, Known, n)
    BY <1>0, <2>1, <2>4, <2>5, <2>6, <2>7, ExecutedGrows, SoundKept DEF Funded, OnSnapshot, ApplyPhase
  <2> QED BY <2>1, <2>3, <2>5, <2>8 DEF Funded, OnAccount, OnSnapshot, ApplyPhase, Known
<1>14. ASSUME NEW i \in OrderId, ManualSale(i) PROVE Funded'
  <2> DEFINE asked == [orders[i] EXCEPT !.manual = TRUE]
             Sale(r) == r.status = "FILLED" /\ ~r.done
  <2>1. PICK r : /\ r = PollBackend(asked, bar[asked.sym], open, pf)
                 /\ phase = "manual" /\ i \in plan.manual
                 /\ phase' = IF Sale(r) /\ Raises(r, pf) THEN "raised" ELSE "manual"
                 /\ orders' = [orders EXCEPT ![i] = r] /\ Refile({i}, orders')
                 /\ pf' = IF Sale(r) /\ ~Raises(r, pf) THEN Applied(r, pf) ELSE pf
    BY <1>14 DEF ManualSale
  <2>2. i \in pending /\ ~IsTerminal(orders[i]) /\ orders[i].type # "NONE" /\ ~orders[i].done
    <3>1. i \in pending /\ ~IsTerminal(orders[i]) /\ orders[i].type # "NONE"
      BY <2>1 DEF BooksInv, Books, Filing
    <3> QED BY <3>1 DEF Foreseen
  <2>3. /\ asked \in Order /\ asked.type = orders[i].type /\ asked.status = orders[i].status
        /\ asked.qty = orders[i].qty /\ asked.sym = orders[i].sym
        /\ asked.price = orders[i].price /\ asked.action = orders[i].action
        /\ asked.done = orders[i].done
    BY <1>0 DEF Order
  <2>4. Sane(asked) BY <2>3 DEF Funded, Sane
  <2>5. asked.type \in {"MARKET", "BRACKET"} /\ asked.status \notin Terminal
    BY <2>2, <2>3 DEF Order, OrderKind, IsTerminal
  <2>6. \A x \in Order : SameOrder(asked, x) => SameOrder(orders[i], x)
    BY <2>3 DEF SameOrder
  <2> HIDE DEF asked
  <2>7. bar[asked.sym] \in Nat /\ pf \in Account /\ asked.sym \in Symbols
    BY <2>3, PriceType DEF Order, TypeOK, BooksInv
  <2>8. Sound(pf, orders, Known, Executed) BY <2>1 DEF Funded, OnAccount
  <2>9. r \in Order /\ SameOrder(asked, r) /\ SameOrder(orders[i], r)
    BY <1>0, <2>1, <2>3, <2>6, <2>7, PollBackendType, PollSame
  <2>10. r.status = asked.status \/ <<asked.status, r.status>> \in Lifecycle!Moves
    BY <1>0, <2>1, <2>3, <2>5, <2>7, PollBackendMoves
  <2>11. (r.type = "BRACKET" /\ r.status = "FILLED") => r.sold # NoExit
    BY <1>0, <2>1, <2>3, <2>5, <2>7, PollBackendKeeps
  <2>12. Sane(r) /\ (asked.type = "BRACKET" => r.status # "CANCELED")
    <3>1. PICK n \in Nat, m \in Nat : Counted(asked, r, n, m)
      <4>1. Counted(asked, r, 0, 1) BY DEF Counted
      <4> QED BY <4>1
    <3> QED BY <1>0, <2>1, <2>3, <2>4, <2>5, <2>7, <3>1, PollOutcome
  <2>13. /\ HasBought(orders[i]) => HasBought(r)
         /\ ~Sells(orders[i]) /\ ~BuysBack(orders[i])
    BY <2>3, <2>4, <2>5, <2>9, <2>10, <2>12, PollUndoesNothing
    DEF HasBought, Sells, BuysBack, Terminal
  <2>14. Known' = Known \cup {i}
    <3>1. PICK os : os = orders' OBVIOUS
    <3>2. Refile({i}, os) BY <2>1, <3>1 DEF Refile
    <3> QED BY <2>2, <3>2, RefileKnown DEF Known
  <2>15. /\ \A j \in OrderId : Sane(orders'[j])
         /\ Executed \in Nat /\ Executed' \in Nat
         /\ Counted(orders[i], r, Executed, Executed')
    BY <1>10, <2>1, <2>9, <2>12, <2>13, <2>14
  <2>16. PICK os, b, K, n : os = orders' /\ b = pf' /\ K = Known' /\ n = Executed' OBVIOUS
  <2>17. Counted(asked, r, Executed, n)
    BY <2>3, <2>15, <2>16 DEF Counted, Deals, HasBought
  <2>18. ASSUME phase' = "manual" PROVE Outcome(orders[i], r, pf, b, Executed, n)
    <3>1. CASE r.status = "FILLED"
      <4>1. ~r.done /\ ~Raises(r, pf) /\ b = Applied(r, pf)
        BY <2>1, <2>2, <2>3, <2>9, <2>16, <2>18, <3>1 DEF SameOrder
      <4>2. Applied(r, pf) = ApplyToSnapshot(r, pf)
        BY <2>5, <2>7, <2>9, <2>11, <4>1, AppliedIsSnapshot DEF SameOrder
      <4>3. r.status # asked.status BY <2>5, <3>1 DEF Terminal
      <4>4. Outcome(asked, r, pf, b, Executed, n)
        BY <1>0, <2>1, <2>3, <2>4, <2>5, <2>7, <2>15, <2>16, <2>17, <4>1, <4>2, <4>3, PollOutcome
      <4> QED BY <2>3, <4>4 DEF Outcome, ShortSale
    <3>2. CASE r.status # "FILLED"
      <4>1. b = pf BY <2>1, <2>16, <3>2
      <4>2. CASE r.status = asked.status
        <5>1. Outcome(asked, r, pf, b, Executed, n)
          BY <1>0, <2>1, <2>3, <2>4, <2>5, <2>7, <2>15, <2>16, <2>17, <4>1, <4>2, PollOutcome
        <5> QED BY <2>3, <5>1 DEF Outcome, ShortSale
      <4>3. CASE r.status # asked.status
        <5>1. ~ShortSale(orders[i])
          <6>1. asked.type = "BRACKET" => asked.status = "PENDING"
            BY <2>3, <2>5, <2>9, <2>10, <2>12, <3>2, <4>3
            DEF Lifecycle!Moves, Order, Status, Terminal
          <6> QED BY <2>3, <2>4, <6>1 DEF ShortSale, Sane
        <5> QED BY <1>0, <2>7, <2>15, <2>16, <4>1, <5>1, NoOutcome DEF Counted
      <4> QED BY <4>2, <4>3
    <3> QED BY <3>1, <3>2
  <2>19. ASSUME phase' = "manual" PROVE Sound(b, os, K, n)
    BY <1>0, <2>1, <2>8, <2>9, <2>13, <2>14, <2>15, <2>16, <2>18, <2>19, SoundStep DEF Counted
  <2> QED BY <2>1, <2>15, <2>16, <2>19 DEF Funded, OnAccount, OnSnapshot
<1> QED BY <1>2, <1>3, <1>4, <1>5, <1>6, <1>7, <1>8, <1>9, <1>11, <1>12, <1>13, <1>14
  DEF Machinery

(* No strategy reaches an account, and what it hands over is sane.         *)
LEMMA RunStrategyFunded ==
    ASSUME BooksInv, Funded, NEW manual, NEW cancel, NEW new,
           \A k \in DOMAIN new : /\ new[k] \in Order
                                 /\ new[k].price = NoPrice
                                 /\ new[k].status = "PENDING",
           RunStrategy(manual, cancel, new)
    PROVE  Funded'
<1> DEFINE sent == {k \in DOMAIN new : new[k].qty > 0}
<1>1. /\ phase = "strategy" /\ phase' = "manual" /\ sent \subseteq Unused
      /\ orders' = [i \in OrderId |-> IF i \in sent THEN new[i] ELSE orders[i]]
      /\ UNCHANGED <<pending, filled, pf>>
  BY DEF RunStrategy, pfVars
<1>2. \A k \in sent : Sane(new[k]) /\ new[k] \in Order
  <2>1. \A k \in sent : new[k].qty \in Int BY DEF Order
  <2> QED BY <2>1 DEF Sane
<1> HIDE DEF sent
<1>3. pending \cup filled = {i \in OrderId : orders[i].type # "NONE"}
  BY <1>1 DEF BooksInv, Books
<1>4. orders \in [OrderId -> Order] BY DEF BooksInv, TypeOK
<1>5. PICK os, n : os = orders' /\ n = Executed' OBVIOUS
<1>6. os \in [OrderId -> Order] BY <1>1, <1>2, <1>4, <1>5
<1>7. \A i \in OrderId : i \in Known \/ BuysBack(orders[i]) => os[i] = orders[i]
  BY <1>1, <1>3, <1>5 DEF Known, Unused, BuysBack
<1>8. Grows BY <1>1, <1>5, <1>7 DEF Grows, BoughtBy, SoldBy, Known
<1>9. Sound(pf, os, Known, n)
  BY <1>1, <1>4, <1>5, <1>6, <1>7, <1>8, ExecutedGrows, SoundKept DEF Funded, OnAccount
<1>10. \A i \in OrderId : Sane(orders'[i]) BY <1>1, <1>2 DEF Funded
<1> QED BY <1>1, <1>5, <1>9, <1>10 DEF Funded, OnAccount, OnSnapshot, Known

(* So does a strategy that asks for anything on the menu.                  *)
LEMMA AnyStrategyFunded == ASSUME BooksInv, Funded, AnyStrategy PROVE Funded'
<1>0. PICK manual \in {{}} \cup {{i} : i \in {j \in pending : Active(j)}},
           cancel \in {{}, {"MARKET"}, {"BRACKET"}},
           ids \in SUBSET Unused :
        \E asked \in [ids -> {r \in OrderMenu : GetPrice(r.sym) # NoPrice}] :
            RunStrategy(manual, cancel, [i \in ids |-> Requested(asked[i])])
  BY DEF AnyStrategy
<1>1. PICK asked \in [ids -> {r \in OrderMenu : GetPrice(r.sym) # NoPrice}] :
            RunStrategy(manual, cancel, [i \in ids |-> Requested(asked[i])])
  BY <1>0
<1> DEFINE new == [i \in ids |-> Requested(asked[i])]
<1>2. \A r \in OrderMenu : /\ Requested(r).price = NoPrice
                           /\ Requested(r).status = "PENDING"
  BY TradingAssumption DEF Requested, ConfiguredBracket, MarketOrder, FixedBracket, TrailingBracket, NewOrder
<1>3. \A r \in OrderMenu : Requested(r) \in Order BY RequestedType DEF BooksInv
<1>4. \A k \in DOMAIN new : /\ new[k] \in Order /\ new[k].price = NoPrice
                            /\ new[k].status = "PENDING"
  BY <1>2, <1>3
<1> HIDE DEF new
<1>5. RunStrategy(manual, cancel, new) BY <1>1 DEF new
<1> QED BY <1>4, <1>5, RunStrategyFunded

(* The accounts are sound throughout.                                      *)
LEMMA FundedInvariant == Spec => []Funded
<1>1. BooksInv /\ Foreseen /\ Funded /\ [Next]_vars => Funded'
  <2>1. ASSUME BooksInv, Foreseen, Funded, Next PROVE Funded'
    BY <2>1, MachineryFunded, AnyStrategyFunded DEF Next
  <2>2. ASSUME Funded, UNCHANGED vars PROVE Funded'
    BY <2>2 DEF Funded, OnAccount, OnSnapshot, Executed, Executions, BoughtBy, SoldBy, Sells,
                Known, vars, omVars, pfVars, loopVars
  <2> QED BY <2>1, <2>2
<1> QED BY <1>1, InitFunded, BooksInvariant, ForeseenInvariant, PTL DEF Spec

(* A position is short only of a bracket's negative purchase, made at a    *)
(* price that the commissions paid before it cover or after such a         *)
(* purchase was bought back: for any stream of ticks and any strategy, no  *)
(* sale oversells and no other purchase is negative.                       *)
THEOREM ShortCorrect == Spec => []ShortOnlyByFees
<1>1. Funded => ShortOnlyByFees
  BY DEF Funded, OnAccount, Sound, ShortOnlyByFees, Executed, Redeemed, BoughtBack
<1> QED BY <1>1, FundedInvariant, PTL

(* The account is overdrawn by no more than the commissions of the orders  *)
(* that executed, until a negative purchase is bought back.                *)
THEOREM OverdraftCorrect == Spec => []OverdrawnByFeesOnly
<1>1. Funded => OverdrawnByFeesOnly
  BY DEF Funded, OnAccount, Sound, PaidFor, OverdrawnByFeesOnly, Executed, Redeemed, BoughtBack
<1> QED BY <1>1, FundedInvariant, PTL

-----------------------------------------------------------------------------
(* The levels of a bracket *)

(* A floor is below what its dividend is below. *)
LEMMA DivBounds ==
    ASSUME NEW x \in Int, NEW d \in Nat \ {0}, NEW q \in Int
    PROVE  /\ x < d * q => x \div d < q
           /\ x >= d * (q + 1) => x \div d > q
<1>1. PICK h \in Int : h = x \div d OBVIOUS
<1>2. d * h <= x /\ x < d * (h + 1) BY <1>1
<1>3. ASSUME x < d * q, h >= q PROVE FALSE
  <2>1. d * (h - q) >= 0 BY <1>3
  <2>2. d * (h - q) = d * h - d * q OBVIOUS
  <2> QED BY <1>2, <1>3, <2>1, <2>2
<1>4. ASSUME x >= d * (q + 1), h <= q PROVE FALSE
  <2>1. d * (q - h) >= 0 BY <1>4
  <2>2. d * (q - h) = d * (q + 1) - d * (h + 1) OBVIOUS
  <2> QED BY <1>2, <1>4, <2>1, <2>2
<1> QED BY <1>1, <1>3, <1>4

(* A level that is far enough from its price stays on its side of any      *)
(* price it is rescaled to.                                                *)
LEMMA ScaledLevel ==
    ASSUME NEW p \in Nat \ {0}, NEW q \in Nat \ {0}, NEW level \in Int
    PROVE  /\ p < 2 * q * (p - level) => Rounded(level * q, p) < q
           /\ p <= 2 * q * (level - p) => Rounded(level * q, p) > q
<1>1. PICK x \in Int : x = 2 * (level * q) + p OBVIOUS
<1>2. PICK d \in Nat \ {0} : d = 2 * p OBVIOUS
<1>3. Rounded(level * q, p) = x \div d BY <1>1, <1>2 DEF Rounded
<1>4. 2 * q * (p - level) = d * q - 2 * (level * q) BY <1>2
<1>5. 2 * q * (level - p) = 2 * (level * q) - d * q BY <1>2
<1>6. d * (q + 1) = d * q + 2 * p BY <1>2
<1>7. PICK y \in Int, z \in Int : y = d * q /\ z = level * q OBVIOUS
<1>8. p < 2 * q * (p - level) => x < d * q BY <1>1, <1>4, <1>7
<1>9. p <= 2 * q * (level - p) => x >= d * (q + 1) BY <1>1, <1>5, <1>6, <1>7
<1>10. (x < d * q => x \div d < q) /\ (x >= d * (q + 1) => x \div d > q)
  BY DivBounds
<1>11. PICK r \in Int : r = x \div d BY <1>2
<1> HIDE DEF Rounded
<1>12. /\ p < 2 * q * (p - level) => r < q
       /\ p <= 2 * q * (level - p) => r > q
  BY <1>8, <1>9, <1>10, <1>11
<1>13. Rounded(level * q, p) = r BY <1>3, <1>11
<1> QED BY <1>12, <1>13

(* Unscaled, it is on its side of its own price. *)
LEMMA OwnLevel ==
    ASSUME NEW p \in Nat \ {0}, NEW level \in Int
    PROVE  /\ p < 2 * p * (p - level) => level < p
           /\ p <= 2 * p * (level - p) => level > p
<1>1. ASSUME level >= p PROVE 2 * p * (p - level) <= 0
  <2>1. p * (level - p) >= 0 BY <1>1
  <2> QED BY <2>1
<1>2. ASSUME level <= p PROVE 2 * p * (level - p) <= 0
  <2>1. p * (p - level) >= 0 BY <1>2
  <2> QED BY <2>1
<1>3. PICK y \in Int, z \in Int : y = 2 * p * (p - level) /\ z = 2 * p * (level - p)
  OBVIOUS
<1> QED BY <1>1, <1>2, <1>3

(* A bracket that records the estimate it was priced around: its levels    *)
(* are those of the estimate until it enters, and straddle its fill from   *)
(* then on.                                                                *)
Straddles(o) == o.price < o.profit /\ (~o.trailing => o.stop < o.price)

PricedAround(o) ==
    /\ o.intended \in Prices /\ o.profit = ProfitOf(o.intended)
    /\ ~o.trailing => o.stop = StopOf(o.intended)

Levelled(o) ==
    (o.type = "BRACKET" /\ o.intended > 0) =>
        /\ o.status = "PENDING" => PricedAround(o)
        /\ o.status = "PENDING_SALE" => Straddles(o)

(* Entering changes neither the target nor a fixed stop; entering later    *)
(* rescales both.                                                          *)
LEMMA EntryLevels ==
    ASSUME NEW o \in Order, NEW px \in Nat \ {0}, NEW acc \in Account
    PROVE  LET b == EnterBracket(o, px, acc)
               d == EnterDeferred(o, px, acc)
           IN  /\ b.profit = o.profit /\ (~o.trailing => b.stop = o.stop)
               /\ IF o.intended > 0 /\ px # o.intended
                  THEN /\ d.profit = Rounded(o.profit * px, o.intended)
                       /\ ~o.trailing => d.stop = Rounded(o.stop * px, o.intended)
                  ELSE d.profit = b.profit /\ d.stop = b.stop
<1> DEFINE q == Lesser(o.qty, Affordable(acc.cash, px))
           e == [o EXCEPT !.status = "PENDING_SALE", !.price = px, !.qty = q]
           m == [e EXCEPT !.hwm = px]
           b == EnterBracket(o, px, acc)
<1>1. e.profit = o.profit /\ e.stop = o.stop /\ Trail(m, px).profit = o.profit
  BY DEF Order, Trail
<1>2. b = IF o.trailing THEN Trail(m, px) ELSE e
  BY DEF EnterBracket
<1>3. b \in Order BY EnterBracketType
<1> HIDE DEF q, e, m, b
<1>4. b.profit = o.profit /\ (~o.trailing => b.stop = o.stop) BY <1>1, <1>2
<1>5. LET d == EnterDeferred(o, px, acc)
      IN  IF o.intended > 0 /\ px # o.intended
          THEN /\ d.profit = Rounded(o.profit * px, o.intended)
               /\ ~o.trailing => d.stop = Rounded(o.stop * px, o.intended)
          ELSE d.profit = b.profit /\ d.stop = b.stop
  BY <1>3 DEF EnterDeferred, b, Order
<1> QED BY <1>4, <1>5 DEF b

(* So a bracket straddles the fill it gets on a later bar, and one it gets *)
(* at the very estimate.                                                   *)
LEMMA EntryStraddles ==
    ASSUME LevelsSurviveRounding, NEW o \in Order, o.intended > 0, PricedAround(o),
           NEW px \in Prices, NEW acc \in Account
    PROVE  /\ Straddles(EnterDeferred(o, px, acc))
           /\ px = o.intended => Straddles(EnterBracket(o, px, acc))
<1> DEFINE b == EnterBracket(o, px, acc)
           d == EnterDeferred(o, px, acc)
           p == o.intended
<1>1. px \in Nat \ {0} /\ p \in Nat \ {0} /\ p \in Prices
  BY OrdersAssumption DEF PricedAround
<1>2. /\ p < 2 * px * (p - StopOf(p)) /\ p <= 2 * px * (ProfitOf(p) - p)
  BY <1>1 DEF LevelsSurviveRounding
<1>3. StopOf(p) \in Int /\ ProfitOf(p) \in Int BY <1>1, LevelType
<1>4. o.profit = ProfitOf(p) /\ (~o.trailing => o.stop = StopOf(p)) BY DEF PricedAround
<1>5. b.trailing = o.trailing /\ d.trailing = o.trailing /\ b.price = px /\ d.price = px
  BY <1>1, EnterBracketSame, EnterDeferredSame, EntryFields DEF SameOrder
<1>6. /\ b.profit = o.profit /\ (~o.trailing => b.stop = o.stop)
      /\ IF px # p THEN /\ d.profit = Rounded(o.profit * px, p)
                        /\ ~o.trailing => d.stop = Rounded(o.stop * px, p)
         ELSE d.profit = b.profit /\ d.stop = b.stop
  BY <1>1, EntryLevels
<1>7. px = p => ProfitOf(p) > px /\ StopOf(p) < px
  BY <1>1, <1>2, <1>3, OwnLevel
<1>8. Rounded(ProfitOf(p) * px, p) > px /\ Rounded(StopOf(p) * px, p) < px
  BY <1>1, <1>2, <1>3, ScaledLevel
<1>9. Rounded(ProfitOf(p) * px, p) \in Int /\ Rounded(StopOf(p) * px, p) \in Int
  BY <1>1, <1>3, RoundedType
<1> HIDE DEF b, d, p
<1>10. px = p => Straddles(b) BY <1>1, <1>3, <1>4, <1>5, <1>6, <1>7 DEF Straddles
<1>11. Straddles(d)
  BY <1>1, <1>3, <1>4, <1>5, <1>6, <1>7, <1>8, <1>9 DEF Straddles
<1> QED BY <1>10, <1>11 DEF b, d, p

(* Nothing a poll does leaves a bracket stopped out at its own fill. *)
LEMMA PollLevels ==
    ASSUME LevelsSurviveRounding, NEW o \in Order, Levelled(o),
           NEW px \in Prices \cup {NoPrice}, NEW op \in BOOLEAN, NEW acc \in Account
    PROVE  Levelled(PollBackend(o, px, op, acc))
<1> DEFINE r == PollBackend(o, px, op, acc)
<1>0. px \in Nat BY OrdersAssumption DEF NoPrice
<1>1. SameOrder(o, r) BY <1>0, PollSame
<1>2. CASE r = o BY <1>2
<1>3. CASE r # o /\ o.type = "BRACKET" /\ o.intended > 0
  <2>1. px # NoPrice /\ op /\ o.status # "FILLED" /\ px \in Nat \ {0} /\ px \in Prices
    BY <1>0, <1>3 DEF PollBackend, NoPrice
  <2>2. CASE o.status = "PENDING"
    <3>1. r = EnterDeferred(o, px, acc) BY <1>3, <2>1, <2>2 DEF PollBackend
    <3>2. EnterDeferred(o, px, acc).status = "PENDING_SALE" BY <2>1, EntryFields
    <3> HIDE DEF r
    <3>3. Straddles(r) BY <1>3, <2>1, <2>2, <3>1, EntryStraddles DEF Levelled
    <3>4. Levelled(r) BY <3>1, <3>2, <3>3 DEF Levelled
    <3> QED BY <3>4 DEF r
  <2>3. CASE o.status # "PENDING"
    <3> DEFINE t == IF o.trailing THEN Trail(o, px) ELSE o
    <3>1. r = HoldBracket(o, px, acc) BY <1>3, <2>1, <2>3 DEF PollBackend
    <3>2. HoldBracket(o, px, acc) \in
             {SellManually(o, px, acc), FillExit(t, "STOP", px, acc), FillExit(t, "PROFIT", px, acc), t}
      BY DEF HoldBracket
    <3>3. t \in Order /\ t.status = o.status BY <2>1, TrailType, TrailKeeps
    <3>4. /\ t.price = o.price /\ t.profit = o.profit /\ t.trailing = o.trailing
          /\ ~o.trailing => t.stop = o.stop
      BY DEF Trail, Order
    <3> HIDE DEF t
    <3>5. /\ SellManually(o, px, acc).status = "FILLED"
          /\ \A leg : FillExit(t, leg, px, acc).status = "FILLED"
      BY <3>3 DEF SellManually, FillExit, Order
    <3>6. r.status = "FILLED" \/ r = t BY <3>1, <3>2, <3>5
    <3>7. o.status = "PENDING_SALE" => Straddles(t)
      BY <1>3, <3>4 DEF Levelled, Straddles
    <3> QED BY <2>3, <3>3, <3>6, <3>7 DEF Levelled
  <2> QED BY <2>2, <2>3
<1>4. CASE ~(o.type = "BRACKET" /\ o.intended > 0)
  BY <1>1, <1>4 DEF Levelled, SameOrder
<1> QED BY <1>2, <1>3, <1>4

(* An order that waits to be submitted was priced on this very tick. *)
Current(o) ==
    (o.type = "BRACKET" /\ o.intended > 0 /\ bar[o.sym] # NoPrice) => o.intended = bar[o.sym]

OnLevels ==
    /\ \A i \in OrderId : Levelled(orders[i])
    /\ phase \in {"manual", "cancel", "submit"} => \A i \in todo : Current(orders[i])

(* Every step of the machinery leaves the levels around the fill. *)
LEMMA MachineryLevels ==
    ASSUME LevelsSurviveRounding, BooksInv, OnLevels, Machinery PROVE OnLevels'
<1>0. /\ orders \in [OrderId -> Order] /\ \A i \in OrderId : orders[i] \in Order
      /\ \A s \in Symbols : bar[s] \in Prices \cup {NoPrice}
      /\ open \in BOOLEAN /\ work \in Account /\ pf \in Account
      /\ \A i \in OrderId : orders[i].sym \in Symbols
  BY DEF BooksInv, TypeOK, Order
<1>1. ASSUME UNCHANGED orders, phase' \notin {"manual", "cancel", "submit"} PROVE OnLevels'
  BY <1>1 DEF OnLevels
<1>2. CASE AnyTick \/ PollDone \/ ApplyDone \/ SubmitDone \/ Value
  <2>1. UNCHANGED orders
    BY <1>2 DEF AnyTick, Tick, PollDone, ApplyDone, SubmitDone, Value, omVars
  <2>2. phase' \notin {"manual", "cancel", "submit"}
    BY <1>2 DEF AnyTick, Tick, PollDone, ApplyDone, SubmitDone, Value
  <2> QED BY <1>1, <2>1, <2>2
<1>3. CASE ManualDone
  BY <1>3 DEF ManualDone, OnLevels, Current, omVars, loopVars, tickVars
<1>4. CASE Cancel
  <2>1. PICK hit \in SUBSET pending : orders' = [i \in OrderId |->
               IF i \in hit THEN [orders[i] EXCEPT !.status = "CANCELED"] ELSE orders[i]]
    BY <1>4 DEF Cancel
  <2>2. phase = "cancel" /\ UNCHANGED <<todo, bar>> BY <1>4 DEF Cancel, tickVars
  <2>3. \A i \in OrderId : [orders[i] EXCEPT !.status = "CANCELED"].status = "CANCELED"
    BY <1>0 DEF Order
  <2>4. \A i \in OrderId : orders'[i] = orders[i] \/ (i \in hit /\ orders'[i].status = "CANCELED")
    BY <2>1, <2>3
  <2>5. \A i \in OrderId : Levelled(orders'[i])
    BY <2>4 DEF OnLevels, Levelled
  <2>6. \A i \in todo : orders'[i] = orders[i]
    BY <2>1, <2>2, <2>4 DEF BooksInv, TypeOK, Filing, Known
  <2> QED BY <2>2, <2>5, <2>6 DEF OnLevels, Current
<1>5. ASSUME NEW i \in OrderId, NEW r, orders' = [orders EXCEPT ![i] = r], Levelled(r)
      PROVE  /\ \A j \in OrderId : Levelled(orders'[j])
             /\ \A j \in OrderId : j # i => orders'[j] = orders[j]
  BY <1>0, <1>5 DEF OnLevels
<1>6. ASSUME NEW i \in OrderId, PollOrder(i) PROVE OnLevels'
  <2> DEFINE r == PollBackend(orders[i], bar[orders[i].sym], open, work)
  <2>1. phase = "poll" /\ phase' = "poll" /\ orders' = [orders EXCEPT ![i] = r]
    BY <1>6 DEF PollOrder
  <2>2. Levelled(r) BY <1>0, PollLevels DEF OnLevels
  <2> HIDE DEF r
  <2> QED BY <1>5, <2>1, <2>2 DEF OnLevels
<1>7. ASSUME NEW i \in OrderId, Apply(i) PROVE OnLevels'
  <2> DEFINE r == [orders[i] EXCEPT !.done = (orders[i].type = "MARKET")]
  <2>1. /\ ApplyPhase /\ UNCHANGED phase
        /\ UNCHANGED orders \/ orders' = [orders EXCEPT ![i] = r]
    BY <1>7 DEF Apply, ApplyOrder
  <2>2. /\ r.type = orders[i].type /\ r.intended = orders[i].intended
        /\ r.status = orders[i].status /\ r.profit = orders[i].profit
        /\ r.trailing = orders[i].trailing /\ r.stop = orders[i].stop
        /\ r.price = orders[i].price
    BY <1>0 DEF Order
  <2> HIDE DEF r
  <2>3. Levelled(r) BY <2>2 DEF OnLevels, Levelled, PricedAround, Straddles
  <2> QED BY <1>1, <1>5, <2>1, <2>3 DEF OnLevels, ApplyPhase
<1>8. ASSUME NEW i \in OrderId, ApplyRaises(i) PROVE OnLevels'
  BY <1>1, <1>8 DEF ApplyRaises, omVars
<1>9. ASSUME NEW i \in OrderId, ManualSale(i) PROVE OnLevels'
  <2> DEFINE asked == [orders[i] EXCEPT !.manual = TRUE]
             r == PollBackend(asked, bar[asked.sym], open, pf)
  <2>1. /\ phase = "manual" /\ i \in plan.manual /\ UNCHANGED <<todo, bar>>
        /\ orders' = [orders EXCEPT ![i] = r]
    BY <1>9 DEF ManualSale, loopVars, tickVars
  <2>2. i \notin todo BY <2>1 DEF BooksInv, Filing, Known
  <2>3. /\ asked \in Order /\ asked.sym \in Symbols
        /\ asked.type = orders[i].type /\ asked.intended = orders[i].intended
        /\ asked.status = orders[i].status /\ asked.profit = orders[i].profit
        /\ asked.trailing = orders[i].trailing /\ asked.stop = orders[i].stop
        /\ asked.price = orders[i].price
    BY <1>0 DEF Order
  <2> HIDE DEF asked
  <2>4. Levelled(asked) BY <2>3 DEF OnLevels, Levelled, PricedAround, Straddles
  <2>5. Levelled(r) BY <1>0, <2>3, <2>4, PollLevels
  <2> HIDE DEF r
  <2>6. \A j \in todo : orders'[j] = orders[j]
    BY <1>5, <2>1, <2>2, <2>5 DEF BooksInv, TypeOK
  <2> QED BY <1>5, <2>1, <2>5, <2>6 DEF OnLevels, Current
<1>10. ASSUME NEW i \in OrderId, SubmitOrder(i) PROVE OnLevels'
  <2> DEFINE r == SubmitBackend(orders[i], bar[orders[i].sym], open, work)
             px == bar[orders[i].sym]
  <2>1. /\ phase = "submit" /\ i \in todo /\ todo' = todo \ {i} /\ UNCHANGED bar
        /\ orders' = [orders EXCEPT ![i] = r]
    BY <1>10 DEF SubmitOrder, IsFirst, tickVars
  <2>2. orders[i].status = "PENDING" BY <2>1 DEF BooksInv, Filing
  <2>3. px \in Nat /\ px \in Prices \cup {NoPrice}
    <3>1. px \in Prices \cup {NoPrice} BY <1>0
    <3> HIDE DEF px
    <3> QED BY <3>1, OrdersAssumption DEF NoPrice
  <2>4. SameOrder(orders[i], r) BY <1>0, <2>3, SubmitSame
  <2>5. Levelled(r)
    <3>1. CASE r = orders[i] BY <3>1 DEF OnLevels
    <3>2. CASE r # orders[i] /\ orders[i].type = "BRACKET" /\ orders[i].intended > 0
      <4>1. px # NoPrice /\ r = EnterBracket(orders[i], px, work)
        BY <3>2 DEF SubmitBackend
      <4>2. px \in Prices /\ px \in Nat \ {0} /\ px = orders[i].intended
        BY <2>1, <2>3, <3>2, <4>1 DEF OnLevels, Current, NoPrice
      <4>3. PricedAround(orders[i]) BY <2>2, <3>2 DEF OnLevels, Levelled
      <4>4. Straddles(r) BY <1>0, <3>2, <4>1, <4>2, <4>3, EntryStraddles
      <4>5. r.status = "PENDING_SALE" BY <1>0, <4>1, <4>2, EntryFields
      <4> QED BY <4>4, <4>5 DEF Levelled
    <3>3. CASE ~(orders[i].type = "BRACKET" /\ orders[i].intended > 0)
      BY <2>4, <3>3 DEF Levelled, SameOrder
    <3> QED BY <3>1, <3>2, <3>3
  <2> HIDE DEF r
  <2>6. \A j \in todo \ {i} : orders'[j] = orders[j]
    BY <1>5, <2>1, <2>5 DEF BooksInv, TypeOK
  <2> QED BY <1>5, <2>1, <2>5, <2>6 DEF OnLevels, Current
<1> QED BY <1>2, <1>3, <1>4, <1>6, <1>7, <1>8, <1>9, <1>10 DEF Machinery

(* A strategy prices the brackets it records an estimate of around the     *)
(* price it sees on this tick.                                             *)
LEMMA RunStrategyLevels ==
    ASSUME BooksInv, OnLevels, NEW manual, NEW cancel, NEW new,
           \A k \in DOMAIN new : Levelled(new[k]) /\ Current(new[k]),
           RunStrategy(manual, cancel, new)
    PROVE  OnLevels'
<1> DEFINE sent == {k \in DOMAIN new : new[k].qty > 0}
<1>1. /\ phase' = "manual" /\ todo' = sent /\ bar' = bar /\ sent \subseteq Unused
      /\ orders' = [i \in OrderId |-> IF i \in sent THEN new[i] ELSE orders[i]]
  BY DEF RunStrategy, tickVars
<1>2. sent \subseteq DOMAIN new OBVIOUS
<1> HIDE DEF sent
<1>3. \A i \in OrderId : Levelled(orders'[i]) BY <1>1, <1>2 DEF OnLevels
<1>4. \A i \in sent : orders'[i] = new[i] BY <1>1 DEF Unused
<1> QED BY <1>1, <1>2, <1>3, <1>4 DEF OnLevels, Current

(* So does a strategy that asks for anything on the menu.                  *)
LEMMA AnyStrategyLevels == ASSUME BooksInv, OnLevels, AnyStrategy PROVE OnLevels'
<1>0. PICK manual \in {{}} \cup {{i} : i \in {j \in pending : Active(j)}},
           cancel \in {{}, {"MARKET"}, {"BRACKET"}},
           ids \in SUBSET Unused :
        \E asked \in [ids -> {r \in OrderMenu : GetPrice(r.sym) # NoPrice}] :
            RunStrategy(manual, cancel, [i \in ids |-> Requested(asked[i])])
  BY DEF AnyStrategy
<1>1. PICK asked \in [ids -> {r \in OrderMenu : GetPrice(r.sym) # NoPrice}] :
            RunStrategy(manual, cancel, [i \in ids |-> Requested(asked[i])])
  BY <1>0
<1> DEFINE new == [i \in ids |-> Requested(asked[i])]
<1>2. ASSUME NEW r \in OrderMenu, GetPrice(r.sym) # NoPrice
      PROVE  Levelled(Requested(r)) /\ Current(Requested(r))
  <2> DEFINE o == Requested(r)
             est == GetPrice(r.sym)
  <2>1. r.kind \in {"BUY", "SELL", "FIXED", "TRAILING"} /\ r.sym \in Symbols
    BY TradingAssumption
  <2>2. est \in Prices /\ (bar[r.sym] # NoPrice => est = bar[r.sym])
    BY <1>2, <2>1 DEF BooksInv, TypeOK, GetPrice
  <2>3. /\ o.status = "PENDING" /\ o.intended \in {0, est} /\ o.sym = r.sym
        /\ o.type = "BRACKET" => /\ o.profit = ProfitOf(est)
                                 /\ ~o.trailing => o.stop = StopOf(est)
    BY <2>1 DEF Requested, ConfiguredBracket, MarketOrder, FixedBracket, TrailingBracket, NewOrder
  <2> HIDE DEF o, est
  <2> QED BY <2>2, <2>3 DEF Levelled, PricedAround, Current, o
<1>3. \A k \in DOMAIN new : Levelled(new[k]) /\ Current(new[k])
  BY <1>2
<1> HIDE DEF new
<1>4. RunStrategy(manual, cancel, new) BY <1>1 DEF new
<1> QED BY <1>3, <1>4, RunStrategyLevels

(* A bracket whose strategy recorded the estimate straddles its own fill,  *)
(* however long it waited for the bar, unless rounding to the cent eats    *)
(* the distance of its levels.                                             *)
THEOREM StraddleCorrect == ASSUME LevelsSurviveRounding PROVE Spec => []StraddlesEntry
<1>1. Init => OnLevels
  <2>1. ASSUME Init PROVE phase = "idle" /\ \A i \in OrderId : orders[i].type = "NONE"
    BY <2>1 DEF Init, UnusedOrder, NewOrder
  <2> QED BY <2>1 DEF OnLevels, Levelled
<1>2. BooksInv /\ OnLevels /\ [Next]_vars => OnLevels'
  <2>1. ASSUME BooksInv, OnLevels, Next PROVE OnLevels'
    BY <2>1, MachineryLevels, AnyStrategyLevels DEF Next
  <2>2. ASSUME OnLevels, UNCHANGED vars PROVE OnLevels'
    BY <2>2 DEF OnLevels, Current, vars, omVars, pfVars, loopVars, tickVars
  <2> QED BY <2>1, <2>2
<1>3. BooksInv /\ OnLevels => StraddlesEntry
  BY DEF BooksInv, TypeOK, OnLevels, Levelled, Straddles, StraddlesEntry, Active
<1> QED BY <1>1, <1>2, <1>3, BooksInvariant, PTL DEF Spec

-----------------------------------------------------------------------------
(* Sums.  The library's induction theorems cannot be used as they stand:   *)
(* a statement that fails for some set fails for a smallest one instead.   *)

(* Of some subsets of a finite set, one contains none of the others,       *)
LEMMA Smallest ==
    ASSUME NEW S, IsFiniteSet(S), NEW T \in SUBSET (SUBSET S), T # {}
    PROVE  \E s \in T : \A u \in T : ~(u \subseteq s /\ u # s)
<1>1. IsWellFoundedOn(StrictSubsetOrdering(S), SUBSET S)
  BY FS_StrictSubsetOrderingWellFounded, FS_FiniteSubsetsOfFinite
<1>2. PICK s \in T : \A u \in T : ~(<<u, s>> \in StrictSubsetOrdering(S))
  BY <1>1, WFMin
<1> QED BY <1>2 DEF StrictSubsetOrdering

(* and of some numbers, one is the least.                                  *)
LEMMA Least ==
    ASSUME NEW T \in SUBSET Nat, T # {}
    PROVE  \E n \in T : \A m \in T : n <= m
<1>1. PICK n \in T : \A m \in T : ~(<<m, n>> \in OpToRel(<, Nat))
  BY NatLessThanWellFounded, WFMin
<1>2. \A m \in T : ~(m < n) BY <1>1 DEF OpToRel
<1> QED BY <1>2

(* One unfolding of the sum of f over the subsets of S. *)
SumStep(g, f, S) == [s \in SUBSET S |->
    IF s = {} THEN 0 ELSE LET x == CHOOSE y \in s : TRUE IN f[x] + g[s \ {x}]]

Summing(f, S) == CHOOSE g : g = SumStep(g, f, S)

(* The sum of a function is what unfolding it computes.                    *)
LEMMA SumIs ==
    ASSUME NEW S, NEW f, DOMAIN f = S
    PROVE  SumFunction(f) = Summing(f, S)[S]
BY DEF SumFunction, SumFunctionOnSet, FoldFunctionOnSet, MapThenFoldSet, SumStep, Summing

(* One unfolding takes one element off.                                    *)
LEMMA SumStepIs ==
    ASSUME NEW S, NEW f \in [S -> Int], NEW g, NEW s \in SUBSET S
    PROVE  /\ s = {} => SumStep(g, f, S)[s] = 0
           /\ s # {} => \E x \in s : /\ x = CHOOSE y \in s : TRUE
                                     /\ SumStep(g, f, S)[s] = f[x] + g[s \ {x}]
BY DEF SumStep

(* The recursion is well founded: it can be unfolded to any depth, hence   *)
(* for all subsets at once.                                                *)
LEMMA SumExists ==
    ASSUME NEW S, IsFiniteSet(S), NEW f \in [S -> Int]
    PROVE  Summing(f, S) = SumStep(Summing(f, S), f, S)
<1> DEFINE Good(g, n) == \A s \in SUBSET S : Cardinality(s) <= n => g[s] = SumStep(g, f, S)[s]
           Bad == {n \in Nat : ~\E g \in [SUBSET S -> Int] : Good(g, n)}
<1>1. \A s \in SUBSET S : /\ Cardinality(s) \in Nat
                          /\ \A x \in s : Cardinality(s \ {x}) = Cardinality(s) - 1
                          /\ Cardinality(s) = 0 => s = {}
  <2> SUFFICES ASSUME NEW s \in SUBSET S
               PROVE  /\ Cardinality(s) \in Nat
                      /\ \A x \in s : Cardinality(s \ {x}) = Cardinality(s) - 1
                      /\ Cardinality(s) = 0 => s = {}
    OBVIOUS
  <2>1. IsFiniteSet(s) BY FS_Subset
  <2> QED BY <2>1, FS_CardinalityType, FS_RemoveElement, FS_EmptySet
<1>2. Bad = {}
  <2> SUFFICES ASSUME Bad # {} PROVE FALSE
    OBVIOUS
  <2>1. PICK n \in Bad : \A m \in Bad : n <= m BY Least
  <2>2. CASE n = 0
    <3> DEFINE g == [s \in SUBSET S |-> 0]
    <3>1. g \in [SUBSET S -> Int] OBVIOUS
    <3>2. Good(g, 0) BY <1>1, SumStepIs
    <3> QED BY <2>1, <2>2, <3>1, <3>2
  <2>3. CASE n # 0
    <3>0. n \in Nat OBVIOUS
    <3>1. n - 1 \in Nat /\ n - 1 \notin Bad
      <4> HIDE DEF Bad
      <4>1. n - 1 \in Nat BY <2>3, <3>0
      <4> QED BY <2>1, <3>0, <4>1
    <3>2. PICK g \in [SUBSET S -> Int] : Good(g, n - 1) BY <3>1
    <3> DEFINE h == [s \in SUBSET S |-> IF Cardinality(s) <= n - 1 THEN g[s] ELSE SumStep(g, f, S)[s]]
    <3>3. \A s \in SUBSET S : SumStep(g, f, S)[s] \in Int
      <4> SUFFICES ASSUME NEW s \in SUBSET S PROVE SumStep(g, f, S)[s] \in Int
        OBVIOUS
      <4>1. CASE s = {} BY <4>1, SumStepIs
      <4>2. CASE s # {}
        <5> DEFINE x == CHOOSE y \in s : TRUE
        <5>1. x \in s /\ SumStep(g, f, S)[s] = f[x] + g[s \ {x}]
          BY <4>2 DEF SumStep
        <5> HIDE DEF x
        <5>2. f[x] \in Int /\ g[s \ {x}] \in Int BY <5>1
        <5> QED BY <5>1, <5>2
      <4> QED BY <4>1, <4>2
    <3>4. h \in [SUBSET S -> Int] BY <3>3
    <3>5. ASSUME NEW s \in SUBSET S, Cardinality(s) <= n PROVE h[s] = SumStep(h, f, S)[s]
      <4>1. h[s] = SumStep(g, f, S)[s] BY <3>2
      <4>2. SumStep(h, f, S)[s] = SumStep(g, f, S)[s]
        <5>1. CASE s = {} BY <5>1, SumStepIs
        <5>2. CASE s # {}
          <6> DEFINE x == CHOOSE y \in s : TRUE
          <6>1. x \in s BY <5>2
          <6>2. Cardinality(s \ {x}) <= n - 1
            <7> HIDE DEF x, Bad
            <7>1. Cardinality(s) \in Nat /\ Cardinality(s \ {x}) = Cardinality(s) - 1
              BY <1>1, <6>1
            <7> QED BY <3>0, <3>5, <7>1
          <6>3. h[s \ {x}] = g[s \ {x}] BY <6>2
          <6>4. SumStep(h, f, S)[s] = f[x] + h[s \ {x}] BY <5>2 DEF SumStep
          <6>5. SumStep(g, f, S)[s] = f[x] + g[s \ {x}] BY <5>2 DEF SumStep
          <6> QED BY <6>3, <6>4, <6>5
        <5> QED BY <5>1, <5>2
      <4> QED BY <4>1, <4>2
    <3> HIDE DEF h
    <3>6. Good(h, n) BY <3>5
    <3> QED BY <2>1, <3>4, <3>6
  <2> QED BY <2>2, <2>3
<1>3. Cardinality(S) \in Nat /\ \A s \in SUBSET S : Cardinality(s) <= Cardinality(S)
  BY FS_CardinalityType, FS_Subset
<1>4. PICK g \in [SUBSET S -> Int] : Good(g, Cardinality(S)) BY <1>2, <1>3
<1>5. \A s \in SUBSET S : g[s] = SumStep(g, f, S)[s] BY <1>3, <1>4
<1>6. g = [s \in SUBSET S |-> SumStep(g, f, S)[s]] BY <1>5
<1>7. SumStep(g, f, S) = [s \in SUBSET S |-> SumStep(g, f, S)[s]] BY DEF SumStep
<1>8. g = SumStep(g, f, S) BY <1>6, <1>7
<1> QED BY <1>8 DEF Summing

(* The order in which the elements are taken does not matter. *)
Adds(g, f, S) ==
    /\ g \in [SUBSET S -> Int] /\ g[{}] = 0
    /\ \A s \in SUBSET S : \A y \in s : g[s] = f[y] + g[s \ {y}]

(* Taking any element off leaves the sum of the others.                    *)
LEMMA SumAny ==
    ASSUME NEW S, IsFiniteSet(S), NEW f \in [S -> Int]
    PROVE  Adds(Summing(f, S), f, S)
<1> DEFINE g == Summing(f, S)
           Odd == {s \in SUBSET S : g[s] \notin Int}
           Bad == {s \in SUBSET S : \E y \in s : g[s] # f[y] + g[s \ {y}]}
<1>1. g = SumStep(g, f, S) BY SumExists
<1> HIDE DEF g
<1>2. \A s \in SUBSET S : /\ s = {} => g[s] = 0
                          /\ s # {} => \E x \in s : /\ x = CHOOSE y \in s : TRUE
                                                    /\ g[s] = f[x] + g[s \ {x}]
  BY <1>1, SumStepIs
<1>3. Odd = {}
  <2> SUFFICES ASSUME Odd # {} PROVE FALSE
    OBVIOUS
  <2>0. Odd \in SUBSET (SUBSET S) OBVIOUS
  <2>1. PICK s \in Odd : \A u \in Odd : ~(u \subseteq s /\ u # s)
    <3> HIDE DEF Odd
    <3> QED BY <2>0, Smallest
  <2>2. s # {} BY <1>2
  <2>3. PICK x \in s : g[s] = f[x] + g[s \ {x}] BY <1>2, <2>2
  <2>4. g[s \ {x}] \in Int BY <2>1, <2>3
  <2> QED BY <2>3, <2>4
<1>4. g \in [SUBSET S -> Int]
  <2>1. g = [s \in SUBSET S |-> g[s]] BY <1>1 DEF SumStep
  <2>2. \A s \in SUBSET S : g[s] \in Int BY <1>3
  <2> QED BY <2>1, <2>2
<1>5. Bad = {}
  <2> SUFFICES ASSUME Bad # {} PROVE FALSE
    OBVIOUS
  <2>0. Bad \in SUBSET (SUBSET S) OBVIOUS
  <2>1. PICK s \in Bad : \A u \in Bad : ~(u \subseteq s /\ u # s)
    <3> HIDE DEF Bad
    <3> QED BY <2>0, Smallest
  <2>2. PICK y \in s : g[s] # f[y] + g[s \ {y}] OBVIOUS
  <2>3. PICK x \in s : g[s] = f[x] + g[s \ {x}] BY <1>2, <2>2
  <2>4. x # y BY <2>2, <2>3
  <2>5. s \ {x} \notin Bad /\ s \ {y} \notin Bad BY <2>1, <2>2, <2>3
  <2>6. g[s \ {x}] = f[y] + g[(s \ {x}) \ {y}] BY <2>2, <2>4, <2>5
  <2>7. g[s \ {y}] = f[x] + g[(s \ {y}) \ {x}] BY <2>3, <2>4, <2>5
  <2>8. (s \ {x}) \ {y} = (s \ {y}) \ {x} OBVIOUS
  <2>9. /\ f[x] \in Int /\ f[y] \in Int /\ g[(s \ {x}) \ {y}] \in Int
        /\ g[s] = f[x] + (f[y] + g[(s \ {x}) \ {y}])
        /\ g[s \ {y}] = f[x] + g[(s \ {x}) \ {y}]
    BY <1>4, <2>2, <2>3, <2>6, <2>7, <2>8
  <2>10. g[s] = f[y] + g[s \ {y}] BY <2>9
  <2> QED BY <2>2, <2>10
<1>6. \A s \in SUBSET S : \A y \in s : g[s] = f[y] + g[s \ {y}] BY <1>5
<1>7. g[{}] = 0 BY <1>2
<1>8. Adds(g, f, S) BY <1>4, <1>6, <1>7 DEF Adds
<1> QED BY <1>8 DEF g

(* The sum over a set does not depend on what else f is defined for. *)
LEMMA SumAgrees ==
    ASSUME NEW S, IsFiniteSet(S), NEW f \in [S -> Int],
           NEW T \in SUBSET S, NEW h \in [T -> Int], \A x \in T : h[x] = f[x]
    PROVE  Summing(f, S)[T] = Summing(h, T)[T]
<1> DEFINE g == Summing(f, S)
           k == Summing(h, T)
           Bad == {s \in SUBSET T : g[s] # k[s]}
<1>1. IsFiniteSet(T) BY FS_Subset
<1>2. Adds(g, f, S) BY SumAny
<1>3. Adds(k, h, T) BY <1>1, SumAny
<1> HIDE DEF g, k
<1>4. Bad = {}
  <2> SUFFICES ASSUME Bad # {} PROVE FALSE
    OBVIOUS
  <2>0. Bad \in SUBSET (SUBSET T) OBVIOUS
  <2>1. PICK s \in Bad : \A u \in Bad : ~(u \subseteq s /\ u # s)
    <3> HIDE DEF Bad
    <3> QED BY <1>1, <2>0, Smallest
  <2>2. s # {} BY <1>2, <1>3 DEF Adds
  <2>3. PICK y \in s : TRUE BY <2>2
  <2>4. g[s \ {y}] = k[s \ {y}] BY <2>1, <2>3
  <2>5. g[s] = f[y] + g[s \ {y}] BY <1>2 DEF Adds
  <2>6. k[s] = h[y] + k[s \ {y}] BY <1>3 DEF Adds
  <2>7. h[y] = f[y] OBVIOUS
  <2> QED BY <2>1, <2>4, <2>5, <2>6, <2>7
<1> QED BY <1>4 DEF g, k

(* Nothing adds up to nothing,                                             *)
LEMMA SumNone == ASSUME NEW f, DOMAIN f = {} PROVE SumFunction(f) = 0
<1>1. f \in [{} -> Int] BY SMT
<1>2. IsFiniteSet({}) BY FS_EmptySet
<1>3. SumFunction(f) = Summing(f, {})[{}] BY SumIs
<1>4. Adds(Summing(f, {}), f, {}) BY <1>1, <1>2, SumAny
<1> QED BY <1>3, <1>4 DEF Adds

(* whole numbers to a whole number,                                        *)
LEMMA SumType ==
    ASSUME NEW S, IsFiniteSet(S), NEW f \in [S -> Int]
    PROVE  SumFunction(f) \in Int
<1>1. SumFunction(f) = Summing(f, S)[S] BY SumIs
<1>2. Adds(Summing(f, S), f, S) BY SumAny
<1> QED BY <1>1, <1>2 DEF Adds

(* h is f with one more value, at e. *)
Longer(S, f, e, h) ==
    /\ IsFiniteSet(S) /\ e \notin S
    /\ f \in [S -> Int] /\ h \in [S \cup {e} -> Int]
    /\ \A x \in S : h[x] = f[x]

(* and one value more to that much more.                                   *)
LEMMA SumMore ==
    ASSUME NEW S, NEW f, NEW e, NEW h, Longer(S, f, e, h)
    PROVE  SumFunction(h) = SumFunction(f) + h[e]
<1>0. /\ IsFiniteSet(S) /\ e \notin S
      /\ f \in [S -> Int] /\ h \in [S \cup {e} -> Int]
      /\ \A x \in S : h[x] = f[x]
  BY DEF Longer
<1> DEFINE U == S \cup {e}
<1>1. IsFiniteSet(U) /\ U \ {e} = S /\ S \in SUBSET U /\ e \in U /\ h \in [U -> Int]
  BY <1>0, FS_AddElement
<1> HIDE DEF U
<1>2. SumFunction(f) = Summing(f, S)[S] BY <1>0, SumIs
<1>3. SumFunction(h) = Summing(h, U)[U] BY <1>1, SumIs
<1>4. Adds(Summing(h, U), h, U) BY <1>1, SumAny
<1>5. Summing(h, U)[U] = h[e] + Summing(h, U)[S] BY <1>0, <1>1, <1>4 DEF Adds
<1>6. \A x \in S : f[x] = h[x] BY <1>0
<1>7. Summing(h, U)[S] = Summing(f, S)[S] BY <1>0, <1>1, <1>6, SumAgrees
<1>8. h[e] \in Int /\ Summing(h, U)[S] \in Int BY <1>1, <1>4 DEF Adds
<1> QED BY <1>2, <1>3, <1>5, <1>7, <1>8

-----------------------------------------------------------------------------
(* The ledger *)

Sides == {"BUY", "SELL"}

(* What an order has traded so far, and what it traded last. *)
Trades(o, side) == IF side = "BUY" THEN HasBought(o) ELSE Sells(o)

LastSide(o) == IF Sells(o) THEN "SELL" ELSE "BUY"

(* An account is reckoned when it is what the executions of E add up to.   *)
Reckoned(a, os, E) ==
    /\ a.cash = InitialCash - CashSpent(os, E)
    /\ \A s \in Symbols : Shares(a, s) = SharesTraded(os, E, s)

(* What an execution costs, and moves, is a number.                        *)
LEMMA CostType ==
    ASSUME NEW o \in Order, NEW side
    PROVE  QtyOf(o, side) \in Int /\ PriceOf(o, side) \in Int /\ CostOf(o, side) \in Int
<1>1. QtyOf(o, side) \in Int /\ PriceOf(o, side) \in Int
  BY DEF QtyOf, PriceOf, SellOf, Order, Exit
<1> QED BY <1>1, OrdersAssumption DEF CostOf

(* The reckoning depends on nothing but what was executed.                 *)
LEMMA ReckonedKept ==
    ASSUME NEW a, NEW os, NEW ns, NEW E,
           \A e \in E : /\ ns[e[1]].sym = os[e[1]].sym
                        /\ QtyOf(ns[e[1]], e[2]) = QtyOf(os[e[1]], e[2])
                        /\ PriceOf(ns[e[1]], e[2]) = PriceOf(os[e[1]], e[2]),
           Reckoned(a, os, E)
    PROVE  Reckoned(a, ns, E)
<1>1. [e \in E |-> CostOf(ns[e[1]], e[2])] = [e \in E |-> CostOf(os[e[1]], e[2])]
  BY DEF CostOf
<1>2. ASSUME NEW s \in Symbols
      PROVE  SharesTraded(ns, E, s) = SharesTraded(os, E, s)
  <2>1. {x \in E : ns[x[1]].sym = s} = {x \in E : os[x[1]].sym = s} OBVIOUS
  <2> DEFINE D == {x \in E : os[x[1]].sym = s}
  <2>2. [e \in D |-> QtyOf(ns[e[1]], e[2])] = [e \in D |-> QtyOf(os[e[1]], e[2])]
    OBVIOUS
  <2> QED BY <2>1, <2>2 DEF SharesTraded
<1> QED BY <1>1, <1>2 DEF Reckoned, CashSpent

(* One more execution costs what it costs                                  *)
LEMMA CashMore ==
    ASSUME NEW os, NEW E, IsFiniteSet(E), NEW x, x \notin E,
           \A e \in E : os[e[1]] \in Order, os[x[1]] \in Order
    PROVE  /\ CashSpent(os, E) \in Int
           /\ CashSpent(os, E \cup {x}) = CashSpent(os, E) + CostOf(os[x[1]], x[2])
<1> DEFINE F == E \cup {x}
           f == [e \in E |-> CostOf(os[e[1]], e[2])]
           h == [e \in F |-> CostOf(os[e[1]], e[2])]
<1>3. \A e \in F : CostOf(os[e[1]], e[2]) \in Int BY CostType
<1>4. /\ f \in [E -> Int] /\ h \in [E \cup {x} -> Int] /\ \A e \in E : h[e] = f[e]
      /\ h[x] = CostOf(os[x[1]], x[2])
  BY <1>3
<1>5. CashSpent(os, E) = SumFunction(f) /\ CashSpent(os, E \cup {x}) = SumFunction(h)
  BY DEF CashSpent
<1> HIDE DEF f, h, F
<1>6. SumFunction(f) \in Int BY <1>4, SumType
<1>7. Longer(E, f, x, h) BY <1>4 DEF Longer
<1>8. SumFunction(h) = SumFunction(f) + h[x] BY <1>7, SumMore
<1> QED BY <1>4, <1>5, <1>6, <1>8

(* and moves the shares it moves.                                          *)
LEMMA SharesMore ==
    ASSUME NEW os, NEW E, IsFiniteSet(E), NEW x, x \notin E, NEW s,
           \A e \in E : os[e[1]] \in Order, os[x[1]] \in Order
    PROVE  SharesTraded(os, E \cup {x}, s) =
              IF os[x[1]].sym = s THEN SharesTraded(os, E, s) + QtyOf(os[x[1]], x[2])
              ELSE SharesTraded(os, E, s)
<1> DEFINE F == E \cup {x}
           D == {e \in E : os[e[1]].sym = s}
           C == {e \in F : os[e[1]].sym = s}
           f == [e \in D |-> QtyOf(os[e[1]], e[2])]
           h == [e \in C |-> QtyOf(os[e[1]], e[2])]
<1>1. IsFiniteSet(D) BY FS_Subset
<1>2. SharesTraded(os, E, s) = SumFunction(f) /\ SharesTraded(os, F, s) = SumFunction(h)
  BY DEF SharesTraded
<1>4. \A e \in F : QtyOf(os[e[1]], e[2]) \in Int BY CostType
<1>5. CASE os[x[1]].sym = s
  <2>1. C = D \cup {x} /\ x \notin D BY <1>5
  <2>2. /\ f \in [D -> Int] /\ h \in [D \cup {x} -> Int] /\ \A e \in D : h[e] = f[e]
        /\ h[x] = QtyOf(os[x[1]], x[2])
    BY <1>4, <2>1
  <2> HIDE DEF D, C, f, h, F
  <2>3. Longer(D, f, x, h) BY <1>1, <2>1, <2>2 DEF Longer
  <2>4. SumFunction(h) = SumFunction(f) + h[x] BY <2>3, SumMore
  <2> QED BY <1>2, <1>5, <2>2, <2>4 DEF F
<1>6. CASE os[x[1]].sym # s
  <2>1. C = D BY <1>6
  <2>2. h = f BY <2>1
  <2> QED BY <1>2, <1>6, <2>2
<1> QED BY <1>5, <1>6

(* The execution of one side of an order leads from one account to another. *)
Leads(o, side, a, b) ==
    /\ b.cash = a.cash - CostOf(o, side)
    /\ \A s \in Symbols : Shares(b, s) =
           IF o.sym = s THEN Shares(a, s) + QtyOf(o, side) ELSE Shares(a, s)

(* So an account that one more execution leads to is reckoned again.       *)
LEMMA ReckonedMore ==
    ASSUME NEW os \in [OrderId -> Order], NEW E \in SUBSET (OrderId \X Sides),
           NEW i \in OrderId, NEW side \in Sides, <<i, side>> \notin E,
           NEW a \in Account, NEW b, Reckoned(a, os, E), Leads(os[i], side, a, b)
    PROVE  Reckoned(b, os, E \cup {<<i, side>>})
<1> DEFINE x == <<i, side>>
           F == E \cup {x}
<1>1. /\ x \notin E /\ x[1] = i /\ x[2] = side
      /\ \A e \in E : os[e[1]] \in Order
      /\ os[i] \in Order
      /\ IsFiniteSet(E)
  BY ExecutionsBounded DEF Sides
<1> HIDE DEF x
<1>2. /\ CashSpent(os, E) \in Int
      /\ CashSpent(os, F) = CashSpent(os, E) + CostOf(os[i], side)
  BY <1>1, CashMore
<1>3. ASSUME NEW s \in Symbols
      PROVE  SharesTraded(os, F, s) =
                IF os[i].sym = s THEN SharesTraded(os, E, s) + QtyOf(os[i], side)
                ELSE SharesTraded(os, E, s)
  BY <1>1, SharesMore
<1>4. PICK c \in Int, d \in Int : c = CashSpent(os, E) /\ d = CostOf(os[i], side)
  BY <1>2, CostType
<1> HIDE DEF F
<1>5. b.cash = InitialCash - CashSpent(os, F)
  BY <1>2, <1>4, TradingAssumption DEF Reckoned, Leads
<1>6. \A s \in Symbols : Shares(b, s) = SharesTraded(os, F, s)
  BY <1>3 DEF Reckoned, Leads
<1> QED BY <1>5, <1>6 DEF Reckoned, F, x

(* What the portfolio does with an order it can handle is the order's last *)
(* execution.                                                              *)
LEMMA AppliedReckons ==
    ASSUME NEW o \in Order, NEW a \in Account, ~Raises(o, a), Buys(o) \/ Sells(o)
    PROVE  Leads(o, LastSide(o), a, Applied(o, a))
<1>0. /\ o.sym \in Symbols /\ o.qty \in Int /\ o.price \in Int
      /\ SellOf(o).qty \in Int /\ SellOf(o).price \in Int
      /\ a.cash \in Int /\ a.held \subseteq Symbols /\ a.qty \in [Symbols -> Int]
  BY DEF Order, Exit, SellOf, Account
<1>1. CASE Buys(o)
  <2>1. ~Sells(o) BY <1>1 DEF Buys, Sells
  <2> DEFINE b == Bought(a, o.sym, o.qty, o.price)
  <2>2. Applied(o, a) = b /\ LastSide(o) = "BUY" BY <1>1, <2>1 DEF Applied, LastSide
  <2>3. QtyOf(o, "BUY") = o.qty /\ CostOf(o, "BUY") = o.qty * o.price + TxCost
    BY DEF QtyOf, PriceOf, CostOf
  <2>4. /\ b.cash = a.cash - o.price * o.qty - TxCost
        /\ b.held = a.held \cup {o.sym}
        /\ b.qty = [a.qty EXCEPT ![o.sym] = Shares(a, o.sym) + o.qty]
    BY DEF Bought
  <2> HIDE DEF b
  <2>5. b.cash = a.cash - CostOf(o, "BUY")
    <3>1. PICK x \in Int : x = o.price * o.qty /\ x = o.qty * o.price BY <1>0
    <3> QED BY <1>0, <2>3, <2>4, <3>1, OrdersAssumption
  <2>6. \A s \in Symbols : Shares(b, s) =
            IF o.sym = s THEN Shares(a, s) + o.qty ELSE Shares(a, s)
    BY <1>0, <2>4 DEF Shares
  <2> QED BY <2>2, <2>3, <2>5, <2>6 DEF Leads
<1>2. CASE Sells(o)
  <2> DEFINE q == SellOf(o).qty
             px == SellOf(o).price
             b == Sold(a, o.sym, q, px, a.qty[o.sym] = q)
  <2>1. ~Buys(o) /\ o.sym \in a.held BY <1>2 DEF Buys, Sells, Raises
  <2>2. Applied(o, a) = b /\ LastSide(o) = "SELL" BY <1>2, <2>1 DEF Applied, LastSide
  <2>3. QtyOf(o, "SELL") = -q /\ CostOf(o, "SELL") = (-q) * px + TxCost
    BY DEF QtyOf, PriceOf, CostOf
  <2> DEFINE closed == a.qty[o.sym] = q
  <2>4. /\ b.cash = a.cash + px * q - TxCost
        /\ b.held = IF closed THEN a.held \ {o.sym} ELSE a.held
        /\ b.qty = [a.qty EXCEPT ![o.sym] = IF closed THEN 0 ELSE @ - q]
    BY DEF Sold
  <2>5. q \in Int /\ px \in Int BY <1>0
  <2> HIDE DEF b, q, px
  <2>6. b.cash = a.cash - CostOf(o, "SELL")
    <3>1. PICK x \in Int : x = px * q /\ -x = (-q) * px BY <2>5
    <3> QED BY <1>0, <2>3, <2>4, <3>1, OrdersAssumption
  <2>7. \A s \in Symbols : Shares(b, s) =
            IF o.sym = s THEN Shares(a, s) + (-q) ELSE Shares(a, s)
    BY <1>0, <2>1, <2>4, <2>5 DEF Shares
  <2> QED BY <2>2, <2>3, <2>6, <2>7 DEF Leads
<1> QED BY <1>1, <1>2

(* An order has a fill price exactly from its entry on. *)
Priced(o) ==
    /\ o.status = "PENDING" => o.price = NoPrice
    /\ (o.type = "BRACKET" /\ o.status \in {"PENDING_SALE", "FILLED"}) => o.price # NoPrice

(* What a bar does to an order: nothing is taken back or rewritten, and an *)
(* order that moves does one thing, its last execution.                    *)
Advances(o, r) ==
    /\ \A side \in Sides : Trades(o, side) =>
          QtyOf(r, side) = QtyOf(o, side) /\ PriceOf(r, side) = PriceOf(o, side)
    /\ r.status # o.status =>
          \A side \in Sides : Trades(o, side) <=> (Trades(r, side) /\ side # LastSide(r))
    /\ r.status = o.status => \A side \in Sides : Trades(o, side) <=> Trades(r, side)
    /\ r.status = "CANCELED" => \A side \in Sides : ~Trades(r, side)

(* A market order that a bar reaches is over,                              *)
LEMMA MarketAdvances ==
    ASSUME NEW o \in Order, o.type = "MARKET", o.status \notin Terminal, Priced(o),
           NEW px \in Nat \ {0}, NEW a
    PROVE  LET r == ProcessMarket(o, px, a)
           IN  Priced(r) /\ Advances(o, r) /\ r.status \in Terminal
<1> DEFINE r == ProcessMarket(o, px, a)
<1>1. /\ r.type = "MARKET" /\ r.action = o.action /\ r.status \in {"CANCELED", "FILLED"}
  BY DEF ProcessMarket, Order
<1>2. o.action \in {"BUY", "SELL"} BY DEF Order, Action
<1> HIDE DEF r
<1>3. \A side \in Sides : ~Trades(o, side)
  BY DEF Trades, HasBought, Sells, Terminal
<1>4. \A side \in Sides : Trades(r, side) => side = LastSide(r)
  BY <1>1, <1>2 DEF Trades, HasBought, Sells, LastSide, Sides
<1>5. Priced(r) /\ r.status \in Terminal BY <1>1 DEF Priced, Terminal
<1>6. r.status = "CANCELED" => \A side \in Sides : ~Trades(r, side)
  BY <1>1 DEF Trades, HasBought, Sells
<1> QED BY <1>1, <1>3, <1>4, <1>5, <1>6 DEF Advances, r, Terminal

(* a bracket that enters has bought,                                       *)
LEMMA EntryAdvances ==
    ASSUME NEW o \in Order, o.type = "BRACKET", o.status = "PENDING", Priced(o),
           NEW px \in Nat \ {0}, NEW a \in Account,
           NEW r \in {EnterBracket(o, px, a), EnterDeferred(o, px, a)}
    PROVE  Priced(r) /\ Advances(o, r) /\ r.status = "PENDING_SALE"
<1>1. r.price = px /\ r.status = "PENDING_SALE" BY EntryFields
<1>2. r.type = "BRACKET" BY EnterBracketKeeps, EnterDeferredKeeps
<1>3. \A side \in Sides : ~Trades(o, side)
  BY DEF Trades, HasBought, Sells, Priced
<1>4. \A side \in Sides : Trades(r, side) => side = LastSide(r)
  BY <1>1, <1>2 DEF Trades, HasBought, Sells, LastSide, Sides
<1>5. Priced(r) BY <1>1, <1>2 DEF Priced, NoPrice
<1> QED BY <1>1, <1>3, <1>4, <1>5 DEF Advances

(* and one that exits has sold what it bought.                             *)
LEMMA ExitAdvances ==
    ASSUME NEW o \in Order, o.type = "BRACKET", o.status = "PENDING_SALE", Priced(o),
           NEW px \in Nat \ {0}, NEW a
    PROVE  LET r == HoldBracket(o, px, a)
           IN  Priced(r) /\ Advances(o, r) /\ r.status \in {"PENDING_SALE", "FILLED"}
<1> DEFINE t == IF o.trailing THEN Trail(o, px) ELSE o
           r == HoldBracket(o, px, a)
           Held(s) == /\ s.type = "BRACKET" /\ s.status \in {"PENDING_SALE", "FILLED"}
                      /\ s.qty = o.qty /\ s.price = o.price
<1>1. t \in Order /\ Held(t)
  <2>1. Trail(o, px) \in Order BY TrailType
  <2>2. Held(Trail(o, px)) BY DEF Trail, Order
  <2> QED BY <2>1, <2>2
<1> HIDE DEF t
<1>2. \A leg : Held(FillExit(t, leg, px, a))
  BY <1>1 DEF FillExit, Order
<1>3. Held(SellManually(o, px, a))
  BY DEF SellManually, Order
<1>4. r \in {SellManually(o, px, a), FillExit(t, "STOP", px, a),
             FillExit(t, "PROFIT", px, a), t}
  BY DEF HoldBracket, t
<1>5. Held(r) BY <1>1, <1>2, <1>3, <1>4
<1> HIDE DEF r
<1>6. o.price # NoPrice BY DEF Priced
<1>7. /\ HasBought(o) /\ HasBought(r) /\ ~Sells(o)
      /\ Sells(r) <=> r.status = "FILLED"
  BY <1>5, <1>6 DEF HasBought, Sells
<1>8. \A side \in Sides : Trades(o, side) =>
          QtyOf(r, side) = QtyOf(o, side) /\ PriceOf(r, side) = PriceOf(o, side)
  BY <1>5, <1>7 DEF Trades, QtyOf, PriceOf, Sides
<1>9. r.status # o.status =>
         \A side \in Sides : Trades(o, side) <=> (Trades(r, side) /\ side # LastSide(r))
  BY <1>5, <1>7 DEF Trades, LastSide, Sides
<1>10. r.status = o.status => \A side \in Sides : Trades(o, side) <=> Trades(r, side)
  BY <1>5, <1>7 DEF Trades, Sides
<1>11. Priced(r) BY <1>5, <1>6 DEF Priced
<1> QED BY <1>5, <1>8, <1>9, <1>10, <1>11 DEF Advances, r

(* Polling advances an order, and one that still waits had no bar. *)
LEMMA PollAdvances ==
    ASSUME NEW o \in Order, o.type \in {"MARKET", "BRACKET"}, o.status \notin Terminal,
           Priced(o), NEW px \in Nat, NEW op, NEW a \in Account
    PROVE  LET r == PollBackend(o, px, op, a)
           IN  /\ Priced(r) /\ Advances(o, r)
               /\ r.status = "PENDING" => px = NoPrice \/ ~op
<1> DEFINE r == PollBackend(o, px, op, a)
<1>1. o.status # "FILLED" BY DEF Terminal
<1>2. CASE px = NoPrice \/ ~op
  <2>1. r = o BY <1>2 DEF PollBackend
  <2> QED BY <1>2, <2>1 DEF Advances, Terminal
<1>3. CASE px # NoPrice /\ op
  <2>1. px \in Nat \ {0} /\ o.status \in {"PENDING", "PENDING_SALE"}
    BY <1>3 DEF NoPrice, Order, Status, Terminal
  <2>2. CASE o.type = "MARKET"
    <3>1. r = ProcessMarket(o, px, a) BY <1>1, <1>3, <2>2 DEF PollBackend
    <3> QED BY <2>1, <2>2, <3>1, MarketAdvances DEF Terminal
  <2>3. CASE o.type = "BRACKET" /\ o.status = "PENDING"
    <3>1. r = EnterDeferred(o, px, a) BY <1>3, <2>3 DEF PollBackend
    <3> QED BY <2>1, <2>3, <3>1, EntryAdvances
  <2>4. CASE o.type = "BRACKET" /\ o.status = "PENDING_SALE"
    <3>1. r = HoldBracket(o, px, a) BY <1>3, <2>4 DEF PollBackend
    <3> QED BY <2>1, <2>4, <3>1, ExitAdvances
  <2> QED BY <2>1, <2>2, <2>3, <2>4
<1> QED BY <1>2, <1>3

(* So does submitting, and what has no bar stays as it was. *)
LEMMA SubmitAdvances ==
    ASSUME NEW o \in Order, o.type \in {"MARKET", "BRACKET"}, o.status = "PENDING",
           Priced(o), NEW px \in Nat, NEW op, NEW a \in Account
    PROVE  LET r == SubmitBackend(o, px, op, a)
           IN  Priced(r) /\ Advances(o, r)
<1> DEFINE r == SubmitBackend(o, px, op, a)
<1>1. CASE px = NoPrice \/ ~op
  <2>1. r = o BY <1>1 DEF SubmitBackend
  <2> QED BY <2>1 DEF Advances
<1>2. CASE px # NoPrice /\ op
  <2>1. px \in Nat \ {0} /\ o.status \notin Terminal BY <1>2 DEF NoPrice, Terminal
  <2>2. CASE o.type = "MARKET"
    <3>1. r = ProcessMarket(o, px, a) BY <1>2, <2>2 DEF SubmitBackend
    <3> QED BY <2>1, <2>2, <3>1, MarketAdvances
  <2>3. CASE o.type = "BRACKET"
    <3>1. r = EnterBracket(o, px, a) BY <1>2, <2>3 DEF SubmitBackend
    <3> QED BY <2>1, <2>3, <3>1, EntryAdvances
  <2> QED BY <2>2, <2>3
<1> QED BY <1>1, <1>2

(* The executions of the orders of K, without the last ones of the orders  *)
(* of D: those are due, the portfolio has yet to apply them.               *)
InLedger(os, K, D, i, side) ==
    i \in K /\ Trades(os[i], side) /\ ~(i \in D /\ side = LastSide(os[i]))

EnteredIn(os, K, D) == {e \in OrderId \X Sides : InLedger(os, K, D, e[1], e[2])}

SameEntries(os, K, D, ns, L, C) ==
    \A j \in OrderId, side \in Sides :
       /\ InLedger(ns, L, C, j, side) <=> InLedger(os, K, D, j, side)
       /\ InLedger(os, K, D, j, side) =>
             /\ ns[j].sym = os[j].sym
             /\ QtyOf(ns[j], side) = QtyOf(os[j], side)
             /\ PriceOf(ns[j], side) = PriceOf(os[j], side)

(* What is entered is reckoned from the entries alone.                     *)
LEMMA EnteredSame ==
    ASSUME NEW a, NEW os, NEW ns, NEW K, NEW L, NEW D, NEW C,
           SameEntries(os, K, D, ns, L, C),
           Reckoned(a, os, EnteredIn(os, K, D))
    PROVE  Reckoned(a, ns, EnteredIn(ns, L, C))
<1> DEFINE E == EnteredIn(os, K, D)
<1>1. EnteredIn(ns, L, C) = E
  BY DEF EnteredIn, SameEntries
<1>2. \A e \in E : e[1] \in OrderId /\ e[2] \in Sides /\ InLedger(os, K, D, e[1], e[2])
  BY DEF EnteredIn
<1>3. \A e \in E : /\ ns[e[1]].sym = os[e[1]].sym
                   /\ QtyOf(ns[e[1]], e[2]) = QtyOf(os[e[1]], e[2])
                   /\ PriceOf(ns[e[1]], e[2]) = PriceOf(os[e[1]], e[2])
  BY <1>2 DEF SameEntries
<1> HIDE DEF E
<1>4. Reckoned(a, os, E) BY DEF E
<1>5. Reckoned(a, ns, E) BY <1>3, <1>4, ReckonedKept
<1> QED BY <1>1, <1>5

(* One order advances on its own; it is due if it moves.                   *)
AdvancesTo(os, K, D, i, r, ns, L, C) ==
    /\ os \in [OrderId -> Order] /\ i \in OrderId
    /\ ns = [os EXCEPT ![i] = r] /\ r.sym = os[i].sym /\ Advances(os[i], r)
    /\ L = K \cup {i} /\ (i \in K \/ \A side \in Sides : ~Trades(os[i], side))
    /\ i \notin D /\ \A j \in OrderId : j # i => (j \in C <=> j \in D)
    /\ i \in C => r.status # os[i].status
    /\ i \notin C => r.status \in {os[i].status, "CANCELED"}

(* That changes nothing of what was entered.                               *)
LEMMA EnteredAdvance ==
    ASSUME NEW a, NEW os, NEW K, NEW D, NEW i, NEW r, NEW ns, NEW L, NEW C,
           AdvancesTo(os, K, D, i, r, ns, L, C),
           Reckoned(a, os, EnteredIn(os, K, D))
    PROVE  Reckoned(a, ns, EnteredIn(ns, L, C))
<1>0. /\ os \in [OrderId -> Order] /\ i \in OrderId
      /\ ns = [os EXCEPT ![i] = r] /\ r.sym = os[i].sym /\ Advances(os[i], r)
      /\ L = K \cup {i} /\ (i \in K \/ \A side \in Sides : ~Trades(os[i], side))
      /\ i \notin D /\ \A j \in OrderId : j # i => (j \in C <=> j \in D)
      /\ i \in C => r.status # os[i].status
      /\ i \notin C => r.status \in {os[i].status, "CANCELED"}
  BY DEF AdvancesTo
<1>1. ns[i] = r /\ \A j \in OrderId : j # i => ns[j] = os[j]
  BY <1>0
<1>2. ASSUME NEW side \in Sides
      PROVE  /\ InLedger(ns, L, C, i, side) <=> InLedger(os, K, D, i, side)
             /\ InLedger(os, K, D, i, side) =>
                   /\ QtyOf(r, side) = QtyOf(os[i], side)
                   /\ PriceOf(r, side) = PriceOf(os[i], side)
  <2>1. InLedger(os, K, D, i, side) <=> Trades(os[i], side) BY <1>0 DEF InLedger
  <2>2. InLedger(ns, L, C, i, side) <=> (Trades(r, side) /\ ~(i \in C /\ side = LastSide(r)))
    BY <1>0, <1>1 DEF InLedger
  <2>3. Trades(os[i], side) <=> (Trades(r, side) /\ ~(i \in C /\ side = LastSide(r)))
    <3>1. CASE i \in C BY <1>0, <3>1 DEF Advances
    <3>2. CASE i \notin C /\ r.status = os[i].status BY <1>0, <3>2 DEF Advances
    <3>3. CASE i \notin C /\ r.status # os[i].status
      BY <1>0, <3>3 DEF Advances
    <3> QED BY <3>1, <3>2, <3>3
  <2> QED BY <1>0, <2>1, <2>2, <2>3 DEF Advances
<1>3. ASSUME NEW j \in OrderId, NEW side \in Sides, j # i
      PROVE  InLedger(ns, L, C, j, side) <=> InLedger(os, K, D, j, side)
  BY <1>0, <1>1, <1>3 DEF InLedger
<1>4. SameEntries(os, K, D, ns, L, C)
  BY <1>0, <1>1, <1>2, <1>3 DEF SameEntries
<1> QED BY <1>4, EnteredSame

(* What is applied is entered. *)
LEMMA EnteredApply ==
    ASSUME NEW a \in Account, NEW os \in [OrderId -> Order], NEW i \in OrderId,
           NEW K, i \in K, NEW D, i \in D, Priced(os[i]), os[i].type # "NONE",
           ~Raises(os[i], a), Reckoned(a, os, EnteredIn(os, K, D))
    PROVE  Reckoned(Applied(os[i], a), os, EnteredIn(os, K, D \ {i}))
<1> DEFINE o == os[i]
           x == <<i, LastSide(o)>>
<1>1. o \in Order /\ o.type \in {"MARKET", "BRACKET"} /\ o.action \in {"BUY", "SELL"}
  BY DEF Order, OrderKind, Action
<1>2. LastSide(o) \in Sides BY DEF LastSide, Sides
<1>3. EnteredIn(os, K, D) \in SUBSET (OrderId \X Sides) /\ x \notin EnteredIn(os, K, D)
  BY DEF EnteredIn, InLedger
<1>4. ASSUME NEW j \in OrderId, NEW side \in Sides
      PROVE  InLedger(os, K, D \ {i}, j, side) <=>
                \/ InLedger(os, K, D, j, side)
                \/ j = i /\ side = LastSide(o) /\ Trades(o, side)
  BY DEF InLedger
<1>5. CASE Buys(o) \/ Sells(o)
  <2>1. Trades(o, LastSide(o))
    BY <1>1, <1>5 DEF Buys, Sells, Trades, LastSide, HasBought, Priced
  <2>2. EnteredIn(os, K, D \ {i}) = EnteredIn(os, K, D) \cup {x}
    BY <1>2, <1>4, <2>1 DEF EnteredIn
  <2>3. Leads(o, LastSide(o), a, Applied(o, a))
    BY <1>1, <1>5, AppliedReckons
  <2>4. PICK E \in SUBSET (OrderId \X Sides), side \in Sides :
          E = EnteredIn(os, K, D) /\ side = LastSide(o)
    BY <1>2, <1>3
  <2>5. PICK b : b = Applied(o, a) OBVIOUS
  <2>6. Reckoned(b, os, E \cup {<<i, side>>}) BY <1>3, <2>3, <2>4, <2>5, ReckonedMore
  <2> QED BY <2>2, <2>4, <2>5, <2>6
<1>6. CASE ~Buys(o) /\ ~Sells(o)
  <2>1. \A side \in Sides : ~Trades(o, side)
    BY <1>1, <1>6 DEF Buys, Sells, Trades, HasBought, Raises, Terminal
  <2>2. \A j \in OrderId, side \in Sides :
           InLedger(os, K, D \ {i}, j, side) <=> InLedger(os, K, D, j, side)
    BY <1>4, <2>1
  <2>3. Applied(o, a) = a BY <1>6 DEF Applied
  <2>4. EnteredIn(os, K, D \ {i}) = EnteredIn(os, K, D) BY <2>2 DEF EnteredIn
  <2> QED BY <2>3, <2>4
<1> QED BY <1>5, <1>6

(* What the running loop found and the portfolio has yet to apply.         *)
Due == IF phase \in {"poll", "submit"} THEN changed
       ELSE IF ApplyPhase THEN todo ELSE {}

(* The broker has nothing for an order that waits: it has no bar, or the   *)
(* market is closed.                                                       *)
Waits(o) == o.status = "PENDING" => bar[o.sym] = NoPrice \/ ~open

(* The portfolio's account is what the executions that are not due add up  *)
(* to.  When a manual sale polls a bracket a second time on a tick, one    *)
(* that waits for its entry still waits: an entry found there would reach  *)
(* the portfolio a tick late.                                              *)
Booked ==
    /\ \A i \in OrderId : Priced(orders[i])
    /\ phase = "poll" => \A i \in pending \ todo : Waits(orders[i])
    /\ phase \in {"applyPolled", "strategy", "manual"} => \A i \in pending : Waits(orders[i])
    /\ phase # "raised" => Reckoned(pf, orders, EnteredIn(orders, Known, Due))

(* Nothing was executed before the first tick. *)
LEMMA InitBooked == ASSUME Init PROVE Booked
<1>1. /\ orders = [i \in OrderId |-> UnusedOrder(CHOOSE s \in Symbols : TRUE)]
      /\ pf = EmptyAccount /\ Known = {} /\ phase = "idle"
  BY DEF Init, Known
<1>2. \A i \in OrderId : Priced(orders[i])
  BY <1>1 DEF UnusedOrder, NewOrder, Priced
<1>3. EnteredIn(orders, Known, Due) = {} BY <1>1 DEF EnteredIn, InLedger
<1>4. CashSpent(orders, {}) = 0
  <2> DEFINE f == [e \in {} |-> CostOf(orders[e[1]], e[2])]
  <2>1. DOMAIN f = {} OBVIOUS
  <2>2. CashSpent(orders, {}) = SumFunction(f) BY DEF CashSpent
  <2> HIDE DEF f
  <2> QED BY <2>1, <2>2, SumNone
<1>5. ASSUME NEW s \in Symbols PROVE SharesTraded(orders, {}, s) = 0
  <2> DEFINE D == {x \in {} : orders[x[1]].sym = s}
             f == [e \in D |-> QtyOf(orders[e[1]], e[2])]
  <2>1. DOMAIN f = {} OBVIOUS
  <2>2. SharesTraded(orders, {}, s) = SumFunction(f) BY DEF SharesTraded
  <2> HIDE DEF f
  <2> QED BY <2>1, <2>2, SumNone
<1>6. pf.cash = InitialCash /\ \A s \in Symbols : Shares(pf, s) = 0
  BY <1>1 DEF EmptyAccount, Shares
<1>7. Reckoned(pf, orders, {}) BY <1>4, <1>5, <1>6, TradingAssumption DEF Reckoned
<1> QED BY <1>1, <1>2, <1>3, <1>7 DEF Booked

(* Every step of the machinery keeps the account reckoned. *)
LEMMA MachineryBooked == ASSUME BooksInv, Foreseen, Booked, Machinery PROVE Booked'
<1>0. /\ orders \in [OrderId -> Order] /\ \A i \in OrderId : orders[i] \in Order
      /\ pending \subseteq OrderId /\ filled \subseteq OrderId
      /\ changed \subseteq OrderId /\ todo \subseteq OrderId
      /\ pf \in Account /\ work \in Account
  BY DEF BooksInv, TypeOK
<1>1. CASE AnyTick
  <2>1. /\ phase = "idle" /\ phase' = "poll" /\ changed' = {} /\ todo' = pending
        /\ UNCHANGED <<orders, pending, filled, pf>>
    BY <1>1 DEF AnyTick, Tick, omVars, pfVars
  <2>2. Due = {} /\ Due' = {} /\ Known' = Known BY <2>1 DEF Due, ApplyPhase, Known
  <2> QED BY <2>1, <2>2 DEF Booked
<1>2. CASE PollDone
  <2>1. /\ phase = "poll" /\ phase' = "applyPolled" /\ todo = {} /\ todo' = changed
        /\ UNCHANGED <<orders, pf, bar, open>> /\ Refile(pending, orders)
    BY <1>2 DEF PollDone, pfVars, tickVars
  <2>2. Due' = Due /\ Known' = Known
    BY <2>1, RefileKnown DEF Due, ApplyPhase
  <2>3. pending' \subseteq pending BY <2>1 DEF Refile
  <2> QED BY <2>1, <2>2, <2>3 DEF Booked, Waits
<1>3. CASE SubmitDone
  <2>1. /\ phase = "submit" /\ phase' = "applySubmitted" /\ todo' = changed
        /\ UNCHANGED <<orders, pending, filled, pf>>
    BY <1>3 DEF SubmitDone, omVars, pfVars
  <2>2. Due' = Due /\ Known' = Known BY <2>1 DEF Due, ApplyPhase, Known
  <2> QED BY <2>1, <2>2 DEF Booked
<1>4. CASE ApplyDone
  <2>1. /\ ApplyPhase /\ todo = {}
        /\ phase' = IF phase = "applyPolled" THEN "strategy" ELSE "value"
        /\ UNCHANGED <<orders, pending, filled, pf, bar, open, todo>>
    BY <1>4 DEF ApplyDone, omVars, pfVars, loopVars, tickVars
  <2>2. Due = {} /\ Due' = {} /\ Known' = Known /\ phase # "raised"
    BY <2>1 DEF Due, ApplyPhase, Known
  <2> QED BY <2>1, <2>2 DEF Booked, Waits
<1>5. CASE ManualDone
  <2>1. /\ phase = "manual" /\ phase' = "cancel"
        /\ UNCHANGED <<orders, pending, filled, pf>>
    BY <1>5 DEF ManualDone, omVars, pfVars
  <2>2. Due = {} /\ Due' = {} /\ Known' = Known BY <2>1 DEF Due, ApplyPhase, Known
  <2> QED BY <2>1, <2>2 DEF Booked
<1>6. CASE Value
  <2>1. /\ phase = "value" /\ phase' \in {"idle", "raised"}
        /\ UNCHANGED <<orders, pending, filled, pf>>
    BY <1>6 DEF Value, omVars
  <2>2. Due = {} /\ Due' = {} /\ Known' = Known BY <2>1 DEF Due, ApplyPhase, Known
  <2> QED BY <2>1, <2>2 DEF Booked
<1>7. CASE Cancel
  <2> DEFINE hit == {i \in pending : orders[i].type \in plan.cancel}
  <2>1. /\ phase = "cancel" /\ phase' = "submit" /\ changed' = {} /\ pf' = pf
        /\ orders' = [i \in OrderId |->
               IF i \in hit THEN [orders[i] EXCEPT !.status = "CANCELED"] ELSE orders[i]]
        /\ Refile(pending, orders')
    BY <1>7 DEF Cancel, pfVars
  <2>2. PICK ns : ns = orders' OBVIOUS
  <2>3. Known' = Known
    <3>1. Refile(pending, ns) BY <2>1, <2>2 DEF Refile
    <3> QED BY <3>1, RefileKnown
  <2>4. Due = {} /\ Due' = {} BY <2>1 DEF Due, ApplyPhase
  <2>5. \A i \in hit : /\ ~IsTerminal(orders[i]) /\ i \in OrderId
    BY <1>0, <2>1 DEF BooksInv, Books
  <2>6. ASSUME NEW i \in OrderId
        PROVE  /\ Priced(ns[i]) /\ ns[i].sym = orders[i].sym
               /\ \A side \in Sides : /\ Trades(ns[i], side) <=> Trades(orders[i], side)
                                      /\ Trades(orders[i], side) =>
                                            /\ QtyOf(ns[i], side) = QtyOf(orders[i], side)
                                            /\ PriceOf(ns[i], side) = PriceOf(orders[i], side)
    <3>1. CASE i \in hit
      <4> DEFINE c == [orders[i] EXCEPT !.status = "CANCELED"]
      <4>1. /\ c.status = "CANCELED" /\ c.sym = orders[i].sym /\ c.type = orders[i].type
            /\ c.qty = orders[i].qty /\ c.price = orders[i].price
        BY <1>0 DEF Order
      <4>2. ns[i] = c BY <2>1, <2>2, <3>1
      <4> HIDE DEF c
      <4>3. orders[i].status # "FILLED" BY <2>5, <3>1 DEF IsTerminal, Terminal
      <4>4. Priced(c) BY <4>1 DEF Priced
      <4>5. ~Sells(c) /\ ~Sells(orders[i]) /\ (HasBought(c) <=> HasBought(orders[i]))
        BY <4>1, <4>3 DEF Sells, HasBought
      <4> QED BY <4>1, <4>2, <4>4, <4>5 DEF Trades, QtyOf, PriceOf, Sides
    <3>2. CASE i \notin hit
      <4>1. ns[i] = orders[i] BY <2>1, <2>2, <3>2
      <4> QED BY <4>1 DEF Booked
    <3> QED BY <3>1, <3>2
  <2>7. SameEntries(orders, Known, {}, ns, Known, {})
    BY <2>6 DEF SameEntries, InLedger
  <2>8. Reckoned(pf, orders, EnteredIn(orders, Known, {})) BY <2>1, <2>4 DEF Booked
  <2>9. Reckoned(pf, ns, EnteredIn(ns, Known, {})) BY <2>7, <2>8, EnteredSame
  <2> QED BY <2>1, <2>2, <2>3, <2>4, <2>6, <2>9 DEF Booked
<1>8. ASSUME NEW i \in OrderId, PollOrder(i) PROVE Booked'
  <2> DEFINE r == PollBackend(orders[i], bar[orders[i].sym], open, work)
             moved == r.status # orders[i].status
  <2>1. /\ phase = "poll" /\ phase' = "poll" /\ i \in todo
        /\ orders' = [orders EXCEPT ![i] = r] /\ todo' = todo \ {i}
        /\ changed' = IF moved THEN changed \cup {i} ELSE changed
        /\ UNCHANGED <<pending, filled, pf, bar, open>>
    BY <1>8 DEF PollOrder, pfVars, tickVars, IsFirst
  <2>2. i \in pending /\ i \notin changed BY <2>1 DEF BooksInv, Filing
  <2>3. orders[i].type \in {"MARKET", "BRACKET"} /\ orders[i].status \notin Terminal
    <3>1. orders[i].type # "NONE" /\ ~IsTerminal(orders[i])
      BY <2>1, <2>2 DEF BooksInv, Books
    <3> QED BY <1>0, <3>1 DEF Order, OrderKind, IsTerminal
  <2>4. bar[orders[i].sym] \in Nat BY <1>0, PriceType DEF Order, BooksInv
  <2>5. /\ Priced(r) /\ Advances(orders[i], r)
        /\ r.status = "PENDING" => bar[orders[i].sym] = NoPrice \/ ~open
    BY <1>0, <2>3, <2>4, PollAdvances DEF Booked
  <2>6. r.sym = orders[i].sym BY <1>0, <2>4, PollSame DEF SameOrder
  <2> HIDE DEF r
  <2>7. PICK ns, C : ns = orders' /\ C = changed' OBVIOUS
  <2>8. ns[i] = r /\ \A j \in OrderId : j # i => ns[j] = orders[j]
    BY <1>0, <2>1, <2>7
  <2>9. Due = changed /\ Due' = C /\ Known' = Known /\ Known = Known \cup {i} /\ i \in Known
    BY <2>1, <2>2, <2>7 DEF Due, Known
  <2>10. Reckoned(pf, ns, EnteredIn(ns, Known, C))
    <3>1. Reckoned(pf, orders, EnteredIn(orders, Known, changed))
      BY <2>1, <2>9 DEF Booked
    <3>2. /\ ns = [orders EXCEPT ![i] = r] /\ \A j \in OrderId : j # i => (j \in C <=> j \in changed)
          /\ i \in C <=> moved
      BY <2>1, <2>2, <2>7
    <3>3. PICK K : K = Known OBVIOUS
    <3>4. AdvancesTo(orders, K, changed, i, r, ns, K, C)
      BY <1>0, <2>2, <2>5, <2>6, <2>9, <3>2, <3>3 DEF AdvancesTo
    <3> QED BY <3>1, <3>3, <3>4, EnteredAdvance
  <2>11. \A j \in OrderId : Priced(ns[j]) BY <2>5, <2>8 DEF Booked
  <2>12. \A j \in pending \ todo' : ns[j].status = "PENDING" => bar[ns[j].sym] = NoPrice \/ ~open
    BY <1>0, <2>1, <2>5, <2>6, <2>8 DEF Booked, Waits
  <2> QED BY <2>1, <2>7, <2>9, <2>10, <2>11, <2>12 DEF Booked, Waits
<1>9. ASSUME NEW i \in OrderId, Apply(i) PROVE Booked'
  <2>1. /\ ApplyPhase /\ i \in todo /\ (orders[i].done \/ ~Raises(orders[i], pf))
        /\ ApplyOrder(i) /\ todo' = todo \ {i}
        /\ UNCHANGED <<pending, filled, phase, bar, open>>
    BY <1>9 DEF Apply, IsFirst, tickVars
  <2>2. Found(i) BY <2>1 DEF Foreseen
  <2> DEFINE c == [orders[i] EXCEPT !.done = (orders[i].type = "MARKET")]
  <2>3. /\ pf' = Applied(orders[i], pf) /\ orders' = [orders EXCEPT ![i] = c]
        /\ ~Raises(orders[i], pf) /\ orders[i].type # "NONE"
    BY <2>1, <2>2 DEF ApplyOrder, Found
  <2>4. /\ c.type = orders[i].type /\ c.status = orders[i].status
        /\ c.price = orders[i].price /\ c.action = orders[i].action
        /\ c.qty = orders[i].qty /\ c.sym = orders[i].sym /\ c.sold = orders[i].sold
    BY <1>0 DEF Order
  <2> HIDE DEF c
  <2>5. PICK ns, b : ns = orders' /\ b = pf' OBVIOUS
  <2>6. ns[i] = c /\ \A j \in OrderId : j # i => ns[j] = orders[j]
    BY <1>0, <2>3, <2>5
  <2>7. /\ Due = todo /\ Due' = todo \ {i} /\ Known' = Known
        /\ i \in Known /\ phase # "raised" /\ phase # "poll"
    <3>1. pending \cup filled = {j \in OrderId : orders[j].type # "NONE"}
      BY <2>1 DEF BooksInv, Books, ApplyPhase
    <3> QED BY <2>1, <2>3, <3>1 DEF Due, ApplyPhase, Known
  <2>8. Reckoned(b, orders, EnteredIn(orders, Known, todo \ {i}))
    <3>1. Reckoned(pf, orders, EnteredIn(orders, Known, todo)) BY <2>7 DEF Booked
    <3>2. Priced(orders[i]) BY DEF Booked
    <3>3. PICK K, D : K = Known /\ D = todo OBVIOUS
    <3> QED BY <1>0, <2>1, <2>3, <2>5, <2>7, <3>1, <3>2, <3>3, EnteredApply
  <2>9. SameEntries(orders, Known, todo \ {i}, ns, Known, todo \ {i})
    BY <2>4, <2>6 DEF SameEntries, InLedger, Trades, HasBought, Sells, LastSide, QtyOf, PriceOf, SellOf
  <2>10. Reckoned(b, ns, EnteredIn(ns, Known, todo \ {i})) BY <2>8, <2>9, EnteredSame
  <2>11. \A j \in OrderId : /\ Priced(ns[j]) /\ ns[j].status = orders[j].status
                            /\ ns[j].sym = orders[j].sym
    BY <2>4, <2>6 DEF Booked, Priced
  <2> QED BY <1>0, <2>1, <2>5, <2>7, <2>10, <2>11 DEF Booked, Waits
<1>10. ASSUME NEW i \in OrderId, ApplyRaises(i) PROVE Booked'
  <2>1. phase' = "raised" /\ UNCHANGED orders BY <1>10 DEF ApplyRaises, omVars
  <2> QED BY <2>1 DEF Booked
<1>11. ASSUME NEW i \in OrderId, ManualSale(i) PROVE Booked'
  <2> DEFINE asked == [orders[i] EXCEPT !.manual = TRUE]
             r == PollBackend(asked, bar[asked.sym], open, pf)
             sells == r.status = "FILLED" /\ ~r.done
  <2>1. /\ phase = "manual" /\ i \in plan.manual
        /\ orders' = [orders EXCEPT ![i] = r] /\ Refile({i}, orders')
        /\ pf' = IF sells /\ ~Raises(r, pf) THEN Applied(r, pf) ELSE pf
        /\ phase' = IF sells /\ Raises(r, pf) THEN "raised" ELSE "manual"
        /\ UNCHANGED <<bar, open>>
    BY <1>11 DEF ManualSale, tickVars
  <2>2. i \in pending /\ ~IsTerminal(orders[i]) /\ orders[i].type # "NONE" /\ ~orders[i].done
    BY <2>1 DEF BooksInv, Books, Filing, Foreseen
  <2>3. /\ asked \in Order /\ asked.type = orders[i].type /\ asked.status = orders[i].status
        /\ asked.qty = orders[i].qty /\ asked.sym = orders[i].sym /\ asked.done = orders[i].done
        /\ asked.price = orders[i].price /\ asked.action = orders[i].action
        /\ asked.sold = orders[i].sold
    BY <1>0 DEF Order
  <2>4. Priced(asked) BY <2>3 DEF Booked, Priced
  <2>5. asked.type \in {"MARKET", "BRACKET"} /\ asked.status \notin Terminal
    BY <2>2, <2>3 DEF Order, OrderKind, IsTerminal
  <2>6. asked.status = "PENDING" => r = asked
    BY <2>1, <2>2, <2>3 DEF Booked, Waits, PollBackend
  <2> HIDE DEF asked
  <2>7. bar[asked.sym] \in Nat
    BY <2>3, PriceType DEF Order, BooksInv
  <2>8. Priced(r) /\ Advances(asked, r)
    BY <1>0, <2>3, <2>4, <2>5, <2>7, PollAdvances
  <2>9. r \in Order /\ r.sym = asked.sym /\ r.done = asked.done /\ r.type = asked.type
    <3>1. open \in BOOLEAN BY DEF BooksInv, TypeOK
    <3>2. r \in Order BY <1>0, <2>3, <2>7, <3>1, PollBackendType
    <3> QED BY <1>0, <2>3, <2>7, <3>2, PollSame DEF SameOrder
  <2>10. r.status = asked.status \/ <<asked.status, r.status>> \in Lifecycle!Moves
    <3>1. open \in BOOLEAN BY DEF BooksInv, TypeOK
    <3> QED BY <1>0, <2>3, <2>5, <2>7, <3>1, PollBackendMoves
  <2>11. r.status \in {asked.status, "FILLED", "CANCELED"}
    <3>1. CASE asked.status = "PENDING" BY <2>6, <3>1
    <3>2. CASE asked.status # "PENDING"
      BY <2>3, <2>5, <2>10, <3>2 DEF Lifecycle!Moves, Order, Status, Terminal
    <3> QED BY <3>1, <3>2
  <2> HIDE DEF r
  <2>12. Advances(orders[i], r)
    BY <2>3, <2>8 DEF Advances, Trades, HasBought, Sells, QtyOf, PriceOf, SellOf
  <2>13. PICK ns, b, K : ns = orders' /\ b = pf' /\ K = Known OBVIOUS
  <2>14. ns[i] = r /\ \A j \in OrderId : j # i => ns[j] = orders[j]
    BY <1>0, <2>1, <2>13
  <2>15. Known' = Known /\ pending' \subseteq pending
    <3>1. Refile({i}, ns) BY <2>1, <2>13 DEF Refile
    <3>2. pending' \subseteq pending BY <3>1 DEF Refile
    <3> QED BY <3>1, <3>2, RefileKnown
  <2>16. Due = {} /\ Due' = {} /\ K = K \cup {i} /\ i \in K
    BY <2>1, <2>2, <2>13 DEF Due, ApplyPhase, Known
  <2>17. Reckoned(pf, orders, EnteredIn(orders, K, {})) BY <2>1, <2>13, <2>16 DEF Booked
  <2>18. phase' # "raised" => Reckoned(b, ns, EnteredIn(ns, K, {}))
    <3>1. CASE r.status \in {orders[i].status, "CANCELED"}
      <4>1. r.status # "FILLED" BY <2>3, <2>5, <3>1 DEF Terminal
      <4>2. b = pf BY <2>1, <2>13, <4>1
      <4>3. ns = [orders EXCEPT ![i] = r] BY <2>1, <2>13
      <4>4. i \notin {} /\ \A j \in OrderId : j # i => (j \in {} <=> j \in {}) OBVIOUS
      <4>5. AdvancesTo(orders, K, {}, i, r, ns, K, {})
        BY <1>0, <2>3, <2>9, <2>12, <2>16, <3>1, <4>3, <4>4 DEF AdvancesTo
      <4> QED BY <2>17, <4>2, <4>5, EnteredAdvance
    <3>2. CASE r.status = "FILLED" /\ r.status # orders[i].status
      <4>1. ns = [orders EXCEPT ![i] = r] BY <2>1, <2>13
      <4>2. i \notin {} /\ \A j \in OrderId : j # i => (j \in {i} <=> j \in {}) OBVIOUS
      <4>3. Reckoned(pf, ns, EnteredIn(ns, K, {i}))
        <5>1. AdvancesTo(orders, K, {}, i, r, ns, K, {i})
          BY <1>0, <2>3, <2>9, <2>12, <2>16, <3>2, <4>1, <4>2 DEF AdvancesTo
        <5> QED BY <2>17, <5>1, EnteredAdvance
      <4>4. ns \in [OrderId -> Order] BY <1>0, <2>9, <4>1
      <4>5. ASSUME ~Raises(r, pf) PROVE Reckoned(b, ns, EnteredIn(ns, K, {}))
        <5>1. b = Applied(ns[i], pf)
          BY <2>1, <2>2, <2>3, <2>9, <2>13, <2>14, <3>2, <4>5
        <5>2. {i} \ {i} = {} /\ i \in {i} OBVIOUS
        <5>3. Priced(ns[i]) /\ ns[i].type # "NONE" /\ ~Raises(ns[i], pf)
          BY <2>2, <2>3, <2>8, <2>9, <2>14, <4>5
        <5>4. Reckoned(Applied(ns[i], pf), ns, EnteredIn(ns, K, {i} \ {i}))
          BY <1>0, <2>16, <4>3, <4>4, <5>2, <5>3, EnteredApply
        <5> QED BY <5>1, <5>2, <5>4
      <4> QED BY <2>1, <2>2, <2>3, <2>9, <3>2, <4>5
    <3> QED BY <2>3, <2>11, <3>1, <3>2
  <2>19. \A j \in OrderId : Priced(ns[j]) BY <2>8, <2>14 DEF Booked
  <2>20. \A j \in pending' : ns[j].status = "PENDING" => bar[ns[j].sym] = NoPrice \/ ~open
    <3>1. r.status = "PENDING" => orders[i].status = "PENDING"
      BY <2>3, <2>11
    <3> QED BY <1>0, <2>1, <2>3, <2>9, <2>14, <2>15, <3>1 DEF Booked, Waits
  <2> QED BY <2>1, <2>13, <2>15, <2>16, <2>18, <2>19, <2>20 DEF Booked, Waits
<1>12. ASSUME NEW i \in OrderId, SubmitOrder(i) PROVE Booked'
  <2> DEFINE r == SubmitBackend(orders[i], bar[orders[i].sym], open, work)
             moved == r.status \in {"FILLED", "PENDING_SALE"}
  <2>1. /\ phase = "submit" /\ phase' = "submit" /\ i \in todo
        /\ orders' = [orders EXCEPT ![i] = r] /\ Known' = Known \cup {i}
        /\ changed' = IF moved THEN changed \cup {i} ELSE changed
        /\ pf' = pf
    BY <1>12 DEF SubmitOrder, pfVars, IsFirst, Known
  <2>2. /\ orders[i].type \in {"MARKET", "BRACKET"} /\ orders[i].status = "PENDING"
        /\ i \notin Known
    BY <1>0, <2>1 DEF BooksInv, Filing, Order, OrderKind
  <2>3. bar[orders[i].sym] \in Nat /\ Priced(orders[i])
    BY <1>0, PriceType DEF Order, BooksInv, Booked
  <2>4. Priced(r) /\ Advances(orders[i], r)
    BY <1>0, <2>2, <2>3, SubmitAdvances
  <2>5. r.sym = orders[i].sym /\ r \in Order
    <3>1. open \in BOOLEAN BY DEF BooksInv, TypeOK
    <3> QED BY <1>0, <2>3, <3>1, SubmitSame, SubmitBackendType DEF SameOrder
  <2> HIDE DEF r
  <2>6. PICK ns, C, K : ns = orders' /\ C = changed' /\ K = Known OBVIOUS
  <2>7. ns[i] = r /\ \A j \in OrderId : j # i => ns[j] = orders[j]
    BY <1>0, <2>1, <2>6
  <2>8. Due = changed /\ Due' = C /\ i \notin changed
    <3>1. \A j \in changed : j < i BY <2>1 DEF Foreseen
    <3> QED BY <2>1, <2>6, <3>1, TradingAssumption DEF Due
  <2>9. Reckoned(pf, ns, EnteredIn(ns, K \cup {i}, C))
    <3>1. Reckoned(pf, orders, EnteredIn(orders, K, changed))
      BY <2>1, <2>6, <2>8 DEF Booked
    <3>2. /\ ns = [orders EXCEPT ![i] = r] /\ \A j \in OrderId : j # i => (j \in C <=> j \in changed)
          /\ i \in C <=> moved
      BY <2>1, <2>6, <2>8
    <3>3. \A side \in Sides : ~Trades(orders[i], side)
      BY <2>2, <2>3 DEF Trades, HasBought, Sells, Priced
    <3>4. r.status \in {"PENDING", "FILLED", "PENDING_SALE", "CANCELED"}
      BY <2>5 DEF Order, Status
    <3>5. AdvancesTo(orders, K, changed, i, r, ns, K \cup {i}, C)
      BY <1>0, <2>2, <2>4, <2>5, <2>8, <3>2, <3>3, <3>4 DEF AdvancesTo
    <3> QED BY <3>1, <3>5, EnteredAdvance
  <2>10. \A j \in OrderId : Priced(ns[j]) BY <2>4, <2>7 DEF Booked
  <2> QED BY <2>1, <2>6, <2>8, <2>9, <2>10 DEF Booked
<1> QED BY <1>1, <1>2, <1>3, <1>4, <1>5, <1>6, <1>7, <1>8, <1>9, <1>10, <1>11, <1>12
        DEF Machinery

(* No strategy executes anything. *)
LEMMA RunStrategyBooked ==
    ASSUME BooksInv, Booked, NEW manual, NEW cancel, NEW new,
           \A k \in DOMAIN new : new[k].price = NoPrice /\ new[k].status = "PENDING",
           RunStrategy(manual, cancel, new)
    PROVE  Booked'
<1> DEFINE sent == {k \in DOMAIN new : new[k].qty > 0}
<1>1. /\ phase = "strategy" /\ phase' = "manual" /\ sent \subseteq Unused
      /\ orders' = [i \in OrderId |-> IF i \in sent THEN new[i] ELSE orders[i]]
      /\ UNCHANGED <<pending, filled, pf, bar, open>>
  BY DEF RunStrategy, pfVars, tickVars
<1>2. \A k \in sent : Priced(new[k]) BY DEF Priced
<1> HIDE DEF sent
<1>3. pending \cup filled = {i \in OrderId : orders[i].type # "NONE"}
  BY <1>1 DEF BooksInv, Books
<1>4. PICK ns : ns = orders' OBVIOUS
<1>5. \A i \in OrderId : i \in Known => ns[i] = orders[i]
  BY <1>1, <1>3, <1>4 DEF Known, Unused
<1>6. \A i \in OrderId : Priced(ns[i]) BY <1>1, <1>2, <1>4 DEF Booked
<1>7. Due = {} /\ Due' = {} /\ Known' = Known BY <1>1 DEF Due, ApplyPhase, Known
<1>8. SameEntries(orders, Known, {}, ns, Known, {})
  BY <1>5 DEF SameEntries, InLedger
<1>9. Reckoned(pf, orders, EnteredIn(orders, Known, {})) BY <1>1, <1>7 DEF Booked
<1>10. Reckoned(pf, ns, EnteredIn(ns, Known, {})) BY <1>8, <1>9, EnteredSame
<1>11. \A i \in pending : ns[i] = orders[i] BY <1>3, <1>5 DEF Known
<1> QED BY <1>1, <1>4, <1>6, <1>7, <1>10, <1>11 DEF Booked, Waits

(* So does a strategy that asks for anything on the menu.                  *)
LEMMA AnyStrategyBooked == ASSUME BooksInv, Booked, AnyStrategy PROVE Booked'
<1>0. PICK manual \in {{}} \cup {{i} : i \in {j \in pending : Active(j)}},
           cancel \in {{}, {"MARKET"}, {"BRACKET"}},
           ids \in SUBSET Unused :
        \E asked \in [ids -> {r \in OrderMenu : GetPrice(r.sym) # NoPrice}] :
            RunStrategy(manual, cancel, [i \in ids |-> Requested(asked[i])])
  BY DEF AnyStrategy
<1>1. PICK asked \in [ids -> {r \in OrderMenu : GetPrice(r.sym) # NoPrice}] :
            RunStrategy(manual, cancel, [i \in ids |-> Requested(asked[i])])
  BY <1>0
<1> DEFINE new == [i \in ids |-> Requested(asked[i])]
<1>2. \A r \in OrderMenu : Requested(r).price = NoPrice /\ Requested(r).status = "PENDING"
  BY TradingAssumption DEF Requested, ConfiguredBracket, MarketOrder, FixedBracket, TrailingBracket, NewOrder
<1>3. \A k \in DOMAIN new : new[k].price = NoPrice /\ new[k].status = "PENDING"
  BY <1>2
<1> HIDE DEF new
<1>4. RunStrategy(manual, cancel, new) BY <1>1 DEF new
<1> QED BY <1>3, <1>4, RunStrategyBooked

(* The account is reckoned throughout.                                     *)
LEMMA BookedInvariant == Spec => []Booked
<1>1. BooksInv /\ Foreseen /\ Booked /\ [Next]_vars => Booked'
  <2>1. ASSUME BooksInv, Foreseen, Booked, Next PROVE Booked'
    BY <2>1, MachineryBooked, AnyStrategyBooked DEF Next
  <2>2. ASSUME Booked, UNCHANGED vars PROVE Booked'
    BY <2>2 DEF Booked, Waits, Due, Known, ApplyPhase, vars, omVars, pfVars, loopVars, tickVars
  <2> QED BY <2>1, <2>2
<1> QED BY <1>1, InitBooked, BooksInvariant, ForeseenInvariant, PTL DEF Spec

(* Every execution reaches the portfolio exactly once: between two ticks   *)
(* its cash and its positions are what the executed orders add up to, for  *)
(* any stream of ticks, any strategy and any commissions.                  *)
THEOREM LedgerCorrect == Spec => []LedgerExact
<1>1. Booked => LedgerExact
  <2> SUFFICES ASSUME Booked, phase = "idle"
               PROVE  /\ pf.cash = LedgerCash
                      /\ \A s \in Symbols : Shares(pf, s) = LedgerShares(s)
    BY DEF LedgerExact
  <2>1. Due = {} BY DEF Due, ApplyPhase
  <2>2. EnteredIn(orders, Known, {}) = Executions
    <3>1. \A i \in OrderId : /\ BoughtBy(i) <=> InLedger(orders, Known, {}, i, "BUY")
                             /\ SoldBy(i) <=> InLedger(orders, Known, {}, i, "SELL")
      BY BoughtByIs DEF SoldBy, InLedger, Trades
    <3>2. EnteredIn(orders, Known, {}) =
             {<<i, "BUY">> : i \in {j \in OrderId : InLedger(orders, Known, {}, j, "BUY")}}
             \cup {<<i, "SELL">> : i \in {j \in OrderId : InLedger(orders, Known, {}, j, "SELL")}}
      BY DEF EnteredIn, Sides
    <3> QED BY <3>1, <3>2 DEF Executions
  <2>3. Reckoned(pf, orders, Executions) BY <2>1, <2>2 DEF Booked
  <2> QED BY <2>3 DEF Reckoned, LedgerCash, LedgerShares
<1> QED BY <1>1, BookedInvariant, PTL
=============================================================================
