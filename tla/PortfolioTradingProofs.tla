----------------------- MODULE PortfolioTradingProofs -----------------------
(***************************************************************************)
(* SingleSymbolPortfolio and DualSymbolSwitchPortfolio over the pipeline,  *)
(* for every set of prices, every holding period and any number of orders: *)
(* there is one bracket or none, and the position is what it protects.     *)
(* Both portfolios keep one invariant, which says for every phase of a     *)
(* tick how far the one bracket has come and whether the portfolio has     *)
(* been told; the pipeline keeps it whichever of them trades, and each     *)
(* strategy has only to ask for something while that makes sense.          *)
(***************************************************************************)
EXTENDS PortfolioTrading, BacktestTradingProofs

-----------------------------------------------------------------------------
(* The inductive invariant *)

Tradable == IF class = "single" THEN {Traded} ELSE {Bull, Bear}

(* The portfolio holds what bracket i bought, and nothing else. *)
Protects(i) == pf.held = {orders[i].sym} /\ pf.qty[orders[i].sym] = orders[i].qty

Flat == pending = {} /\ pf.held = {}
Waiting(i) == pending = {i} /\ orders[i].status = "PENDING" /\ pf.held = {}
Holding(i) == pending = {i} /\ orders[i].status = "PENDING_SALE" /\ Protects(i)
Settled == Flat \/ \E i \in OrderId : Waiting(i) \/ Holding(i)

(* What the portfolio has not been told yet: bracket i has bought, or has  *)
(* sold.  Or it is only about to be submitted.                             *)
Entered(i) == /\ pending = {i} /\ orders[i].status = "PENDING_SALE"
              /\ pf.held = {} /\ bar[orders[i].sym] # NoPrice
Exited(i) == orders[i].type = "BRACKET" /\ orders[i].status = "FILLED" /\ Protects(i)
Fresh(i) == Flat /\ orders[i].status = "PENDING" /\ orders[i].type = "BRACKET"

Nobody == todo = {} /\ Settled

(* How far the one bracket is, phase by phase. *)
Stage ==
    /\ phase \in Phase \ {"raised"}
    /\ phase \in {"idle", "strategy", "value"} => Nobody
    /\ phase = "poll" =>
          \/ changed = {} /\ work = pf /\ Settled
          \/ /\ todo = {}
             /\ \E i \in OrderId : /\ changed = {i} /\ pending = {i}
                                   /\ Entered(i) \/ Exited(i)
    /\ phase = "applyPolled" =>
          \/ Nobody
          \/ \E i \in OrderId : /\ todo = {i}
                                /\ Entered(i) \/ (pending = {} /\ Exited(i))
    /\ phase \in {"manual", "cancel"} =>
          \/ Nobody /\ \A i \in plan.manual : Holding(i)
          \/ plan.manual = {} /\ \E i \in OrderId : todo = {i} /\ Fresh(i)
    /\ phase = "submit" =>
          \/ Nobody /\ changed = {}
          \/ changed = {} /\ \E i \in OrderId : todo = {i} /\ Fresh(i)
          \/ todo = {} /\ \E i \in OrderId : changed = {i} /\ Entered(i)
    /\ phase = "applySubmitted" =>
          Nobody \/ \E i \in OrderId : todo = {i} /\ Entered(i)

(* The portfolio orders brackets only, and the exit legs keep at least the *)
(* quantity of a clamped entry.                                            *)
BracketOK(o) ==
    /\ o.type \in {"NONE", "BRACKET"} /\ ~o.done
    /\ o.type = "BRACKET" => o.sym \in Tradable
    /\ o.qty <= o.legQty
    /\ o.status = "FILLED" => o.sold.qty = o.qty

BracketsOnly == plan.cancel = {} /\ \A i \in OrderId : BracketOK(orders[i])

(* What is held has a price. *)
Valued == \A s \in pf.held : lastPrice[s] # NoPrice \/ (phase # "idle" /\ bar[s] # NoPrice)

(* Once it has decided to switch, the portfolio is on its way out of a     *)
(* real position in another symbol and orders nothing more.                *)
Leaving ==
    switching =>
        /\ class = "dual" /\ target \in {Bull, Bear} \ pf.held
        /\ phase \in {"manual", "cancel", "submit"} => todo = {}
        /\ \A i \in pending : /\ orders[i].status # "PENDING"
                              /\ orders[i].sym # target /\ orders[i].qty > 0

OneBracketInv == Stage /\ BracketsOnly /\ Valued /\ Leaving

PortfolioInv == BooksInv /\ OneBracketInv /\ class \in {"single", "dual"}

-----------------------------------------------------------------------------
(* One bracket against one bar *)

(* A bracket that waits enters or goes on waiting. *)
LEMMA BracketEntry ==
    ASSUME NEW o \in Order, o.type = "BRACKET", o.status = "PENDING", BracketOK(o),
           NEW px \in Nat, NEW op \in BOOLEAN, NEW acc \in Account,
           NEW r \in {PollBackend(o, px, op, acc), SubmitBackend(o, px, op, acc)}
    PROVE  /\ SameOrder(o, r) /\ BracketOK(r) /\ r \in Order
           /\ r = o \/ (px # NoPrice /\ r.status = "PENDING_SALE")
<1>1. r = o \/ /\ px # NoPrice
               /\ r \in {EnterDeferred(o, px, acc), EnterBracket(o, px, acc)}
  BY DEF PollBackend, SubmitBackend
<1>2. SameOrder(o, r) /\ r \in Order
  BY PollSame, SubmitSame, PollBackendType, SubmitBackendType
<1>3. CASE r = o BY <1>2, <1>3
<1>4. CASE px # NoPrice /\ r \in {EnterDeferred(o, px, acc), EnterBracket(o, px, acc)}
  <2>1. px \in Nat \ {0} BY <1>4 DEF NoPrice
  <2>2. r.status = "PENDING_SALE" /\ r.qty = Lesser(o.qty, Affordable(acc.cash, px))
    BY <1>4, <2>1, EntryFields
  <2>3. Affordable(acc.cash, px) \in Int BY <2>1, AffordableType DEF Account
  <2>4. r.qty <= o.qty BY <2>2, <2>3 DEF Lesser, Order
  <2>5. BracketOK(r) BY <1>2, <2>2, <2>4 DEF BracketOK, SameOrder, Order
  <2> QED BY <1>2, <1>4, <2>2, <2>5
<1> QED BY <1>1, <1>3, <1>4

(* A bracket that protects a position goes on protecting it, or sells it   *)
(* whole: the legs kept at least the quantity of the entry.                *)
LEMMA ExitOutcome ==
    ASSUME NEW o \in Order, o.type = "BRACKET", o.status = "PENDING_SALE", BracketOK(o),
           NEW px \in Nat, NEW op \in BOOLEAN, NEW acc \in Account,
           Shares(acc, o.sym) = o.qty
    PROVE  LET r == PollBackend(o, px, op, acc)
           IN  /\ SameOrder(o, r) /\ BracketOK(r) /\ r \in Order
               /\ r.qty = o.qty /\ r.status \in {"PENDING_SALE", "FILLED"}
<1> DEFINE r == PollBackend(o, px, op, acc)
           t == IF o.trailing THEN Trail(o, px) ELSE o
<1>1. SameOrder(o, r) /\ r \in Order BY PollSame, PollBackendType
<1>2. CASE r = o BY <1>1, <1>2
<1>3. CASE r # o
  <2>1. px \in Nat \ {0} /\ r = HoldBracket(o, px, acc)
    BY <1>3 DEF PollBackend, NoPrice
  <2>2. HoldBracket(o, px, acc) \in {SellManually(o, px, acc), FillExit(t, "STOP", px, acc),
                                     FillExit(t, "PROFIT", px, acc), t}
    BY DEF HoldBracket
  <2>3. /\ t \in Order /\ t.status = "PENDING_SALE" /\ t.sym = o.sym
        /\ t.qty = o.qty /\ t.legQty = o.legQty
    <3>1. LET u == Trail(o, px)
          IN  /\ u.status = o.status /\ u.sym = o.sym /\ u.qty = o.qty
              /\ u.legQty = o.legQty
      BY DEF Trail, Order
    <3> QED BY <2>1, <3>1, TrailType
  <2> HIDE DEF t
  <2>4. Lesser(o.legQty, Shares(acc, o.sym)) = o.qty /\ Lesser(o.qty, Shares(acc, o.sym)) = o.qty
    BY DEF BracketOK, Lesser, Order
  <2>5. ASSUME NEW leg
        PROVE  LET s == FillExit(t, leg, px, acc)
               IN  s.status = "FILLED" /\ s.qty = o.qty /\ s.sold.qty = o.qty
    BY <2>3, <2>4 DEF FillExit, Order
  <2>6. LET s == SellManually(o, px, acc)
        IN  s.status = "FILLED" /\ s.qty = o.qty /\ s.sold.qty = o.qty
    BY <2>4 DEF SellManually, ProcessMarket, MarketOrder, NewOrder, Order
  <2>7. /\ r.qty = o.qty
        /\ r.status = "PENDING_SALE" \/ (r.status = "FILLED" /\ r.sold.qty = o.qty)
    BY <2>1, <2>2, <2>3, <2>5, <2>6
  <2> HIDE DEF r
  <2>8. BracketOK(r) BY <1>1, <2>7 DEF BracketOK, SameOrder
  <2> QED BY <1>1, <2>7, <2>8 DEF r
<1> QED BY <1>2, <1>3

(* Telling the portfolio that a bracket has bought or sold raises nothing  *)
(* and leaves it holding exactly the bracket's shares, or none.            *)
LEMMA ToldEntry ==
    ASSUME NEW o \in Order, o.type = "BRACKET", o.status = "PENDING_SALE",
           NEW acc \in Account, acc.held = {}
    PROVE  /\ ~Raises(o, acc) /\ Applied(o, acc) \in Account
           /\ Applied(o, acc).held = {o.sym} /\ Applied(o, acc).qty[o.sym] = o.qty
<1>1. Applied(o, acc) = Bought(acc, o.sym, o.qty, o.price)
  BY DEF Applied, Buys
<1>2. Shares(acc, o.sym) = 0 BY DEF Shares
<1>3. o.sym \in Symbols /\ o.qty \in Int /\ acc.qty \in [Symbols -> Int]
  BY DEF Order, Account
<1>4. /\ Bought(acc, o.sym, o.qty, o.price).held = {o.sym}
      /\ Bought(acc, o.sym, o.qty, o.price).qty[o.sym] = o.qty
  BY <1>2, <1>3 DEF Bought
<1>5. ~Raises(o, acc) BY DEF Raises, Sells
<1> QED BY <1>1, <1>4, <1>5, AppliedType

LEMMA ToldExit ==
    ASSUME NEW o \in Order, o.type = "BRACKET", o.status = "FILLED", o.sold.qty = o.qty,
           NEW acc \in Account, acc.held = {o.sym}, acc.qty[o.sym] = o.qty
    PROVE  /\ ~Raises(o, acc) /\ Applied(o, acc) \in Account
           /\ Applied(o, acc).held = {}
<1>1. SellOf(o).qty = o.qty /\ o.qty \in Int BY DEF SellOf, Order
<1>2. Applied(o, acc) = Sold(acc, o.sym, SellOf(o).qty, SellOf(o).price, TRUE)
  BY <1>1 DEF Applied, Buys, Sells
<1>3. ~Raises(o, acc) BY <1>1 DEF Raises, Sells
<1>4. Sold(acc, o.sym, SellOf(o).qty, SellOf(o).price, TRUE).held = {}
  BY DEF Sold
<1> QED BY <1>2, <1>3, <1>4, AppliedType

-----------------------------------------------------------------------------
(* The pipeline keeps the invariant *)

(* Where the bracket is does not change while nothing happens to it. *)
LEMMA SettledUnmoved ==
    ASSUME Settled, UNCHANGED <<orders, pending, pf>> PROVE Settled'
  BY DEF Settled, Flat, Waiting, Holding, Protects

LEMMA BracketsUnmoved ==
    ASSUME BracketsOnly, UNCHANGED <<orders, class>>, plan'.cancel = {}
    PROVE  BracketsOnly'
<1>1. \A o : BracketOK(o) => BracketOK(o)' BY DEF BracketOK, Tradable
<1> QED BY <1>1 DEF BracketsOnly, BracketOK, Tradable

(* What is pending is a bracket of the portfolio, and not over while the   *)
(* books are settled.                                                      *)
LEMMA PendingBracket ==
    ASSUME BooksInv, OneBracketInv, NEW i \in pending
    PROVE  i \in OrderId /\ orders[i] \in Order /\ orders[i].type = "BRACKET"
<1>1. i \in OrderId /\ orders[i] \in Order BY DEF BooksInv, TypeOK
<1>2. phase # "raised" BY DEF OneBracketInv, Stage
<1>3. orders[i].type # "NONE" BY <1>2 DEF BooksInv, Books
<1> QED BY <1>1, <1>3 DEF OneBracketInv, BracketsOnly, BracketOK

(* Refiling moves nothing while the bracket is not over. *)
LEMMA RefileNothing ==
    ASSUME NEW S, NEW os, Refile(S, os),
           \A i \in pending \cap S : os[i].status \in {"PENDING", "PENDING_SALE"}
    PROVE  UNCHANGED pending
  BY DEF Refile, IsTerminal, Terminal

LEMMA SettledNotOver ==
    ASSUME Settled \/ \E i : Entered(i)
    PROVE  \A i \in pending : orders[i].status \in {"PENDING", "PENDING_SALE"}
  BY DEF Settled, Flat, Waiting, Holding, Entered

Told == UNCHANGED <<target, switching, class>>

LEMMA TickKeeps == ASSUME OneBracketInv, AnyTick, Told PROVE OneBracketInv'
<1>1. /\ phase = "idle" /\ phase' = "poll" /\ work' = pf /\ changed' = {}
      /\ UNCHANGED <<orders, pending, pf, lastPrice, plan>>
  BY DEF AnyTick, Tick, omVars, pfVars
<1>2. Settled' BY <1>1, SettledUnmoved DEF OneBracketInv, Stage, Nobody
<1>3. Stage' BY <1>1, <1>2 DEF Stage, Phase
<1>4. BracketsOnly' BY <1>1, BracketsUnmoved DEF OneBracketInv, Told, BracketsOnly
<1>5. Valued' BY <1>1 DEF OneBracketInv, Valued
<1>6. Leaving' BY <1>1 DEF OneBracketInv, Leaving, Told
<1> QED BY <1>3, <1>4, <1>5, <1>6 DEF OneBracketInv

LEMMA PollDoneKeeps == ASSUME OneBracketInv, PollDone, Told PROVE OneBracketInv'
<1>1. /\ phase = "poll" /\ phase' = "applyPolled" /\ todo = {} /\ todo' = changed
      /\ UNCHANGED <<orders, pf, lastPrice, plan, bar>> /\ Refile(pending, orders)
  BY DEF PollDone, pfVars, tickVars
<1>2. pending' \subseteq pending BY <1>1 DEF Refile
<1>3. Stage'
  <2>1. CASE changed = {} /\ Settled
    <3>1. UNCHANGED pending BY <1>1, <2>1, RefileNothing, SettledNotOver
    <3>2. Nobody' BY <1>1, <2>1, <3>1, SettledUnmoved DEF Nobody
    <3> QED BY <1>1, <3>2 DEF Stage, Phase
  <2>2. CASE \E i \in OrderId : changed = {i} /\ Entered(i)
    <3>1. UNCHANGED pending BY <1>1, <2>2, RefileNothing, SettledNotOver
    <3>2. PICK i \in OrderId : changed = {i} /\ Entered(i) BY <2>2
    <3>3. Entered(i)' BY <1>1, <3>1, <3>2 DEF Entered
    <3> QED BY <1>1, <3>2, <3>3 DEF Stage, Phase
  <2>3. CASE \E i \in OrderId : changed = {i} /\ pending = {i} /\ Exited(i)
    <3>1. PICK i \in OrderId : changed = {i} /\ pending = {i} /\ Exited(i) BY <2>3
    <3>2. pending' = {} BY <1>1, <3>1 DEF Refile, Exited, IsTerminal, Terminal
    <3>3. Exited(i)' BY <1>1, <3>1 DEF Exited, Protects
    <3> QED BY <1>1, <3>1, <3>2, <3>3 DEF Stage, Phase
  <2> QED BY <1>1, <2>1, <2>2, <2>3 DEF OneBracketInv, Stage
<1>4. BracketsOnly' BY <1>1, BracketsUnmoved DEF OneBracketInv, Told, BracketsOnly
<1>5. Valued' BY <1>1 DEF OneBracketInv, Valued
<1>6. Leaving' BY <1>1, <1>2 DEF OneBracketInv, Leaving, Told
<1> QED BY <1>3, <1>4, <1>5, <1>6 DEF OneBracketInv

(* Steps that only pass the bracket on. *)
LEMMA HandOver ==
    ASSUME OneBracketInv, Told,
           \/ ApplyDone \/ ManualDone \/ SubmitDone
    PROVE  OneBracketInv'
<1>1. /\ UNCHANGED <<orders, pending, pf, lastPrice, plan, bar>>
      /\ phase \in {"applyPolled", "applySubmitted", "manual", "submit"}
      /\ phase' \in {"strategy", "value", "cancel", "applySubmitted"}
      /\ phase = "submit" \/ UNCHANGED todo
      /\ phase' = "cancel" => phase = "manual"
  BY DEF ApplyDone, ApplyPhase, ManualDone, SubmitDone, omVars, pfVars, loopVars, tickVars
<1>2. Stage'
  <2>1. CASE ApplyDone
    <3>1. todo = {} /\ UNCHANGED todo /\ phase' \in {"strategy", "value"}
          /\ phase \in {"applyPolled", "applySubmitted"}
      BY <2>1 DEF ApplyDone, ApplyPhase, loopVars
    <3>2. Nobody BY <3>1 DEF OneBracketInv, Stage
    <3>3. Nobody' BY <1>1, <3>1, <3>2, SettledUnmoved DEF Nobody
    <3> QED BY <3>1, <3>3 DEF Stage, Phase
  <2>2. CASE ManualDone
    <3>1. UNCHANGED todo /\ phase = "manual" /\ phase' = "cancel"
      BY <2>2 DEF ManualDone, loopVars
    <3>2. CASE Nobody /\ \A i \in plan.manual : Holding(i)
      <4>1. Nobody' BY <1>1, <3>1, <3>2, SettledUnmoved DEF Nobody
      <4>2. \A i \in plan'.manual : Holding(i)' BY <1>1, <3>2 DEF Holding, Protects
      <4> QED BY <3>1, <4>1, <4>2 DEF Stage, Phase
    <3>3. CASE plan.manual = {} /\ \E i \in OrderId : todo = {i} /\ Fresh(i)
      <4>1. \E i \in OrderId : todo' = {i} /\ Fresh(i)' BY <1>1, <3>1, <3>3 DEF Fresh, Flat
      <4> QED BY <1>1, <3>1, <3>3, <4>1 DEF Stage, Phase
    <3> QED BY <3>1, <3>2, <3>3 DEF OneBracketInv, Stage
  <2>3. CASE SubmitDone
    <3>1. todo = {} /\ todo' = changed /\ phase = "submit" /\ phase' = "applySubmitted"
      BY <2>3 DEF SubmitDone
    <3>2. CASE Nobody /\ changed = {}
      <4>1. Nobody' BY <1>1, <3>1, <3>2, SettledUnmoved DEF Nobody
      <4> QED BY <3>1, <4>1 DEF Stage, Phase
    <3>3. CASE \E i \in OrderId : changed = {i} /\ Entered(i)
      <4>1. \E i \in OrderId : todo' = {i} /\ Entered(i)' BY <1>1, <3>1, <3>3 DEF Entered
      <4> QED BY <3>1, <4>1 DEF Stage, Phase
    <3> QED BY <3>1, <3>2, <3>3 DEF OneBracketInv, Stage
  <2> QED BY <2>1, <2>2, <2>3
<1>3. BracketsOnly' BY <1>1, BracketsUnmoved DEF OneBracketInv, Told, BracketsOnly
<1>4. Valued' BY <1>1 DEF OneBracketInv, Valued
<1>5. Leaving' BY <1>1 DEF OneBracketInv, Leaving, Told
<1> QED BY <1>2, <1>3, <1>4, <1>5 DEF OneBracketInv

(* Whatever it holds has a price, so valuing it raises nothing. *)
LEMMA ValueKeeps == ASSUME TypeOK, OneBracketInv, Value, Told PROVE OneBracketInv'
<1>1. /\ phase = "value" /\ UNCHANGED <<orders, pending, pf, plan, todo>>
      /\ lastPrice' = [s \in Symbols |-> GetPrice(s)]
      /\ phase' = IF \A s \in pf.held : lastPrice'[s] # NoPrice THEN "idle" ELSE "raised"
  BY DEF Value, omVars
<1>2. \A s \in pf.held : lastPrice'[s] # NoPrice
  <2>1. pf.held \subseteq Symbols BY DEF TypeOK, Account
  <2> QED BY <1>1, <2>1 DEF OneBracketInv, Valued, GetPrice
<1>3. phase' = "idle" BY <1>1, <1>2
<1>4. Nobody' BY <1>1, SettledUnmoved DEF OneBracketInv, Stage, Nobody
<1>5. Stage' BY <1>3, <1>4 DEF Stage, Phase
<1>6. BracketsOnly' BY <1>1, BracketsUnmoved DEF OneBracketInv, Told, BracketsOnly
<1>7. Valued' BY <1>1, <1>2 DEF Valued
<1>8. Leaving' BY <1>1, <1>3 DEF OneBracketInv, Leaving, Told
<1> QED BY <1>5, <1>6, <1>7, <1>8 DEF OneBracketInv

(* One order changes, and stays a bracket of the portfolio. *)
LEMMA OneBracketChanges ==
    ASSUME orders \in [OrderId -> Order], BracketsOnly, UNCHANGED class,
           plan'.cancel = {}, NEW i \in OrderId, NEW r,
           orders' = [orders EXCEPT ![i] = r], BracketOK(r)
    PROVE  BracketsOnly' /\ orders'[i] = r
<1>1. \A j \in OrderId : orders'[j] = IF j = i THEN r ELSE orders[j] OBVIOUS
<1> QED BY <1>1 DEF BracketsOnly, BracketOK, Tradable

(* Polling finds the bracket where it was settled. *)
LEMMA PollKeeps ==
    ASSUME BooksInv, OneBracketInv, NEW i \in OrderId, PollOrder(i), Told
    PROVE  OneBracketInv'
<1> DEFINE r == PollBackend(orders[i], bar[orders[i].sym], open, work)
<1>1. /\ phase = "poll" /\ phase' = "poll" /\ i \in todo
      /\ orders' = [orders EXCEPT ![i] = r] /\ todo' = todo \ {i}
      /\ changed' = IF r.status # orders[i].status THEN changed \cup {i} ELSE changed
      /\ work' = IF r.status # orders[i].status THEN ApplyToSnapshot(r, work) ELSE work
      /\ UNCHANGED <<pending, pf, bar, lastPrice, plan>>
  BY DEF PollOrder, IsFirst, pfVars, tickVars
<1>2. changed = {} /\ work = pf /\ Settled /\ i \in pending
  BY <1>1 DEF OneBracketInv, Stage, BooksInv, Filing
<1>3. /\ pending = {i} /\ (Waiting(i) \/ Holding(i))
      /\ orders[i] \in Order /\ orders[i].type = "BRACKET"
      /\ todo' = {}
  <2>1. pending = {i} /\ (Waiting(i) \/ Holding(i))
    BY <1>2 DEF Settled, Flat, Waiting, Holding
  <2>2. todo \subseteq pending BY <1>1 DEF BooksInv, Filing
  <2> QED BY <1>1, <1>2, <2>1, <2>2, PendingBracket
<1>4. /\ orders[i].sym \in Symbols /\ bar[orders[i].sym] \in Nat /\ open \in BOOLEAN
      /\ pf \in Account /\ work \in Account /\ orders \in [OrderId -> Order]
      /\ BracketOK(orders[i])
  <2>1. orders[i].sym \in Symbols BY <1>3 DEF Order
  <2> QED BY <2>1, PriceType DEF BooksInv, TypeOK, OneBracketInv, BracketsOnly
<1>5. CASE Waiting(i)
  <2>1. /\ SameOrder(orders[i], r) /\ BracketOK(r)
        /\ r = orders[i] \/ (bar[orders[i].sym] # NoPrice /\ r.status = "PENDING_SALE")
    BY <1>3, <1>4, <1>5, BracketEntry DEF Waiting
  <2> HIDE DEF r
  <2>2. BracketsOnly' /\ orders'[i] = r
    BY <1>1, <1>4, <2>1, OneBracketChanges DEF OneBracketInv, BracketsOnly, Told
  <2>3. Stage'
    <3>1. CASE r = orders[i]
      <4>1. Waiting(i)' /\ changed' = {} /\ work' = pf' BY <1>1, <1>2, <1>5, <2>2, <3>1 DEF Waiting
      <4> QED BY <1>1, <4>1 DEF Stage, Settled, Phase
    <3>2. CASE bar[orders[i].sym] # NoPrice /\ r.status = "PENDING_SALE"
      <4>1. changed' = {i} /\ Entered(i)'
        BY <1>1, <1>2, <1>5, <2>1, <2>2, <3>2 DEF Waiting, Entered, SameOrder
      <4>2. pending' = {i} BY <1>1, <1>3
      <4> QED BY <1>1, <1>3, <4>1, <4>2 DEF Stage, Phase
    <3> QED BY <2>1, <3>1, <3>2
  <2>4. Valued' BY <1>1 DEF OneBracketInv, Valued
  <2>5. Leaving' BY <1>1, <1>3, <1>5 DEF OneBracketInv, Leaving, Told, Waiting
  <2> QED BY <2>2, <2>3, <2>4, <2>5 DEF OneBracketInv
<1>6. CASE Holding(i)
  <2>0. Shares(work, orders[i].sym) = orders[i].qty
    BY <1>2, <1>6 DEF Holding, Protects, Shares
  <2>1. /\ SameOrder(orders[i], r) /\ BracketOK(r)
        /\ r.qty = orders[i].qty /\ r.status \in {"PENDING_SALE", "FILLED"}
    BY <1>3, <1>4, <1>6, <2>0, ExitOutcome DEF Holding
  <2> HIDE DEF r
  <2>2. BracketsOnly' /\ orders'[i] = r
    BY <1>1, <1>4, <2>1, OneBracketChanges DEF OneBracketInv, BracketsOnly, Told
  <2>3. Protects(i)' BY <1>1, <1>6, <2>1, <2>2 DEF Holding, Protects, SameOrder
  <2>4. Stage'
    <3>1. CASE r.status = "PENDING_SALE"
      <4>1. Holding(i)' /\ changed' = {} /\ work' = pf'
        BY <1>1, <1>2, <1>3, <1>6, <2>2, <2>3, <3>1 DEF Holding
      <4> QED BY <1>1, <4>1 DEF Stage, Settled, Phase
    <3>2. CASE r.status = "FILLED"
      <4>1. changed' = {i} /\ pending' = {i} /\ Exited(i)'
        BY <1>1, <1>2, <1>3, <1>6, <2>1, <2>2, <2>3, <3>2 DEF Holding, Exited, SameOrder
      <4> QED BY <1>1, <1>3, <4>1 DEF Stage, Phase
    <3> QED BY <2>1, <3>1, <3>2
  <2>5. Valued' BY <1>1 DEF OneBracketInv, Valued
  <2>6. Leaving' BY <1>1, <1>3, <2>1, <2>2 DEF OneBracketInv, Leaving, Told, SameOrder
  <2> QED BY <2>2, <2>4, <2>5, <2>6 DEF OneBracketInv
<1> QED BY <1>3, <1>5, <1>6

(* The portfolio is told, and can do what it is told. *)
LEMMA ApplyKeeps ==
    ASSUME BooksInv, OneBracketInv, NEW i \in OrderId, Apply(i) \/ ApplyRaises(i), Told
    PROVE  OneBracketInv' /\ ~ApplyRaises(i)
<1>1. phase \in {"applyPolled", "applySubmitted"} /\ i \in todo
  BY DEF Apply, ApplyRaises, ApplyPhase, IsFirst
<1>2. /\ todo = {i}
      /\ Entered(i) \/ (pending = {} /\ Exited(i))
  BY <1>1 DEF OneBracketInv, Stage, Nobody
<1>3. /\ orders[i] \in Order /\ BracketOK(orders[i]) /\ orders[i].type = "BRACKET"
      /\ orders \in [OrderId -> Order] /\ pf \in Account
  <2>1. orders[i].type = "BRACKET" BY <1>2, PendingBracket DEF Entered, Exited
  <2> QED BY <2>1 DEF BooksInv, TypeOK, OneBracketInv, BracketsOnly
<1>4. /\ ~Raises(orders[i], pf)
      /\ Entered(i) => /\ Applied(orders[i], pf).held = {orders[i].sym}
                       /\ Applied(orders[i], pf).qty[orders[i].sym] = orders[i].qty
      /\ Exited(i) => Applied(orders[i], pf).held = {}
  BY <1>2, <1>3, ToldEntry, ToldExit DEF Entered, Exited, Protects, BracketOK
<1>5. ~ApplyRaises(i) BY <1>4 DEF ApplyRaises
<1>6. /\ pf' = Applied(orders[i], pf) /\ todo' = {}
      /\ UNCHANGED <<pending, lastPrice, bar, plan, phase>>
      /\ orders' = [orders EXCEPT ![i].done = (orders[i].type = "MARKET")]
  BY <1>2, <1>3, <1>5 DEF Apply, ApplyOrder, BracketOK, tickVars
<1>7. UNCHANGED orders
  <2>1. [orders[i] EXCEPT !.done = FALSE] = orders[i] BY <1>3 DEF Order, BracketOK
  <2> QED BY <1>3, <1>6, <2>1
<1>8. Stage'
  <2>1. Settled'
    <3>1. CASE Entered(i)
      <4>1. Holding(i)' BY <1>4, <1>6, <1>7, <3>1 DEF Entered, Holding, Protects
      <4> QED BY <4>1 DEF Settled
    <3>2. CASE pending = {} /\ Exited(i)
      BY <1>4, <1>6, <3>2 DEF Settled, Flat
    <3> QED BY <1>2, <3>1, <3>2
  <2> QED BY <1>1, <1>6, <2>1 DEF Stage, Nobody, Phase
<1>9. BracketsOnly' BY <1>6, <1>7, BracketsUnmoved DEF OneBracketInv, Told, BracketsOnly
<1>10. pf'.held = {} \/ (Entered(i) /\ pf'.held = {orders[i].sym})
  BY <1>2, <1>4, <1>6
<1>11. Valued' BY <1>1, <1>6, <1>10 DEF Valued, Entered
<1>12. Leaving' BY <1>1, <1>6, <1>7, <1>10 DEF OneBracketInv, Leaving, Told, Entered
<1> QED BY <1>5, <1>8, <1>9, <1>11, <1>12 DEF OneBracketInv

(* A sale by hand sells the position it was asked for, now or on a later   *)
(* bar.                                                                    *)
LEMMA ManualSaleKeeps ==
    ASSUME BooksInv, OneBracketInv, NEW i \in OrderId, ManualSale(i), Told
    PROVE  OneBracketInv'
<1> DEFINE asked == [orders[i] EXCEPT !.manual = TRUE]
           r == PollBackend(asked, bar[asked.sym], open, pf)
           sells == r.status = "FILLED" /\ ~r.done
<1>1. /\ phase = "manual" /\ i \in plan.manual
      /\ orders' = [orders EXCEPT ![i] = r] /\ Refile({i}, orders')
      /\ pf' = IF sells /\ ~Raises(r, pf) THEN Applied(r, pf) ELSE pf
      /\ phase' = IF sells /\ Raises(r, pf) THEN "raised" ELSE "manual"
      /\ plan' = [plan EXCEPT !.manual = @ \ {i}]
      /\ UNCHANGED <<todo, bar, lastPrice>>
  BY DEF ManualSale, loopVars, tickVars
<1>2. todo = {} /\ Holding(i) /\ \A j \in plan.manual : Holding(j)
  BY <1>1 DEF OneBracketInv, Stage, Nobody
<1>3. /\ orders[i] \in Order /\ orders[i].type = "BRACKET" /\ BracketOK(orders[i])
      /\ orders \in [OrderId -> Order] /\ pf \in Account /\ open \in BOOLEAN
      /\ bar \in [Symbols -> Prices \cup {NoPrice}] /\ plan \in Plan
      /\ plan.cancel = {}
  BY <1>2, PendingBracket DEF Holding, BooksInv, TypeOK, OneBracketInv, BracketsOnly
<1>4. /\ asked \in Order /\ asked.type = "BRACKET" /\ asked.status = "PENDING_SALE"
      /\ BracketOK(asked) /\ asked.sym = orders[i].sym /\ asked.qty = orders[i].qty
      /\ asked.sym \in Symbols
  BY <1>2, <1>3 DEF Holding, BracketOK, Order
<1> HIDE DEF asked
<1>5. bar[asked.sym] \in Nat BY <1>4, PriceType DEF BooksInv
<1>6. Shares(pf, asked.sym) = asked.qty
  BY <1>2, <1>4 DEF Holding, Protects, Shares
<1>7. /\ SameOrder(asked, r) /\ BracketOK(r) /\ r \in Order
      /\ r.qty = asked.qty /\ r.status \in {"PENDING_SALE", "FILLED"}
  BY <1>3, <1>4, <1>5, <1>6, ExitOutcome
<1> HIDE DEF r
<1>8. /\ r.sym = orders[i].sym /\ r.qty = orders[i].qty /\ r.type = "BRACKET" /\ ~r.done
      /\ r.status = "FILLED" => r.sold.qty = r.qty
  BY <1>4, <1>7 DEF SameOrder, BracketOK
<1>9. plan'.manual = {} /\ plan'.cancel = {}
  <2>1. plan.manual \subseteq {i} BY <1>2 DEF Holding
  <2>2. plan'.manual = plan.manual \ {i} /\ plan'.cancel = plan.cancel
    BY <1>1, <1>3 DEF Plan
  <2> QED BY <1>3, <2>1, <2>2
<1>10. BracketsOnly' /\ orders'[i] = r
  BY <1>1, <1>3, <1>7, <1>9, OneBracketChanges DEF OneBracketInv, Told
<1>11. /\ phase' = "manual" /\ pf'.held \subseteq pf.held /\ pending' \subseteq pending
       /\ Holding(i)' \/ Flat'
  <2>1. CASE r.status = "PENDING_SALE"
    <3>1. pf' = pf /\ phase' = "manual" BY <1>1, <2>1
    <3>2. pending' = pending
      <4>1. \A j \in pending \cap {i} : orders'[j].status \in {"PENDING", "PENDING_SALE"}
        BY <1>10, <2>1
      <4> QED BY <1>1, <4>1, RefileNothing
    <3>3. Holding(i)' BY <1>2, <1>8, <1>10, <2>1, <3>1, <3>2 DEF Holding, Protects
    <3> QED BY <3>1, <3>2, <3>3
  <2>2. CASE r.status = "FILLED"
    <3>1. ~Raises(r, pf) /\ Applied(r, pf).held = {}
      BY <1>2, <1>3, <1>7, <1>8, <2>2, ToldExit DEF Holding, Protects
    <3>2. pf' = Applied(r, pf) /\ phase' = "manual" BY <1>1, <1>8, <2>2, <3>1
    <3>3. pending' = {}
      BY <1>1, <1>2, <1>10, <2>2 DEF Refile, IsTerminal, Terminal, Holding
    <3> QED BY <3>1, <3>2, <3>3 DEF Flat
  <2> QED BY <1>7, <2>1, <2>2
<1>12. Settled' BY <1>11 DEF Settled
<1>13. Stage' BY <1>1, <1>2, <1>9, <1>11, <1>12 DEF Stage, Nobody, Phase
<1>14. Valued' BY <1>1, <1>11 DEF OneBracketInv, Valued
<1>15. Leaving'
  BY <1>1, <1>2, <1>7, <1>8, <1>10, <1>11 DEF OneBracketInv, Leaving, Told, Holding
<1> QED BY <1>10, <1>13, <1>14, <1>15 DEF OneBracketInv

(* Nothing is canceled. *)
LEMMA CancelKeeps == ASSUME BooksInv, OneBracketInv, Cancel, Told PROVE OneBracketInv'
<1>1. /\ phase = "cancel" /\ phase' = "submit" /\ plan' = NoPlan
      /\ work' = pf /\ changed' = {} /\ UNCHANGED <<pf, lastPrice, todo, bar>>
      /\ Refile(pending, orders')
  BY DEF Cancel, pfVars, tickVars
<1>2. UNCHANGED orders
  <2>1. plan.cancel = {} /\ orders \in [OrderId -> Order]
    BY DEF OneBracketInv, BracketsOnly, BooksInv, TypeOK
  <2>2. orders' = [i \in OrderId |-> orders[i]] BY <2>1 DEF Cancel
  <2> QED BY <2>1, <2>2
<1>3. Nobody \/ \E i \in OrderId : todo = {i} /\ Fresh(i)
  BY <1>1 DEF OneBracketInv, Stage
<1>4. UNCHANGED pending
  <2>1. \A i \in pending : orders'[i].status \in {"PENDING", "PENDING_SALE"}
    BY <1>2, <1>3, SettledNotOver DEF Nobody, Fresh, Flat
  <2> QED BY <1>1, <2>1, RefileNothing
<1>5. Stage'
  <2>1. CASE Nobody
    <3>1. Nobody' BY <1>1, <1>2, <1>4, <2>1, SettledUnmoved DEF Nobody
    <3> QED BY <1>1, <3>1 DEF Stage, Phase
  <2>2. CASE \E i \in OrderId : todo = {i} /\ Fresh(i)
    <3>1. \E i \in OrderId : todo' = {i} /\ Fresh(i)'
      BY <1>1, <1>2, <1>4, <2>2 DEF Fresh, Flat
    <3> QED BY <1>1, <3>1 DEF Stage, Phase
  <2> QED BY <1>3, <2>1, <2>2
<1>6. BracketsOnly'
  <2>1. plan'.cancel = {} BY <1>1 DEF NoPlan
  <2> QED BY <1>2, <2>1, BracketsUnmoved DEF OneBracketInv, Told
<1>7. Valued' BY <1>1 DEF OneBracketInv, Valued
<1>8. Leaving' BY <1>1, <1>2, <1>4 DEF OneBracketInv, Leaving, Told
<1> QED BY <1>5, <1>6, <1>7, <1>8 DEF OneBracketInv

(* What is submitted enters now or waits for its bar. *)
LEMMA SubmitKeeps ==
    ASSUME BooksInv, OneBracketInv, NEW i \in OrderId, SubmitOrder(i), Told
    PROVE  OneBracketInv'
<1> DEFINE r == SubmitBackend(orders[i], bar[orders[i].sym], open, work)
<1>1. /\ phase = "submit" /\ phase' = "submit" /\ i \in todo /\ todo' = todo \ {i}
      /\ orders' = [orders EXCEPT ![i] = r]
      /\ ~IsTerminal(r) => pending' = pending \cup {i}
      /\ changed' = IF r.status \in {"FILLED", "PENDING_SALE"}
                    THEN changed \cup {i} ELSE changed
      /\ UNCHANGED <<pf, lastPrice, plan, bar>>
  BY DEF SubmitOrder, IsFirst, pfVars, tickVars
<1>2. changed = {} /\ todo = {i} /\ Fresh(i) /\ todo' = {}
  BY <1>1 DEF OneBracketInv, Stage, Nobody
<1>3. /\ orders[i] \in Order /\ BracketOK(orders[i]) /\ orders[i].sym \in Symbols
      /\ orders \in [OrderId -> Order] /\ work \in Account /\ open \in BOOLEAN
  BY DEF BooksInv, TypeOK, OneBracketInv, BracketsOnly, Order
<1>4. bar[orders[i].sym] \in Nat BY <1>3, PriceType DEF BooksInv
<1>5. /\ SameOrder(orders[i], r) /\ BracketOK(r)
      /\ r = orders[i] \/ (bar[orders[i].sym] # NoPrice /\ r.status = "PENDING_SALE")
  BY <1>2, <1>3, <1>4, BracketEntry DEF Fresh
<1> HIDE DEF r
<1>6. BracketsOnly' /\ orders'[i] = r
  BY <1>1, <1>3, <1>5, OneBracketChanges DEF OneBracketInv, BracketsOnly, Told
<1>7. pending' = {i}
  <2>1. r.status \in {"PENDING", "PENDING_SALE"} BY <1>2, <1>5 DEF Fresh
  <2> QED BY <1>1, <1>2, <2>1 DEF IsTerminal, Terminal, Fresh, Flat
<1>8. Stage'
  <2>1. CASE r = orders[i]
    <3>1. Waiting(i)' /\ changed' = {}
      BY <1>1, <1>2, <1>6, <1>7, <2>1 DEF Waiting, Fresh, Flat
    <3> QED BY <1>1, <1>2, <3>1 DEF Stage, Nobody, Settled, Phase
  <2>2. CASE bar[orders[i].sym] # NoPrice /\ r.status = "PENDING_SALE"
    <3>1. Entered(i)' /\ changed' = {i}
      BY <1>1, <1>2, <1>5, <1>6, <1>7, <2>2 DEF Entered, Fresh, Flat, SameOrder
    <3> QED BY <1>1, <1>2, <3>1 DEF Stage, Phase
  <2> QED BY <1>5, <2>1, <2>2
<1>9. Valued' BY <1>1 DEF OneBracketInv, Valued
<1>10. Leaving' BY <1>1, <1>2 DEF OneBracketInv, Leaving, Told
<1> QED BY <1>6, <1>8, <1>9, <1>10 DEF OneBracketInv

LEMMA MachineryKeeps ==
    ASSUME BooksInv, OneBracketInv, Machinery, Told PROVE OneBracketInv'
BY TickKeeps, PollDoneKeeps, HandOver, ValueKeeps, PollKeeps, ApplyKeeps,
   ManualSaleKeeps, CancelKeeps, SubmitKeeps DEF Machinery, BooksInv

-----------------------------------------------------------------------------
(* The strategies *)

(* A strategy keeps the invariant when it asks for nothing but the sale of *)
(* the position it holds, or for one bracket while it holds nothing and    *)
(* nothing is on the way.                                                  *)
LEMMA StrategyKeeps ==
    ASSUME BooksInv, OneBracketInv, UNCHANGED class, NEW manual, NEW new,
           RunStrategy(manual, {}, new),
           \/ DOMAIN new = {} /\ \A i \in manual : Holding(i)
           \/ /\ Flat /\ manual = {}
              /\ \E i \in OrderId :
                    /\ DOMAIN new = {i} /\ BracketOK(new[i])
                    /\ new[i].type = "BRACKET" /\ new[i].status = "PENDING"
    PROVE  /\ Stage' /\ BracketsOnly' /\ Valued' /\ UNCHANGED <<pending, pf>>
           /\ \A i \in pending : orders'[i] = orders[i]
           /\ DOMAIN new = {} => todo' = {}
<1> DEFINE sent == {k \in DOMAIN new : new[k].qty > 0}
<1>1. /\ phase = "strategy" /\ phase' = "manual" /\ todo' = sent
      /\ plan' = [manual |-> manual, cancel |-> {}]
      /\ orders' = [i \in OrderId |-> IF i \in sent THEN new[i] ELSE orders[i]]
      /\ sent \subseteq Unused
      /\ UNCHANGED <<pending, pf, lastPrice, bar>>
  BY DEF RunStrategy, pfVars, tickVars
<1>2. sent \subseteq DOMAIN new OBVIOUS
<1> HIDE DEF sent
<1>3. Nobody /\ orders \in [OrderId -> Order]
  BY <1>1 DEF OneBracketInv, Stage, BooksInv, TypeOK
<1>4. plan'.manual = manual /\ plan'.cancel = {} BY <1>1
<1>5. BracketsOnly'
  <2>1. \A i \in sent : BracketOK(new[i]) BY <1>2
  <2>2. \A i \in OrderId : BracketOK(orders'[i])
    BY <1>1, <2>1 DEF OneBracketInv, BracketsOnly
  <2> QED BY <1>4, <2>2 DEF BracketsOnly, BracketOK, Tradable
<1>6. \A i \in pending : orders'[i] = orders[i]
  <2>1. \A i \in pending : i \in OrderId /\ i \notin sent
    BY <1>1, PendingBracket DEF Unused
  <2> QED BY <1>1, <2>1
<1>7. ASSUME sent = {} PROVE Stage'
  <2>1. UNCHANGED orders BY <1>1, <1>3, <1>7
  <2>2. Nobody' BY <1>1, <1>3, <1>7, <2>1, SettledUnmoved DEF Nobody
  <2>3. \A i \in plan'.manual : Holding(i)' BY <1>1, <1>4, <2>1 DEF Holding, Protects
  <2> QED BY <1>1, <2>2, <2>3 DEF Stage, Phase
<1>8. ASSUME sent # {} PROVE Stage'
  <2>1. PICK i \in OrderId : /\ DOMAIN new = {i} /\ BracketOK(new[i])
                             /\ new[i].type = "BRACKET" /\ new[i].status = "PENDING"
    BY <1>2, <1>8
  <2>2. Flat /\ manual = {} /\ sent = {i} BY <1>2, <1>8, <2>1
  <2>3. Fresh(i)' /\ todo' = {i} BY <1>1, <2>1, <2>2 DEF Fresh, Flat
  <2> QED BY <1>1, <1>4, <2>2, <2>3 DEF Stage, Phase
<1>9. Stage' BY <1>7, <1>8
<1>10. Valued' BY <1>1 DEF OneBracketInv, Valued
<1> QED BY <1>1, <1>2, <1>5, <1>6, <1>9, <1>10

(* What such a strategy leaves for Leaving to be decided. *)
AskedWell == /\ BooksInv' /\ Stage' /\ BracketsOnly' /\ Valued'
             /\ UNCHANGED <<pending, pf, class>> /\ phase' = "manual"
             /\ \A i \in pending : orders'[i] = orders[i]

(* Asking for nothing, or for a sale by hand. *)
LEMMA AsksForNoOrder ==
    ASSUME BooksInv, OneBracketInv, UNCHANGED class, NEW manual, NEW new,
           DOMAIN new = {}, RunStrategy(manual, {}, new),
           \A i \in manual : Holding(i)
    PROVE  AskedWell /\ todo' = {}
<1>1. /\ Stage' /\ BracketsOnly' /\ Valued' /\ UNCHANGED <<pending, pf>>
      /\ \A i \in pending : orders'[i] = orders[i]
      /\ todo' = {}
  BY StrategyKeeps
<1>2. manual \in SUBSET pending BY DEF Holding
<1>3. TypeOK'
  <2>1. manual \in SUBSET OrderId BY <1>2 DEF BooksInv, TypeOK
  <2>2. DOMAIN new \subseteq OrderId /\ \A k \in DOMAIN new : new[k] \in Order OBVIOUS
  <2> QED BY <2>1, <2>2, RunStrategyType DEF BooksInv
<1>4. Books' /\ Filing'
  <2>1. /\ DOMAIN new \subseteq OrderId
        /\ \A k \in DOMAIN new : new[k].type # "NONE" /\ new[k].status = "PENDING"
    OBVIOUS
  <2> QED BY <1>2, <2>1, RunStrategyBooks
<1>5. phase' = "manual" BY DEF RunStrategy
<1> QED BY <1>1, <1>3, <1>4, <1>5 DEF AskedWell, BooksInv

(* A bracket as a portfolio orders it. *)
Orderly(b) == b \in Order /\ BracketOK(b) /\ b.type = "BRACKET" /\ b.status = "PENDING"

(* Asking for one bracket, out of a flat position. *)
LEMMA AsksForBracket ==
    ASSUME BooksInv, OneBracketInv, Flat, UNCHANGED class, NEW i \in OrderId, NEW b,
           Orderly(b), RunStrategy({}, {}, [k \in {i} |-> b])
    PROVE  AskedWell
<1> USE DEF Orderly
<1> DEFINE new == [k \in {i} |-> b]
<1>1. /\ DOMAIN new = {i} /\ new[i] = b /\ RunStrategy({}, {}, new)
      /\ \A k \in DOMAIN new : new[k] = b
  OBVIOUS
<1> HIDE DEF new
<1>2. /\ Stage' /\ BracketsOnly' /\ Valued' /\ UNCHANGED <<pending, pf>>
      /\ \A j \in pending : orders'[j] = orders[j]
  BY <1>1, StrategyKeeps
<1>3. TypeOK' BY <1>1, RunStrategyType DEF BooksInv
<1>4. Books' /\ Filing'
  <2>1. {} \in SUBSET pending /\ DOMAIN new \subseteq OrderId BY <1>1
  <2>2. \A k \in DOMAIN new : new[k].type # "NONE" /\ new[k].status = "PENDING" BY <1>1
  <2> QED BY <1>1, <2>1, <2>2, RunStrategyBooks
<1>5. phase' = "manual" BY <1>1 DEF RunStrategy
<1> QED BY <1>2, <1>3, <1>4, <1>5 DEF AskedWell, BooksInv

(* The brackets the portfolios configure. *)
LEMMA ConfiguredOK ==
    ASSUME NEW s \in Tradable, s \in Symbols, NEW q \in Int, NEW est \in Nat,
           NEW intended \in Int, NEW close \in Nat
    PROVE  /\ Orderly(FixedBracket(s, q, est, intended))
           /\ Orderly(TrailingBracket(s, q, est, intended, close))
<1>1. ASSUME NEW b \in Order, b.type = "BRACKET", b.status = "PENDING", b.sym = s,
             b.qty = q, b.legQty = q, b.done = FALSE
      PROVE  Orderly(b)
  BY <1>1 DEF BracketOK, Orderly
<1>2. FixedBracket(s, q, est, intended) \in Order BY FixedBracketType
<1>3. TrailingBracket(s, q, est, intended, close) \in Order BY TrailingBracketType
<1>4. LET b == FixedBracket(s, q, est, intended)
      IN  /\ b.type = "BRACKET" /\ b.status = "PENDING" /\ b.sym = s /\ b.qty = q
          /\ b.legQty = q /\ b.done = FALSE
  BY DEF FixedBracket, NewOrder
<1>5. LET b == TrailingBracket(s, q, est, intended, close)
      IN  /\ b.type = "BRACKET" /\ b.status = "PENDING" /\ b.sym = s /\ b.qty = q
          /\ b.legQty = q /\ b.done = FALSE
  BY DEF TrailingBracket, NewOrder
<1> QED BY <1>1, <1>2, <1>3, <1>4, <1>5

LEMMA SingleKeeps ==
    ASSUME BooksInv, OneBracketInv, class = "single", SingleSymbolStrategy, Told
    PROVE  BooksInv' /\ OneBracketInv'
<1>1. AskedWell
  <2>1. CASE NoEntry
    <3>1. DOMAIN [i \in {} |-> UnusedOrder(Traded)] = {} OBVIOUS
    <3> QED BY <2>1, <3>1, AsksForNoOrder DEF NoEntry, Told
  <2>2. ASSUME NEW i \in OrderId, EnterOnBuy(i) PROVE AskedWell
    <3> DEFINE q == Affordable(pf.cash, bar[Traded])
    <3>1. PICK trailing \in BOOLEAN :
             /\ RunStrategy({}, {}, [k \in {i} |->
                   ConfiguredBracket(Traded, q, bar[Traded], 0, trailing)])
             /\ bar[Traded] # NoPrice /\ Traded \notin pf.held /\ ~ActiveBracket(Traded)
      BY <2>2 DEF EnterOnBuy
    <3>2. phase = "strategy" BY <3>1 DEF RunStrategy
    <3>3. Settled BY <3>2 DEF OneBracketInv, Stage, Nobody
    <3>4. \A j \in pending : orders[j].type = "BRACKET" /\ orders[j].sym = Traded
      BY PendingBracket DEF OneBracketInv, BracketsOnly, BracketOK, Tradable
    <3>5. Flat
      BY <3>1, <3>3, <3>4 DEF Settled, Flat, Waiting, Holding, ActiveBracket, Active
    <3>6. bar[Traded] \in Nat \ {0}
      BY <3>1, PriceType, SingleSymbolAssumption DEF BooksInv, NoPrice
    <3>7. q \in Int BY <3>6, AffordableType DEF BooksInv, TypeOK, Account
    <3> DEFINE b == ConfiguredBracket(Traded, q, bar[Traded], 0, trailing)
    <3>8. b \in {FixedBracket(Traded, q, bar[Traded], 0),
                 TrailingBracket(Traded, q, bar[Traded], 0, bar[Traded])}
      BY DEF ConfiguredBracket
    <3>9. Traded \in Tradable /\ Traded \in Symbols
      BY SingleSymbolAssumption DEF Tradable
    <3>10. RunStrategy({}, {}, [k \in {i} |-> b]) BY <3>1
    <3> HIDE DEF q, b
    <3>11. Orderly(b)
      <4>1. bar[Traded] \in Nat /\ 0 \in Int BY <3>6
      <4> QED BY <3>7, <3>8, <3>9, <4>1, ConfiguredOK
    <3> QED BY <3>5, <3>10, <3>11, AsksForBracket DEF Told
  <2> QED BY <2>1, <2>2 DEF SingleSymbolStrategy
<1>2. Leaving' BY DEF OneBracketInv, Leaving, Told
<1> QED BY <1>1, <1>2 DEF AskedWell, OneBracketInv

(* What the strategy of the switching portfolio can conclude from the      *)
(* symbol it finds itself in: with none it is flat, if nothing is on or if *)
(* it has been leaving; with one, the bracket it finds protects it.        *)
LEMMA CurrentTells ==
    ASSUME BooksInv, OneBracketInv, class = "dual", phase = "strategy"
    PROVE  /\ CurrentSymbol \in {Bull, Bear, NoSymbol}
           /\ (CurrentSymbol = NoSymbol /\ ActiveFor(Bull) \cup ActiveFor(Bear) = {}) => Flat
           /\ (CurrentSymbol = NoSymbol /\ switching) => Flat
           /\ CurrentSymbol # NoSymbol => \A i \in ActiveFor(CurrentSymbol) :
                 /\ Holding(i) /\ orders[i].qty > 0 /\ pf.held = {CurrentSymbol}
                 /\ orders[i].sym = CurrentSymbol
<1>1. Settled BY DEF OneBracketInv, Stage, Nobody
<1>2. \A i \in pending : orders[i].type = "BRACKET" /\ orders[i].sym \in {Bull, Bear}
  BY PendingBracket DEF OneBracketInv, BracketsOnly, BracketOK, Tradable
<1>3. CurrentSymbol \in {Bull, Bear, NoSymbol} BY DEF CurrentSymbol
<1>4. \A s \in {Bull, Bear} : Holds(s) => CurrentSymbol # NoSymbol
  BY DualAssumption DEF CurrentSymbol
<1>5. CurrentSymbol # NoSymbol => Holds(CurrentSymbol) BY DEF CurrentSymbol
<1>6. (CurrentSymbol = NoSymbol /\ ActiveFor(Bull) \cup ActiveFor(Bear) = {}) => Flat
  <2>1. \A i \in pending : orders[i].status \in {"PENDING", "PENDING_SALE"} =>
                              i \in ActiveFor(Bull) \cup ActiveFor(Bear)
    BY <1>2 DEF ActiveFor, Active
  <2> QED BY <1>1, <2>1 DEF Settled, Waiting, Holding
<1>7. (CurrentSymbol = NoSymbol /\ switching) => Flat
  <2>1. ASSUME NEW i \in OrderId, switching, Waiting(i) PROVE FALSE
    BY <2>1 DEF OneBracketInv, Leaving, Waiting
  <2>2. ASSUME NEW i \in OrderId, switching, Holding(i) PROVE CurrentSymbol # NoSymbol
    BY <1>2, <1>4, <2>2 DEF OneBracketInv, Leaving, Holding, Protects, Holds
  <2> QED BY <1>1, <2>1, <2>2 DEF Settled
<1>8. ASSUME CurrentSymbol # NoSymbol, NEW i \in ActiveFor(CurrentSymbol)
      PROVE  /\ Holding(i) /\ orders[i].qty > 0 /\ pf.held = {CurrentSymbol}
             /\ orders[i].sym = CurrentSymbol
  <2>1. i \in pending /\ orders[i].sym = CurrentSymbol BY <1>8 DEF ActiveFor
  <2>2. CurrentSymbol \in pf.held /\ pf.qty[CurrentSymbol] > 0 BY <1>5, <1>8 DEF Holds
  <2> HIDE DEF CurrentSymbol
  <2>3. Holding(i) BY <1>1, <2>1, <2>2 DEF Settled, Flat, Waiting, Holding
  <2> QED BY <2>1, <2>2, <2>3 DEF Holding, Protects
<1> QED BY <1>3, <1>6, <1>7, <1>8

(* A switch that is pending stays one as long as nothing more is ordered.  *)
LEMMA LeavingKept ==
    ASSUME OneBracketInv, AskedWell, UNCHANGED <<target, switching>>,
           todo' = {} \/ ~switching
    PROVE  Leaving'
  BY DEF OneBracketInv, AskedWell, Leaving

LEMMA IdleAsks ==
    ASSUME BooksInv, OneBracketInv, Idle, UNCHANGED class PROVE AskedWell /\ todo' = {}
<1>1. DOMAIN Nothing = {} BY DEF Nothing
<1> QED BY <1>1, AsksForNoOrder DEF Idle

(* Entering a symbol out of a flat position, if its price is known and the *)
(* cash buys a share.                                                      *)
LEMMA EnterAsks ==
    ASSUME BooksInv, OneBracketInv, class = "dual", Flat, UNCHANGED class,
           NEW s \in {Bull, Bear}, Enter(s)
    PROVE  AskedWell
<1> DEFINE b(trailing) ==
             ConfiguredBracket(s, EntryQuantity(s), GetPrice(s), GetPrice(s), trailing)
<1>1. CASE Idle BY <1>1, IdleAsks
<1>2. ASSUME GetPrice(s) # NoPrice, NEW i \in OrderId, NEW trailing \in BOOLEAN,
             RunStrategy({}, {}, [k \in {i} |-> b(trailing)])
      PROVE  AskedWell
  <2>1. s \in Symbols /\ s \in Tradable BY DualAssumption DEF Tradable
  <2>2. GetPrice(s) \in Nat \ {0} /\ bar[s] \in Nat
    BY <1>2, <2>1, PriceType DEF BooksInv, NoPrice
  <2>3. EntryQuantity(s) \in Int
    <3>1. pf.cash * 99 \in Int BY DEF BooksInv, TypeOK, Account
    <3>2. GetPrice(s) * 100 \in Nat \ {0} BY <2>2
    <3> QED BY <3>1, <3>2, AffordableType DEF EntryQuantity
  <2>4. Orderly(b(trailing))
    <3>1. PICK q \in Int, est \in Nat : q = EntryQuantity(s) /\ est = GetPrice(s)
      BY <2>2, <2>3
    <3>2. /\ Orderly(FixedBracket(s, q, est, est))
          /\ Orderly(TrailingBracket(s, q, est, est, bar[s]))
      BY <2>1, <2>2, ConfiguredOK
    <3> QED BY <3>1, <3>2 DEF ConfiguredBracket
  <2> QED BY <1>2, <2>4, AsksForBracket
<1> QED BY <1>1, <1>2 DEF Enter

LEMMA DualKeeps ==
    ASSUME BooksInv, OneBracketInv, class = "dual", DualStrategy, UNCHANGED class
    PROVE  BooksInv' /\ OneBracketInv'
<1>0. phase = "strategy"
  BY DEF DualStrategy, NoTarget, Idle, ExecuteSwitch, EnterFresh, KeepHolding,
         StartSwitch, Enter, RunStrategy
<1>1. /\ CurrentSymbol \in {Bull, Bear, NoSymbol}
      /\ (CurrentSymbol = NoSymbol /\ ActiveFor(Bull) \cup ActiveFor(Bear) = {}) => Flat
      /\ (CurrentSymbol = NoSymbol /\ switching) => Flat
      /\ CurrentSymbol # NoSymbol => \A i \in ActiveFor(CurrentSymbol) :
            /\ Holding(i) /\ orders[i].qty > 0 /\ pf.held = {CurrentSymbol}
            /\ orders[i].sym = CurrentSymbol
  BY <1>0, CurrentTells
<1>2. switching => target \in {Bull, Bear} /\ target # NoSymbol
  BY DualAssumption DEF OneBracketInv, Leaving
<1>3. ASSUME NoTarget PROVE AskedWell /\ Leaving'
  BY <1>3, IdleAsks, LeavingKept DEF NoTarget
<1>4. ASSUME ExecuteSwitch PROVE AskedWell /\ Leaving'
  <2>1. /\ switching /\ switching' = FALSE /\ CurrentSymbol = NoSymbol
        /\ Idle \/ Enter(target)
    BY <1>4 DEF ExecuteSwitch
  <2>2. Leaving' BY <2>1 DEF Leaving
  <2> QED BY <1>1, <1>2, <2>1, <2>2, IdleAsks, EnterAsks
<1>5. ASSUME NEW wanted \in {Bull, Bear}, EnterFresh(wanted) PROVE AskedWell /\ Leaving'
  <2>1. /\ ~switching /\ UNCHANGED <<target, switching>>
        /\ Idle \/ (Flat /\ Enter(wanted))
    BY <1>1, <1>2, <1>5 DEF EnterFresh
  <2>2. AskedWell BY <2>1, IdleAsks, EnterAsks
  <2> QED BY <2>1, <2>2, LeavingKept
<1>6. ASSUME NEW wanted \in {Bull, Bear}, StartSwitch(wanted) PROVE AskedWell /\ Leaving'
  <2>1. PICK i \in ActiveFor(CurrentSymbol) :
           /\ RunStrategy({i}, {}, Nothing) /\ CurrentSymbol \notin {NoSymbol, wanted}
           /\ target' = wanted /\ switching' = TRUE
    BY <1>6 DEF StartSwitch, IsFirst
  <2>2. /\ Holding(i) /\ orders[i].qty > 0 /\ pf.held = {CurrentSymbol}
        /\ orders[i].sym = CurrentSymbol
    BY <1>1, <2>1
  <2> HIDE DEF CurrentSymbol
  <2>3. AskedWell /\ todo' = {}
    <3>1. DOMAIN Nothing = {} BY DEF Nothing
    <3>2. \A j \in {i} : Holding(j) BY <2>2
    <3> QED BY <2>1, <3>1, <3>2, AsksForNoOrder
  <2>4. Leaving' BY <2>1, <2>2, <2>3 DEF Leaving, AskedWell, Holding
  <2> QED BY <2>3, <2>4
<1>7. AskedWell /\ Leaving'
  BY <1>3, <1>4, <1>5, <1>6 DEF DualStrategy, KeepHolding
<1> QED BY <1>7 DEF AskedWell, OneBracketInv

-----------------------------------------------------------------------------
(* What the portfolios keep *)

LEMMA InitPortfolio == ASSUME PortfolioInit PROVE PortfolioInv
<1>1. Init BY DEF PortfolioInit, DualInit
<1>2. BooksInv BY <1>1, InitType, InitBooks DEF BooksInv
<1>3. /\ phase = "idle" /\ todo = {} /\ pending = {} /\ pf.held = {}
      /\ plan.cancel = {} /\ ~switching /\ class \in {"single", "dual"}
      /\ \A i \in OrderId : orders[i] = UnusedOrder(CHOOSE s \in Symbols : TRUE)
  <2>1. /\ phase = "idle" /\ todo = {} /\ pending = {} /\ pf.held = {} /\ plan.cancel = {}
    BY <1>1 DEF Init, EmptyAccount, NoPlan
  <2>2. \A i \in OrderId : orders[i] = UnusedOrder(CHOOSE s \in Symbols : TRUE)
    BY <1>1 DEF Init
  <2>3. ~switching /\ class \in {"single", "dual"} BY DEF PortfolioInit, DualInit
  <2> QED BY <2>1, <2>2, <2>3
<1>4. \A s : BracketOK(UnusedOrder(s)) BY DEF BracketOK, UnusedOrder, NewOrder
<1>5. Stage BY <1>3 DEF Stage, Nobody, Settled, Flat, Phase
<1> QED
  BY <1>2, <1>3, <1>4, <1>5
  DEF PortfolioInv, OneBracketInv, BracketsOnly, Valued, Leaving

LEMMA PortfolioInvariant == PortfolioSpec => []PortfolioInv
<1>1. PortfolioInit => PortfolioInv BY InitPortfolio
<1>2. PortfolioInv /\ [PortfolioNext]_portfolioVars => PortfolioInv'
  <2>1. ASSUME PortfolioInv, Machinery, Told PROVE PortfolioInv'
    <3>1. BooksInv' BY <2>1, MachineryType, MachineryBooks DEF PortfolioInv, BooksInv
    <3> QED BY <2>1, <3>1, MachineryKeeps DEF PortfolioInv, Told
  <2>2. ASSUME PortfolioInv, SingleStep PROVE PortfolioInv'
    <3>1. class = "single" /\ Told /\ (Machinery \/ SingleSymbolStrategy)
      BY <2>2 DEF SingleStep, SingleNext, Told, dualVars
    <3> QED BY <2>1, <2>2, <3>1, SingleKeeps DEF PortfolioInv, Told
  <2>3. ASSUME PortfolioInv, DualStep PROVE PortfolioInv'
    <3>1. class = "dual" /\ UNCHANGED class /\ ((Machinery /\ Told) \/ DualStrategy)
      BY <2>3 DEF DualStep, DualNext, Told, dualVars, Machinery
    <3> QED BY <2>1, <2>3, <3>1, DualKeeps DEF PortfolioInv
  <2>4. ASSUME PortfolioInv, UNCHANGED portfolioVars PROVE PortfolioInv'
    <3>1. UNCHANGED <<vars, target, switching, class>>
      BY <2>4 DEF portfolioVars, dualVars
    <3>2. BooksInv'
      BY <2>4, <3>1 DEF PortfolioInv, BooksInv, TypeOK, Books, Filing, Known, IsTerminal,
                        vars, omVars, pfVars, loopVars, tickVars
    <3>3. OneBracketInv'
      BY <2>4, <3>1 DEF PortfolioInv, OneBracketInv, Stage, Nobody, Settled, Flat, Waiting,
                        Holding, Protects, Entered, Exited, Fresh, BracketsOnly, BracketOK,
                        Tradable, Valued, Leaving, vars, omVars, pfVars, loopVars, tickVars
    <3> QED BY <2>4, <3>1, <3>2, <3>3 DEF PortfolioInv
  <2> QED BY <2>2, <2>3, <2>4 DEF PortfolioNext
<1> QED BY <1>1, <1>2, PTL DEF PortfolioSpec

(* No sequence of bars, gaps, closed markets and signals makes either      *)
(* portfolio throw: a backtest runs to its end.                            *)
THEOREM RaisesNever == PortfolioSpec => []NeverRaises
<1>1. PortfolioInv => NeverRaises
  BY DEF PortfolioInv, OneBracketInv, Stage, NeverRaises
<1> QED BY <1>1, PortfolioInvariant, PTL

(* Whatever the prices and the holding period, at most one bracket is on,  *)
(* over both symbols.                                                      *)
THEOREM OneBracketCorrect == PortfolioSpec => []OneBracket
<1>1. PortfolioInv => OneBracket
  <2>1. ASSUME PortfolioInv PROVE pending = {} \/ \E i : pending = {i}
    BY <2>1 DEF PortfolioInv, OneBracketInv, Stage, Phase, Nobody, Settled, Flat,
                Waiting, Holding, Entered, Fresh
  <2> QED BY <2>1 DEF OneBracket, Active
<1> QED BY <1>1, PortfolioInvariant, PTL

(* Between ticks the position and the open brackets are two views of the   *)
(* same shares, and a bracket has sold what it had bought.                 *)
THEOREM BracketsCorrect == PortfolioSpec => []BracketsAreTheBooks
<1>1. ASSUME PortfolioInv, phase = "idle"
      PROVE  \/ pending = {} /\ pf.held = {}
             \/ \E i \in pending :
                   /\ pending = {i} /\ orders[i].type = "BRACKET"
                   /\ orders[i].sym \in Tradable
                   /\ \/ orders[i].status = "PENDING" /\ pf.held = {}
                      \/ /\ orders[i].status = "PENDING_SALE" /\ pf.held = {orders[i].sym}
                         /\ pf.qty[orders[i].sym] = orders[i].qty
  <2>1. Settled BY <1>1 DEF PortfolioInv, OneBracketInv, Stage, Nobody
  <2>2. \A i \in pending : orders[i].type = "BRACKET" /\ orders[i].sym \in Tradable
    BY <1>1, PendingBracket DEF PortfolioInv, OneBracketInv, BracketsOnly, BracketOK
  <2> QED BY <2>1, <2>2 DEF Settled, Flat, Waiting, Holding, Protects
<1>2. PortfolioInv /\ class = "single" => PositionIsBracket
  BY <1>1 DEF PositionIsBracket, Tradable
<1>3. PortfolioInv => SellsWhatItBought
  <2>1. ASSUME PortfolioInv, NEW i \in exits PROVE orders[i].sold.qty = orders[i].qty
    <3>1. i \in OrderId /\ orders[i].status = "FILLED"
      BY <2>1 DEF PortfolioInv, BooksInv, Books, TypeOK
    <3> QED BY <2>1, <3>1 DEF PortfolioInv, OneBracketInv, BracketsOnly, BracketOK
  <2> QED BY <2>1 DEF SellsWhatItBought
<1>4. PortfolioInv /\ class # "single" => DualPositionIsBracket
  <2>1. ASSUME PortfolioInv, phase = "idle", NEW s \in {Bull, Bear},
               NEW i \in ActiveFor(s), orders[i].status = "PENDING_SALE"
        PROVE  pf.qty[s] = orders[i].qty
    BY <1>1, <2>1 DEF ActiveFor
  <2>2. ASSUME PortfolioInv, phase = "idle", NEW s \in {Bull, Bear}, s \in pf.held
        PROVE  \E i \in ActiveFor(s) : orders[i].status = "PENDING_SALE"
    BY <1>1, <2>2 DEF ActiveFor, Active
  <2> QED BY <2>1, <2>2 DEF DualPositionIsBracket
<1>5. PortfolioInv => BracketsAreTheBooks
  BY <1>2, <1>3, <1>4 DEF BracketsAreTheBooks
<1> QED BY <1>5, PortfolioInvariant, PTL

(* A switch is only ever pending for the symbol that is not held.          *)
THEOREM SwitchCorrect == PortfolioSpec => []SwitchLeaves
<1>1. PortfolioInv => SwitchLeaves
  <2>1. ASSUME PortfolioInv, switching PROVE target \in {Bull, Bear} \ {CurrentSymbol}
    <3>1. target \in {Bull, Bear} \ pf.held
      BY <2>1 DEF PortfolioInv, OneBracketInv, Leaving
    <3> QED BY <3>1, DualAssumption DEF CurrentSymbol, Holds
  <2> QED BY <2>1 DEF SwitchLeaves
<1> QED BY <1>1, PortfolioInvariant, PTL
=============================================================================
