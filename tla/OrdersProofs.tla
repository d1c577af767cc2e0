---------------------------- MODULE OrdersProofs ----------------------------
(***************************************************************************)
(* Typing and bounds of the pure operators of Orders: what the simulated   *)
(* broker returns for any order, price and account.                        *)
(***************************************************************************)
EXTENDS Orders, TLAPS

(* Dividing by a positive number stays in the integers. *)
LEMMA RoundedType ==
    ASSUME NEW a \in Int, NEW b \in Nat \ {0} PROVE Rounded(a, b) \in Int
  BY DEF Rounded

(* The number of shares some cash buys is a whole number. *)
LEMMA AffordableType ==
    ASSUME NEW cash \in Int, NEW px \in Nat \ {0}
    PROVE  Affordable(cash, px) \in Int
<1>1. CASE cash >= 0
  BY <1>1 DEF Affordable
<1>2. CASE ~(cash >= 0)
  <2>1. -cash \in Nat
    BY <1>2
  <2>2. (-cash) \div px \in Int
    BY <2>1
  <2> QED
    BY <1>2, <2>2 DEF Affordable
<1> QED
  BY <1>1, <1>2

(* The child prices of a bracket are integers. *)
LEMMA LevelType ==
    ASSUME NEW px \in Nat PROVE StopOf(px) \in Int /\ ProfitOf(px) \in Int
<1>1. px * (100 - StopPct) \in Int /\ px * (100 + ProfitPct) \in Int
  BY OrdersAssumption
<1> QED
  BY <1>1, RoundedType DEF StopOf, ProfitOf

(* Shares of an account is an integer. *)
LEMMA SharesType ==
    ASSUME NEW acc \in Account, NEW s \in Symbols PROVE Shares(acc, s) \in Int
  BY DEF Account, Shares

(* Buying leads from accounts to accounts. *)
LEMMA BoughtType ==
    ASSUME NEW acc \in Account, NEW s \in Symbols, NEW q \in Int, NEW px \in Int
    PROVE  Bought(acc, s, q, px) \in Account
<1>1. acc.cash - px * q - TxCost \in Int
  BY OrdersAssumption DEF Account
<1>2. [acc.qty EXCEPT ![s] = Shares(acc, s) + q] \in [Symbols -> Int]
  BY SharesType DEF Account
<1>3. acc.held \cup {s} \in SUBSET Symbols
  BY DEF Account
<1> QED
  BY <1>1, <1>2, <1>3 DEF Bought, Account

(* Selling leads from accounts to accounts, whether or not it closes the   *)
(* position (Portfolio.sell, and the snapshot of the OrderManager).         *)
LEMMA SoldType ==
    ASSUME NEW acc \in Account, NEW s \in Symbols, NEW q \in Int, NEW px \in Int,
           NEW closed \in BOOLEAN
    PROVE  Sold(acc, s, q, px, closed) \in Account
<1>1. acc.cash + px * q - TxCost \in Int
  BY OrdersAssumption DEF Account
<1>2. [acc.qty EXCEPT ![s] = IF closed THEN 0 ELSE @ - q] \in [Symbols -> Int]
  BY DEF Account
<1>3. (IF closed THEN acc.held \ {s} ELSE acc.held) \in SUBSET Symbols
  BY DEF Account
<1> QED
  BY <1>1, <1>2, <1>3 DEF Sold, Account

(* A new order is an order. *)
LEMMA NewOrderType ==
    ASSUME NEW type \in OrderKind, NEW action \in Action, NEW s \in Symbols,
           NEW q \in Int
    PROVE  NewOrder(type, action, s, q) \in Order
  BY DEF NewOrder, Order, OrderKind, Action, Status, Exit, NoExit, Leg, NoPrice

(* Writing a well-typed value to a field keeps an order an order.  With the *)
(* record's type hidden, a nested EXCEPT needs nothing else.               *)
LEMMA FieldUpdate ==
    /\ \A o \in Order, v \in Int : [o EXCEPT !.qty = v] \in Order
    /\ \A o \in Order, v \in Int : [o EXCEPT !.price = v] \in Order
    /\ \A o \in Order, v \in Int : [o EXCEPT !.intended = v] \in Order
    /\ \A o \in Order, v \in Int : [o EXCEPT !.stop = v] \in Order
    /\ \A o \in Order, v \in Int : [o EXCEPT !.profit = v] \in Order
    /\ \A o \in Order, v \in Int : [o EXCEPT !.hwm = v] \in Order
    /\ \A o \in Order, v \in Status : [o EXCEPT !.status = v] \in Order
    /\ \A o \in Order, v \in Exit : [o EXCEPT !.sold = v] \in Order
    /\ \A o \in Order, v \in BOOLEAN : [o EXCEPT !.trailing = v] \in Order
    /\ \A o \in Order, v \in BOOLEAN : [o EXCEPT !.manual = v] \in Order
    /\ \A o \in Order, v \in BOOLEAN : [o EXCEPT !.done = v] \in Order
  BY DEF Order

(* A bracket with a fixed stop, priced around an estimate, is an order.     *)
LEMMA FixedBracketType ==
    ASSUME NEW s \in Symbols, NEW q \in Int, NEW est \in Nat, NEW intended \in Int
    PROVE  FixedBracket(s, q, est, intended) \in Order
<1>1. NewOrder("BRACKET", "BUY", s, q) \in Order
  BY NewOrderType DEF OrderKind, Action
<1>2. StopOf(est) \in Int /\ ProfitOf(est) \in Int
  BY LevelType
<1> QED
  BY <1>1, <1>2 DEF FixedBracket, Order

(* A bracket with a trailing stop is an order, created with or without a    *)
(* bar to start the high-water mark from.                                   *)
LEMMA TrailingBracketType ==
    ASSUME NEW s \in Symbols, NEW q \in Int, NEW est \in Nat, NEW intended \in Int,
           NEW close \in Nat
    PROVE  TrailingBracket(s, q, est, intended, close) \in Order
<1>1. NewOrder("BRACKET", "BUY", s, q) \in Order
  BY NewOrderType DEF OrderKind, Action
<1> DEFINE n == NewOrder("BRACKET", "BUY", s, q)
          stop == IF close = NoPrice THEN 0 ELSE StopOf(close)
<1>2. /\ stop \in Int /\ ProfitOf(est) \in Int /\ close \in Int
      /\ TRUE \in BOOLEAN
  BY LevelType
<1>3. n \in Order
  BY <1>1
<1> HIDE DEF n, stop
<1>4. [n EXCEPT !.trailing = TRUE, !.hwm = close, !.stop = stop,
                !.profit = ProfitOf(est), !.intended = intended] \in Order
  BY <1>2, <1>3, FieldUpdate, Zenon
<1> QED
  BY <1>4 DEF TrailingBracket, n, stop

(* The high-water mark may be any integer in the type, so that the stop is *)
(* one too.                                                                *)
LEMMA TrailType ==
    ASSUME NEW o \in Order, NEW px \in Int PROVE Trail(o, px) \in Order
<1> DEFINE top == IF o.hwm = NoPrice THEN px ELSE Greater(o.hwm, px)
<1>1. top \in Int
  BY DEF Greater, Order
<1>2. StopOf(top) \in Int
  <2>1. top * (100 - StopPct) \in Int
    BY <1>1, OrdersAssumption
  <2> QED
    BY <2>1, RoundedType DEF StopOf
<1> QED
  BY <1>1, <1>2 DEF Trail, Order

(* Filling, clamping or canceling a market order on a bar leaves an order.  *)
LEMMA ProcessMarketType ==
    ASSUME NEW o \in Order, NEW px \in Nat \ {0}, NEW acc \in Account
    PROVE  ProcessMarket(o, px, acc) \in Order
<1> DEFINE tx == IF o.action = "SELL" THEN Lesser(o.qty, Shares(acc, o.sym))
                 ELSE Lesser(o.qty, Affordable(acc.cash, px))
           st == IF tx <= 0 THEN "CANCELED" ELSE "FILLED"
<1>1. o.qty \in Int /\ o.sym \in Symbols /\ acc.cash \in Int
  BY DEF Order, Account
<1>2. tx \in Int
  BY <1>1, SharesType, AffordableType DEF Lesser
<1>3. st \in Status /\ px \in Int
  BY DEF Status
<1> HIDE DEF tx, st
<1>4. [o EXCEPT !.qty = tx, !.price = px, !.status = st] \in Order
  BY <1>2, <1>3, FieldUpdate, Zenon
<1> QED
  BY <1>4 DEF ProcessMarket, tx, st

(* The entry of a bracket, clamped to the cash at hand, leaves an order.    *)
LEMMA EnterBracketType ==
    ASSUME NEW o \in Order, NEW px \in Nat \ {0}, NEW acc \in Account
    PROVE  EnterBracket(o, px, acc) \in Order
<1> DEFINE e == [o EXCEPT !.status = "PENDING_SALE", !.price = px,
                          !.qty = Lesser(@, Affordable(acc.cash, px))]
<1>1. Lesser(o.qty, Affordable(acc.cash, px)) \in Int
  <2>1. o.qty \in Int /\ acc.cash \in Int
    BY DEF Order, Account
  <2> QED
    BY <2>1, AffordableType DEF Lesser
<1>2. "PENDING_SALE" \in Status /\ px \in Int
  BY DEF Status
<1>3. [o EXCEPT !.status = "PENDING_SALE", !.price = px] \in Order
  BY <1>2, FieldUpdate, Zenon
<1>4. [o EXCEPT !.status = "PENDING_SALE", !.price = px].qty = o.qty
  BY DEF Order
<1>5. e \in Order
  BY <1>1, <1>3, <1>4, FieldUpdate, Zenon
<1> HIDE DEF e
<1>6. [e EXCEPT !.hwm = px] \in Order
  BY <1>2, <1>5, FieldUpdate, Zenon
<1> QED
  BY <1>2, <1>5, <1>6, TrailType DEF EnterBracket, e

(* So does an entry on a later bar: rescaling divides by the intended entry *)
(* price only where that price is positive.                                 *)
LEMMA EnterDeferredType ==
    ASSUME NEW o \in Order, NEW px \in Nat \ {0}, NEW acc \in Account
    PROVE  EnterDeferred(o, px, acc) \in Order
<1>1. EnterBracket(o, px, acc) \in Order
  BY EnterBracketType
<1>2. ASSUME o.intended > 0
      PROVE  Rounded(o.stop * px, o.intended) \in Int
             /\ Rounded(o.profit * px, o.intended) \in Int
  BY <1>2, RoundedType DEF Order
<1> QED
  BY <1>1, <1>2 DEF EnterDeferred, Order

(* Filling the stop or the profit-taker of a bracket leaves an order.       *)
LEMMA FillExitType ==
    ASSUME NEW o \in Order, NEW leg \in Leg, NEW px \in Int, NEW acc \in Account
    PROVE  FillExit(o, leg, px, acc) \in Order
<1>1. Lesser(o.legQty, Shares(acc, o.sym)) \in Int
  BY SharesType DEF Lesser, Order
<1> QED
  BY <1>1 DEF FillExit, Order, Exit, Status

(* Selling a bracket by hand leaves an order.                               *)
LEMMA SellManuallyType ==
    ASSUME NEW o \in Order, NEW px \in Nat \ {0}, NEW acc \in Account
    PROVE  SellManually(o, px, acc) \in Order
<1> DEFINE mo == ProcessMarket(MarketOrder("SELL", o.sym, o.qty), px, acc)
<1>1. MarketOrder("SELL", o.sym, o.qty) \in Order
  BY NewOrderType DEF MarketOrder, OrderKind, Action, Order
<1>2. mo \in Order
  BY <1>1, ProcessMarketType
<1>3. mo.qty \in Int /\ mo.status \in Status
  BY <1>2 DEF Order
<1> HIDE DEF mo
<1>4. [leg |-> "MANUAL", qty |-> mo.qty, price |-> px, status |-> mo.status] \in Exit
  BY <1>3 DEF Exit, Leg
<1>5. [o EXCEPT !.status = "FILLED",
                !.sold = [leg |-> "MANUAL", qty |-> mo.qty, price |-> px,
                          status |-> mo.status]] \in Order
  BY <1>4 DEF Order, Status
<1> QED
  BY <1>5 DEF SellManually, mo

(* A bar that finds a bracket holding leaves an order, whether it trails,   *)
(* exits or is sold by hand.                                                *)
LEMMA HoldBracketType ==
    ASSUME NEW o \in Order, NEW px \in Nat \ {0}, NEW acc \in Account
    PROVE  HoldBracket(o, px, acc) \in Order
<1> DEFINE t == IF o.trailing THEN Trail(o, px) ELSE o
<1>1. t \in Order
  BY TrailType
<1> HIDE DEF t
<1>2. FillExit(t, "STOP", px, acc) \in Order /\ FillExit(t, "PROFIT", px, acc) \in Order
  BY <1>1, FillExitType DEF Leg
<1> QED
  BY <1>1, <1>2, SellManuallyType DEF HoldBracket, t

(* Whatever a bar, or the lack of one, does to an order leaves an order.   *)
LEMMA PollBackendType ==
    ASSUME NEW o \in Order, NEW px \in Nat, NEW op \in BOOLEAN, NEW acc \in Account
    PROVE  PollBackend(o, px, op, acc) \in Order
<1>1. CASE px = NoPrice
  BY <1>1 DEF PollBackend
<1>2. CASE px # NoPrice
  BY <1>2, ProcessMarketType, EnterDeferredType, HoldBracketType
  DEF PollBackend, NoPrice
<1> QED
  BY <1>1, <1>2

(* Submitting an order to the simulated broker leaves an order.             *)
LEMMA SubmitBackendType ==
    ASSUME NEW o \in Order, NEW px \in Nat, NEW op \in BOOLEAN, NEW acc \in Account
    PROVE  SubmitBackend(o, px, op, acc) \in Order
<1>1. CASE px = NoPrice
  BY <1>1 DEF SubmitBackend
<1>2. CASE px # NoPrice
  BY <1>2, ProcessMarketType, EnterBracketType DEF SubmitBackend, NoPrice
<1> QED
  BY <1>1, <1>2

(* The snapshot stays an account. *)
LEMMA SnapshotType ==
    ASSUME NEW o \in Order, NEW acc \in Account
    PROVE  ApplyToSnapshot(o, acc) \in Account
<1>1. o.sym \in Symbols /\ o.qty \in Int /\ o.price \in Int
      /\ o.sold.qty \in Int /\ o.sold.price \in Int
  BY DEF Order, Exit
<1> DEFINE left(q) == acc.qty[o.sym] - q <= 0
<1>2. Bought(acc, o.sym, o.qty, o.price) \in Account
  BY <1>1, BoughtType
<1>3. left(o.qty) \in BOOLEAN /\ left(o.sold.qty) \in BOOLEAN
  OBVIOUS
<1> HIDE DEF left
<1>4. /\ Sold(acc, o.sym, o.qty, o.price, left(o.qty)) \in Account
      /\ Sold(acc, o.sym, o.sold.qty, o.sold.price, left(o.sold.qty)) \in Account
  BY <1>1, <1>3, SoldType
<1> QED
  BY <1>2, <1>4 DEF ApplyToSnapshot, left

-----------------------------------------------------------------------------
(* What the simulated broker leaves alone *)

(* The mark and the stop are all that trailing changes. *)
LEMMA TrailKeeps ==
    ASSUME NEW o \in Order, NEW px \in Int
    PROVE  /\ Trail(o, px).type = o.type /\ Trail(o, px).status = o.status
           /\ Trail(o, px).sold = o.sold
  BY DEF Trail, Order

(* A market order stays one; its status says whether it traded. *)
LEMMA ProcessMarketKeeps ==
    ASSUME NEW o \in Order, NEW px \in Int, NEW acc
    PROVE  ProcessMarket(o, px, acc).type = o.type
  BY DEF ProcessMarket, Order

(* Entering, on any bar, leaves a bracket waiting for its sale. *)
LEMMA EnterBracketKeeps ==
    ASSUME NEW o \in Order, NEW px \in Nat \ {0}, NEW acc \in Account
    PROVE  /\ EnterBracket(o, px, acc).type = o.type
           /\ EnterBracket(o, px, acc).status = "PENDING_SALE"
<1> DEFINE q == Lesser(o.qty, Affordable(acc.cash, px))
           e == [o EXCEPT !.status = "PENDING_SALE", !.price = px, !.qty = q]
           m == [e EXCEPT !.hwm = px]
<1>1. o.qty \in Int /\ acc.cash \in Int /\ px \in Int /\ "PENDING_SALE" \in Status
  BY DEF Order, Account, Status
<1>2. q \in Int
  BY <1>1, AffordableType DEF Lesser
<1> HIDE DEF q
<1>3. e \in Order
  BY <1>1, <1>2, FieldUpdate, Zenon
<1>4. e.type = o.type /\ e.status = "PENDING_SALE"
  BY DEF Order
<1> HIDE DEF e
<1>5. m \in Order
  BY <1>1, <1>3, FieldUpdate, Zenon
<1>6. m.type = e.type /\ m.status = e.status
  BY <1>3 DEF Order
<1> HIDE DEF m
<1>7. Trail(m, px).type = o.type /\ Trail(m, px).status = "PENDING_SALE"
  BY <1>1, <1>4, <1>5, <1>6, TrailKeeps
<1>8. EnterBracket(o, px, acc) = IF o.trailing THEN Trail(m, px) ELSE e
  BY DEF EnterBracket, e, m, q
<1> QED
  BY <1>4, <1>7, <1>8

(* So does an entry on a later bar. *)
LEMMA EnterDeferredKeeps ==
    ASSUME NEW o \in Order, NEW px \in Nat \ {0}, NEW acc \in Account
    PROVE  /\ EnterDeferred(o, px, acc).type = o.type
           /\ EnterDeferred(o, px, acc).status = "PENDING_SALE"
<1> DEFINE e == EnterBracket(o, px, acc)
<1>1. e \in Order /\ e.type = o.type /\ e.status = "PENDING_SALE"
  BY EnterBracketType, EnterBracketKeeps
<1> HIDE DEF e
<1> QED
  BY <1>1 DEF EnterDeferred, e, Order

(* A bar never makes one kind of order of another; and a bracket that is   *)
(* over has a SOLD_ORDER (backtesting_om.py:138-196).                       *)
LEMMA PollBackendKeeps ==
    ASSUME NEW o \in Order, NEW px \in Nat, NEW op \in BOOLEAN, NEW acc \in Account,
           o.type \in {"MARKET", "BRACKET"}, o.status \notin Terminal
    PROVE  LET r == PollBackend(o, px, op, acc)
           IN  /\ r.type = o.type
               /\ (r.type = "BRACKET" /\ r.status = "FILLED") => r.sold # NoExit
<1>1. CASE px = NoPrice \/ ~op
  BY <1>1 DEF PollBackend, Terminal
<1>2. CASE px # NoPrice /\ op
  <2>0. px \in Nat \ {0}
    BY <1>2 DEF NoPrice
  <2>1. CASE o.type = "MARKET"
    BY <1>2, <2>0, <2>1, ProcessMarketKeeps DEF PollBackend, Terminal
  <2>2. CASE o.type = "BRACKET" /\ o.status = "PENDING"
    BY <1>2, <2>0, <2>2, EnterDeferredKeeps DEF PollBackend
  <2>3. CASE o.type = "BRACKET" /\ o.status # "PENDING"
    <3> DEFINE t == IF o.trailing THEN Trail(o, px) ELSE o
    <3>1. t \in Order /\ t.type = o.type /\ t.status = o.status
      BY <2>0, TrailType, TrailKeeps
    <3> HIDE DEF t
    <3>2. \A leg \in {"STOP", "PROFIT"} : /\ FillExit(t, leg, px, acc).type = o.type
                                          /\ FillExit(t, leg, px, acc).sold.leg = leg
      BY <3>1 DEF FillExit, Order
    <3>3. /\ SellManually(o, px, acc).type = o.type
          /\ SellManually(o, px, acc).sold.leg = "MANUAL"
      BY DEF SellManually, Order
    <3>4. PollBackend(o, px, op, acc) = HoldBracket(o, px, acc)
      BY <1>2, <2>3 DEF PollBackend, Terminal
    <3>5. HoldBracket(o, px, acc) \in
             {SellManually(o, px, acc), FillExit(t, "STOP", px, acc),
              FillExit(t, "PROFIT", px, acc), t}
      BY DEF HoldBracket, t
    <3> QED
      BY <2>3, <3>1, <3>2, <3>3, <3>4, <3>5 DEF NoExit, Terminal
  <2> QED
    BY <2>1, <2>2, <2>3
<1> QED
  BY <1>1, <1>2

(* Submitting makes no other kind of order, and no bracket ends on the bar *)
(* it is submitted on.                                                     *)
LEMMA SubmitBackendKeeps ==
    ASSUME NEW o \in Order, NEW px \in Nat, NEW op \in BOOLEAN, NEW acc \in Account,
           o.type \in {"MARKET", "BRACKET"}, o.status = "PENDING"
    PROVE  LET r == SubmitBackend(o, px, op, acc)
           IN  r.type = o.type /\ (r.type = "BRACKET" => r.status \notin Terminal)
<1>1. CASE px = NoPrice \/ ~op
  BY <1>1 DEF SubmitBackend, Terminal
<1>2. CASE px # NoPrice /\ op
  BY <1>2, ProcessMarketKeeps, EnterBracketKeeps
  DEF SubmitBackend, NoPrice, Terminal
<1> QED
  BY <1>1, <1>2

(* What no step of the simulated broker changes. *)
SameOrder(o, r) ==
    /\ r.type = o.type /\ r.action = o.action /\ r.sym = o.sym
    /\ r.legQty = o.legQty /\ r.trailing = o.trailing
    /\ r.intended = o.intended /\ r.done = o.done

(* Trailing,                                                               *)
LEMMA TrailSame ==
    ASSUME NEW o \in Order, NEW px \in Int PROVE SameOrder(o, Trail(o, px))
  BY DEF SameOrder, Trail, Order

(* trading a market order,                                                 *)
LEMMA ProcessMarketSame ==
    ASSUME NEW o \in Order, NEW px, NEW acc PROVE SameOrder(o, ProcessMarket(o, px, acc))
  BY DEF SameOrder, ProcessMarket, Order

(* entering a bracket at once                                              *)
LEMMA EnterBracketSame ==
    ASSUME NEW o \in Order, NEW px \in Nat \ {0}, NEW acc \in Account
    PROVE  SameOrder(o, EnterBracket(o, px, acc))
<1> DEFINE q == Lesser(o.qty, Affordable(acc.cash, px))
           e == [o EXCEPT !.status = "PENDING_SALE", !.price = px, !.qty = q]
           m == [e EXCEPT !.hwm = px]
<1>1. o.qty \in Int /\ acc.cash \in Int /\ px \in Int /\ "PENDING_SALE" \in Status
  BY DEF Order, Account, Status
<1>2. q \in Int
  BY <1>1, AffordableType DEF Lesser
<1> HIDE DEF q
<1>3. e \in Order
  BY <1>1, <1>2, FieldUpdate, Zenon
<1>4. SameOrder(o, e)
  BY DEF SameOrder, Order
<1> HIDE DEF e
<1>5. m \in Order
  BY <1>1, <1>3, FieldUpdate, Zenon
<1>6. SameOrder(e, m)
  BY <1>3 DEF SameOrder, Order
<1> HIDE DEF m
<1>7. SameOrder(m, Trail(m, px))
  BY <1>1, <1>5, TrailSame
<1>8. EnterBracket(o, px, acc) = IF o.trailing THEN Trail(m, px) ELSE e
  BY DEF EnterBracket, e, m, q
<1> QED
  BY <1>4, <1>6, <1>7, <1>8 DEF SameOrder

(* or on a later bar,                                                      *)
LEMMA EnterDeferredSame ==
    ASSUME NEW o \in Order, NEW px \in Nat \ {0}, NEW acc \in Account
    PROVE  SameOrder(o, EnterDeferred(o, px, acc))
<1> DEFINE e == EnterBracket(o, px, acc)
<1>1. e \in Order /\ SameOrder(o, e)
  BY EnterBracketType, EnterBracketSame
<1> HIDE DEF e
<1> QED
  BY <1>1 DEF EnterDeferred, e, Order, SameOrder

(* holding it or selling it:                                               *)
LEMMA HoldBracketSame ==
    ASSUME NEW o \in Order, NEW px \in Nat \ {0}, NEW acc \in Account
    PROVE  SameOrder(o, HoldBracket(o, px, acc))
<1> DEFINE t == IF o.trailing THEN Trail(o, px) ELSE o
<1>1. t \in Order /\ SameOrder(o, t)
  BY TrailType, TrailSame DEF SameOrder
<1> HIDE DEF t
<1>2. \A leg : SameOrder(t, FillExit(t, leg, px, acc))
  BY <1>1 DEF FillExit, Order, SameOrder
<1>3. SameOrder(o, SellManually(o, px, acc))
  BY DEF SellManually, Order, SameOrder
<1>4. HoldBracket(o, px, acc) \in
         {SellManually(o, px, acc), FillExit(t, "STOP", px, acc),
          FillExit(t, "PROFIT", px, acc), t}
  BY DEF HoldBracket, t
<1> QED
  BY <1>1, <1>2, <1>3, <1>4 DEF SameOrder

(* no poll of the simulated broker changes them,                           *)
LEMMA PollSame ==
    ASSUME NEW o \in Order, NEW px \in Nat, NEW op, NEW acc \in Account
    PROVE  SameOrder(o, PollBackend(o, px, op, acc))
<1>1. CASE px = NoPrice
  BY <1>1 DEF PollBackend, SameOrder
<1>2. CASE px # NoPrice
  <2>1. px \in Nat \ {0}
    BY <1>2 DEF NoPrice
  <2>2. PollBackend(o, px, op, acc) \in
          {o, ProcessMarket(o, px, acc), EnterDeferred(o, px, acc), HoldBracket(o, px, acc)}
    BY DEF PollBackend
  <2>3. SameOrder(o, o)
    BY DEF SameOrder
  <2> QED
    BY <2>1, <2>2, <2>3, ProcessMarketSame, EnterDeferredSame, HoldBracketSame
<1> QED
  BY <1>1, <1>2

(* and no submission.                                                      *)
LEMMA SubmitSame ==
    ASSUME NEW o \in Order, NEW px \in Nat, NEW op, NEW acc \in Account
    PROVE  SameOrder(o, SubmitBackend(o, px, op, acc))
<1>1. SameOrder(o, o)
  BY DEF SameOrder
<1> QED
  BY <1>1, ProcessMarketSame, EnterBracketSame DEF SubmitBackend, NoPrice
=============================================================================
