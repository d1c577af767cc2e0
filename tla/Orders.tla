------------------------------- MODULE Orders -------------------------------
(***************************************************************************)
(* Orders, accounts and the pure part of the simulated broker: what one    *)
(* call of BacktestingOrderManager does to one order, and what one order   *)
(* does to an account (cash and positions).  An account is both the        *)
(* portfolio's own cash/positions and the OrderManager's working snapshot. *)
(* Prices and cash are integers (cents); a quantity is a whole number of   *)
(* shares.                                                                 *)
(***************************************************************************)
EXTENDS Integers

CONSTANTS
    Symbols,   \* the symbols of the data stream
    Prices,    \* closing prices a bar may carry
    StopPct,   \* distance of the stop-loss below the entry, in percent
    ProfitPct, \* distance of the profit-taker above the entry, in percent
    TxCost     \* the commission of every executed order

ASSUME OrdersAssumption ==
    /\ Prices \subseteq Nat \ {0}
    /\ StopPct \in 0..100
    /\ ProfitPct \in Nat
    /\ TxCost \in Nat

NoPrice == 0 \* a symbol without a bar on this tick, or never seen so far

OrderKind == {"NONE", "MARKET", "BRACKET"} \* NONE: an id nobody has used yet
Action == {"BUY", "SELL"}
Status == {"PENDING", "FILLED", "CANCELED", "PENDING_SALE"}
Terminal == {"FILLED", "CANCELED"}
Leg == {"NONE", "STOP", "PROFIT", "MANUAL"}

Exit == [leg : Leg, qty : Int, price : Int, status : Status]
NoExit == [leg |-> "NONE", qty |-> 0, price |-> NoPrice, status |-> "PENDING"]

(* qty is the order's own quantity, which a fill may clamp; legQty is the  *)
(* quantity of the STOP and PROFIT children, which no fill ever clamps.    *)
Order == [type : OrderKind, action : Action, sym : Symbols,
          qty : Int, legQty : Int, status : Status,
          price : Int,        \* fill price of the entry, NoPrice before it
          intended : Int,     \* intended_entry_price, 0 when never set
          stop : Int, profit : Int, trailing : BOOLEAN, hwm : Int,
          manual : BOOLEAN,   \* MANUAL_SALE
          sold : Exit,        \* SOLD_ORDER
          done : BOOLEAN]     \* processed_by_portfolio

(* held is the set of symbols with a Position object: a position of zero   *)
(* shares is not the same thing as no position.                            *)
Account == [cash : Int, held : SUBSET Symbols, qty : [Symbols -> Int]]

-----------------------------------------------------------------------------
(* Arithmetic *)

Lesser(a, b) == IF a <= b THEN a ELSE b
Greater(a, b) == IF a >= b THEN a ELSE b

(* Wrong variants of a definition, named Bug..., stand before it: the      *)
(* properties are shown to fail with them.                                 *)
BugRoundUp(cash, price) == (cash + price - 1) \div price
BugFloor(cash, price) == cash \div price

(* int(cash / price): Python truncates toward zero. *)
Affordable(cash, price) ==
    IF cash >= 0 THEN cash \div price ELSE -((-cash) \div price)

Rounded(a, b) == (2 * a + b) \div (2 * b) \* a / b to the nearest integer

StopOf(p) == Rounded(p * (100 - StopPct), 100)
ProfitOf(p) == Rounded(p * (100 + ProfitPct), 100)

-----------------------------------------------------------------------------
(* Creating orders *)

NewOrder(type, action, s, q) ==
    [type |-> type, action |-> action, sym |-> s, qty |-> q, legQty |-> q,
     status |-> "PENDING", price |-> NoPrice, intended |-> 0, stop |-> 0,
     profit |-> 0, trailing |-> FALSE, hwm |-> 0, manual |-> FALSE,
     sold |-> NoExit, done |-> FALSE]

MarketOrder(action, s, q) == NewOrder("MARKET", action, s, q)

(* create_configured_bracket_order: a bracket around the estimate `est`;   *)
(* `bar` is the symbol's bar of the tick it is created on.                 *)
FixedBracket(s, q, est, intended) ==
    [NewOrder("BRACKET", "BUY", s, q) EXCEPT
        !.stop = StopOf(est), !.profit = ProfitOf(est), !.intended = intended]

TrailingBracket(s, q, est, intended, bar) ==
    [NewOrder("BRACKET", "BUY", s, q) EXCEPT
        !.trailing = TRUE, !.hwm = bar,
        !.stop = IF bar = NoPrice THEN 0 ELSE StopOf(bar),
        !.profit = ProfitOf(est), !.intended = intended]

BugTrailDown(o, px) == [o EXCEPT !.hwm = px, !.stop = StopOf(px)]

(* update_trailing_stop: the high-water mark only rises; the stop follows. *)
Trail(o, px) ==
    LET top == IF o.hwm = NoPrice THEN px ELSE Greater(o.hwm, px)
    IN  [o EXCEPT !.hwm = top, !.stop = StopOf(top)]

-----------------------------------------------------------------------------
(* Positions *)

Shares(a, s) == IF s \in a.held THEN a.qty[s] ELSE 0

Bought(a, s, q, px) ==
    [cash |-> a.cash - px * q - TxCost,
     held |-> a.held \cup {s},
     qty |-> [a.qty EXCEPT ![s] = Shares(a, s) + q]]

Sold(a, s, q, px, closed) ==
    [cash |-> a.cash + px * q - TxCost,
     held |-> IF closed THEN a.held \ {s} ELSE a.held,
     qty |-> [a.qty EXCEPT ![s] = IF closed THEN 0 ELSE @ - q]]

-----------------------------------------------------------------------------
(* The simulated broker: what a bar does to one order.  px is the close of *)
(* the order's symbol, a the account the backend is handed.                *)

ProcessMarket(o, px, a) ==
    LET tx == IF o.action = "SELL" THEN Lesser(o.qty, Shares(a, o.sym))
              ELSE Lesser(o.qty, Affordable(a.cash, px))
    IN  [o EXCEPT !.qty = tx, !.price = px,
                  !.status = IF tx <= 0 THEN "CANCELED" ELSE "FILLED"]

(* Entry of a bracket on the bar it is submitted on. *)
EnterBracket(o, px, a) ==
    LET e == [o EXCEPT !.status = "PENDING_SALE", !.price = px,
                       !.qty = Lesser(@, Affordable(a.cash, px))]
    IN  IF o.trailing THEN Trail([e EXCEPT !.hwm = px], px) ELSE e

BugNoRescale(o, px, a) == EnterBracket(o, px, a)

(* Entry on a later bar: the children were priced around an estimate that  *)
(* may be stale and are moved to the fill.                                 *)
EnterDeferred(o, px, a) ==
    LET e == EnterBracket(o, px, a)
        Scaled(level) == Rounded(level * px, o.intended)
    IN  IF o.intended > 0 /\ px # o.intended
        THEN [e EXCEPT !.stop = IF o.trailing THEN @ ELSE Scaled(o.stop),
                       !.profit = Scaled(o.profit)]
        ELSE e

BugSellLegQty(o, leg, px, a) ==
    [o EXCEPT !.status = "FILLED", !.manual = FALSE,
              !.sold = [leg |-> leg, qty |-> o.legQty, price |-> px,
                        status |-> "FILLED"]]

FillExit(o, leg, px, a) ==
    [o EXCEPT !.status = "FILLED", !.manual = FALSE,
              !.sold = [leg |-> leg, qty |-> Lesser(o.legQty, Shares(a, o.sym)),
                        price |-> px, status |-> "FILLED"]]

(* MANUAL_SALE: a market order for the bracket's own quantity, filled now. *)
SellManually(o, px, a) ==
    LET mo == ProcessMarket(MarketOrder("SELL", o.sym, o.qty), px, a)
    IN  [o EXCEPT !.status = "FILLED",
                  !.sold = [leg |-> "MANUAL", qty |-> mo.qty,
                            price |-> px, status |-> mo.status]]

HoldBracket(o, px, a) ==
    LET t == IF o.trailing THEN Trail(o, px) ELSE o
    IN  IF o.manual THEN SellManually(o, px, a)
        ELSE IF px <= t.stop THEN FillExit(t, "STOP", px, a)
        ELSE IF px >= t.profit THEN FillExit(t, "PROFIT", px, a)
        ELSE t

(* A filled order, a symbol without a bar and a closed market leave the    *)
(* order as it is.                                                         *)
PollBackend(o, px, open, a) ==
    IF o.status = "FILLED" \/ px = NoPrice \/ ~open THEN o
    ELSE IF o.type = "MARKET" THEN ProcessMarket(o, px, a)
    ELSE IF o.status = "PENDING" THEN EnterDeferred(o, px, a)
    ELSE HoldBracket(o, px, a)

SubmitBackend(o, px, open, a) ==
    IF px = NoPrice \/ ~open THEN o
    ELSE IF o.type = "MARKET" THEN ProcessMarket(o, px, a)
    ELSE EnterBracket(o, px, a)

BugSnapshotBuysOnly(o, a) ==
    IF \/ o.type = "MARKET" /\ o.status = "FILLED" /\ o.action = "BUY"
       \/ o.type = "BRACKET" /\ o.status = "PENDING_SALE"
    THEN Bought(a, o.sym, o.qty, o.price) ELSE a

(* _apply_order_to_snapshot: the OrderManager's own idea of what the       *)
(* portfolio will look like once it has applied the order.                 *)
ApplyToSnapshot(o, a) ==
    LET SellSnapshot(q, px) ==
            IF o.sym \in a.held
            THEN Sold(a, o.sym, q, px, a.qty[o.sym] - q <= 0) ELSE a
    IN  CASE o.type = "MARKET" /\ o.status = "FILLED" /\ o.action = "BUY" ->
                Bought(a, o.sym, o.qty, o.price)
          [] o.type = "MARKET" /\ o.status = "FILLED" /\ o.action = "SELL" ->
                SellSnapshot(o.qty, o.price)
          [] o.type = "BRACKET" /\ o.status = "PENDING_SALE" ->
                Bought(a, o.sym, o.qty, o.price)
          [] o.type = "BRACKET" /\ o.status = "FILLED" /\ o.sold # NoExit ->
                SellSnapshot(o.sold.qty, o.sold.price)
          [] OTHER -> a
=============================================================================
