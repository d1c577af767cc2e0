--------------------------- MODULE BacktestLedger ---------------------------
(***************************************************************************)
(* The portfolio's account recomputed from the orders alone.  An order     *)
(* enters the ledger once per execution: a market order when it fills, a   *)
(* bracket when it buys and once more when it sells.                       *)
(***************************************************************************)
EXTENDS BacktestTrading, FiniteSets, Functions

ASSUME LedgerAssumption == IsFiniteSet(OrderId) \* the executions are counted

(* A bracket has bought as soon as it has a fill price, also when it was   *)
(* canceled afterwards.                                                    *)
BoughtBy(i) ==
    /\ i \in Known
    /\ IF orders[i].type = "BRACKET" THEN orders[i].price # NoPrice
       ELSE orders[i].action = "BUY" /\ orders[i].status = "FILLED"

SoldBy(i) == i \in Known /\ Sells(orders[i])

Executions == {<<i, "BUY">> : i \in {j \in OrderId : BoughtBy(j)}}
              \cup {<<i, "SELL">> : i \in {j \in OrderId : SoldBy(j)}}

QtyOf(o, side) == IF side = "BUY" THEN o.qty ELSE -SellOf(o).qty
PriceOf(o, side) == IF side = "BUY" THEN o.price ELSE SellOf(o).price
CostOf(o, side) == QtyOf(o, side) * PriceOf(o, side) + TxCost

(* What the executions of a set cost, and the shares of a symbol they add  *)
(* up to, when the orders are os.                                          *)
CashSpent(os, E) == SumFunction([e \in E |-> CostOf(os[e[1]], e[2])])
SharesTraded(os, E, s) ==
    SumFunction([e \in {x \in E : os[x[1]].sym = s} |-> QtyOf(os[e[1]], e[2])])

LedgerCash == InitialCash - CashSpent(orders, Executions)
LedgerShares(s) == SharesTraded(orders, Executions, s)

(* Every execution reaches the portfolio exactly once: between two ticks   *)
(* its cash and its positions are what the executed orders add up to, over *)
(* every interleaving of polls, manual sales, cancellations and immediate  *)
(* fills (portfolio.py:389-500).                                           *)
LedgerExact ==
    phase = "idle" => /\ pf.cash = LedgerCash
                      /\ \A s \in Symbols : Shares(pf, s) = LedgerShares(s)

(* A bracket entered on cash that is overdrawn by a share or more "buys" a *)
(* negative number of shares: its size is the truncated quotient of cash   *)
(* and price, and is only clamped from above (backtesting_om.py:113, 227). *)
(* Its exit buys them back, at whatever the price is by then.              *)
ShortSale(o) == /\ o.type = "BRACKET" /\ o.status # "FILLED"
                /\ o.price # NoPrice /\ o.qty < 0

BuysBack(o) == o.type = "BRACKET" /\ o.status = "FILLED" /\ o.sold.qty < 0

BoughtBack == \E i \in OrderId : BuysBack(orders[i])

(* Orders are sized against the cash that is really there: however many    *)
(* brackets wait for the same open, the account is overdrawn by no more    *)
(* than the commissions, which no sizing rule reserves                     *)
(* (backtesting_om.py:37, 113, 227).  A negative purchase does not change  *)
(* that; buying back what it sold short does.                              *)
OverdrawnByFeesOnly ==
    phase = "idle" => \/ pf.cash >= -(TxCost * Cardinality(Executions))
                      \/ BoughtBack

(* A position is short only while a bracket of its symbol holds a negative *)
(* purchase, and the first of those came after commissions that add up to  *)
(* the share it was priced at.  No exit leaves a short position behind,    *)
(* although what it sells is fixed on an earlier tick: every exit is       *)
(* clamped to the shares of the working snapshot                           *)
(* (backtesting_om.py:34-41, 58-69).                                       *)
ShortOnlyByFees ==
    phase = "idle" => \A s \in Symbols : Shares(pf, s) < 0 =>
        \E i \in OrderId :
            /\ i \in Known /\ ShortSale(orders[i]) /\ orders[i].sym = s
            /\ \/ orders[i].price <= TxCost * (Cardinality(Executions) - 1)
               \/ BoughtBack
=============================================================================
