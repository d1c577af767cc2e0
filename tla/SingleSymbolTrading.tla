------------------------- MODULE SingleSymbolTrading -------------------------
(***************************************************************************)
(* SingleSymbolPortfolio trading through the pipeline of BacktestTrading:  *)
(* the whole cash goes into one bracket on a BUY signal, unless a position *)
(* or a bracket is already there; the bracket's own exits do the selling.  *)
(***************************************************************************)
EXTENDS BacktestTrading

CONSTANT Traded \* cfg["symbol"]

ASSUME SingleSymbolAssumption == Traded \in Symbols

BugSeesBoughtOnly(s) ==
    \E i \in pending : /\ Active(i) /\ orders[i].sym = s
                       /\ orders[i].status = "PENDING_SALE"

ActiveBracket(s) == \E i \in pending : Active(i) /\ orders[i].sym = s

(* No actionable signal, no bar, or something is already on. *)
NoEntry == RunStrategy({}, {}, [i \in {} |-> UnusedOrder(Traded)])

(* A BUY signal with a bar and nothing on: everything the cash affords, in *)
(* a bracket whose intended_entry_price stays 0.                           *)
EnterOnBuy(i) ==
    /\ IsFirst(i, Unused)
    /\ bar[Traded] # NoPrice
    /\ Traded \notin pf.held /\ ~ActiveBracket(Traded)
    /\ \E trailing \in BOOLEAN :
         RunStrategy({}, {},
           [k \in {i} |-> ConfiguredBracket(Traded, Affordable(pf.cash, bar[Traded]),
                                           bar[Traded], 0, trailing)])

SingleSymbolStrategy == NoEntry \/ \E i \in OrderId : EnterOnBuy(i)

SingleNext == Machinery \/ SingleSymbolStrategy

SingleSpec == Init /\ [][SingleNext]_vars

-----------------------------------------------------------------------------
(* Properties *)

(* No sequence of bars, gaps and closed markets makes the portfolio throw: *)
(* it never sells shares it does not have and never meets an order status  *)
(* it cannot handle, so a backtest runs to its end                         *)
(* (portfolio.py:369-374, 445, 475).                                       *)
NeverRaises == phase # "raised"

(* Between ticks the position and the open bracket are two views of the    *)
(* same shares: there is at most one bracket, it protects exactly the      *)
(* shares the portfolio holds, and nothing is held without one - although  *)
(* the entry may be clamped by cash while the exit legs keep the quantity  *)
(* that was asked for.                                                     *)
PositionIsBracket ==
    phase = "idle" =>
        \/ pending = {} /\ pf.held = {}
        \/ \E i \in pending :
              /\ pending = {i}
              /\ orders[i].type = "BRACKET" /\ orders[i].sym = Traded
              /\ \/ orders[i].status = "PENDING" /\ pf.held = {}
                 \/ /\ orders[i].status = "PENDING_SALE"
                    /\ pf.held = {Traded} /\ pf.qty[Traded] = orders[i].qty

(* A bracket sells exactly what it bought. *)
SellsWhatItBought ==
    \A i \in exits : orders[i].sold.qty = orders[i].qty

(* "Rescale bracket child prices to be relative to the actual fill price,  *)
(* correcting for any stale entry estimate" (backtesting_om.py:117-118): a *)
(* fixed bracket that has bought has its stop below its fill, also when it *)
(* waited overnight for the open.                                          *)
StopBelowEntry ==
    \A i \in pending :
        (orders[i].status = "PENDING_SALE" /\ ~orders[i].trailing)
            => orders[i].stop < orders[i].price
=============================================================================
