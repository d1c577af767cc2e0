-------------------------- MODULE MCBacktestTrading --------------------------
(* Instances of the trading pipeline for TLC. *)
EXTENDS BacktestLedger, TLC

Menu(kinds, qtys, intended) ==
    [kind : kinds, sym : Symbols, qty : qtys, intended : {intended}]

(* With a stop at 25% and a target at 50% a bracket bought at 200 is taken *)
(* at 300 and one bought at 300 is stopped at 200.  A trailing bracket     *)
(* priced at 300 that is filled at 200 keeps its target of 450, so its     *)
(* stop climbs from 150 to 225 before it sells at 200.                     *)
NearPrices == {200, 300}

(* Both kinds of bracket, and market orders, which compete with them for   *)
(* the same cash and sell a part of their shares.                          *)
MixedMenu == Menu({"FIXED"}, {2}, TRUE) \cup Menu({"TRAILING"}, {2}, FALSE)
             \cup Menu({"BUY", "SELL"}, {1}, TRUE)

(* A commission of 200 is the price of a share: an entry with all the cash *)
(* overdraws the account by one, and the next entry of the same tick buys  *)
(* a negative number of shares.                                            *)

(* The hypothesis of a theorem holds of the instance. *)
ASSUME InstanceAssumption == LevelsSurviveRounding

SymbolSymmetry == Permutations(Symbols)
=============================================================================
