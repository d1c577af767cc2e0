--------------------------- MODULE PortfolioTrading ---------------------------
(***************************************************************************)
(* The configuration names the class of the portfolio: SingleSymbol-       *)
(* Portfolio or DualSymbolSwitchPortfolio trades over the same pipeline,   *)
(* in one program or the other, never in both.                             *)
(***************************************************************************)
EXTENDS SingleSymbolTrading, DualSymbolTrading

CONSTANT DualPrices \* prices of the bars a DualSymbolSwitchPortfolio sees

ASSUME PortfolioAssumption == DualPrices \subseteq Prices

VARIABLE class \* the configured portfolio; never changes

portfolioVars == <<vars, dualVars, class>>

PortfolioInit == DualInit /\ class \in {"single", "dual"}

(* A portfolio for one symbol gets bars of that symbol only. *)
SingleStep ==
    /\ class = "single"
    /\ SingleNext
    /\ \A s \in Symbols \ {Traded} : bar'[s] = NoPrice
    /\ UNCHANGED <<dualVars, class>>

DualStep ==
    /\ class = "dual"
    /\ DualNext
    /\ \A s \in Symbols : bar'[s] \in DualPrices \cup {NoPrice}
    /\ UNCHANGED class

PortfolioNext == SingleStep \/ DualStep

PortfolioSpec == PortfolioInit /\ [][PortfolioNext]_portfolioVars

-----------------------------------------------------------------------------
(* Properties, beside NeverRaises, OneBracket and SwitchLeaves *)

(* Between ticks the position and the open brackets are two views of the   *)
(* same shares, and what a bracket has sold is what it had bought - in a   *)
(* portfolio that enters with all its cash and in one that switches.       *)
BracketsAreTheBooks ==
    IF class = "single" THEN PositionIsBracket /\ SellsWhatItBought
    ELSE DualPositionIsBracket
=============================================================================
