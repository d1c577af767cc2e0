------------------------- MODULE MCPortfolioTrading -------------------------
(* Both portfolios on small instances.                                     *)
EXTENDS PortfolioTrading

ThreePrices == {200, 300, 400}
TwoPrices == {200, 400}
=============================================================================
