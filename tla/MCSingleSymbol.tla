--------------------------- MODULE MCSingleSymbol ---------------------------
(* SingleSymbolPortfolio on small instances. *)
EXTENDS SingleSymbolTrading

ThreePrices == {200, 300, 400}
=============================================================================
