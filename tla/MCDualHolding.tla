---------------------------- MODULE MCDualHolding ----------------------------
(* The holding period of DualSymbolSwitchPortfolio on a small instance. *)
EXTENDS DualHolding

TwoPrices == {200, 400}
=============================================================================
