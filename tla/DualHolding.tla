----------------------------- MODULE DualHolding -----------------------------
(***************************************************************************)
(* DualSymbolTrading with a clock nobody in the code reads: how long each  *)
(* position has really been open.  The code keeps its own idea of that,    *)
(* _symbol_entry_time, which it writes and deletes in four places.         *)
(***************************************************************************)
EXTENDS DualSymbolTrading

VARIABLE heldFor \* time since the position was bought, NoEntryTime without one

HoldingInit == DualInit /\ heldFor = [s \in {Bull, Bear} |-> NoEntryTime]

(* Time only passes when a tick arrives; a position is opened and closed   *)
(* by the steps that apply orders to the account.  Here every tick carries *)
(* a bar of both symbols, so that gaps in the data play no part.           *)
HoldingNext ==
    \/ \E d \in 0..HoldingPeriod :
          /\ AnyTick /\ Elapse(d) /\ UNCHANGED <<target, switching>>
          /\ \A s \in Symbols : bar'[s] # NoPrice
          /\ heldFor' = [s \in {Bull, Bear} |->
                IF heldFor[s] = NoEntryTime THEN NoEntryTime
                ELSE Lesser(HoldingPeriod, heldFor[s] + d)]
    \/ /\ phase # "idle"
       /\ DualNext
       /\ heldFor' = [s \in {Bull, Bear} |->
             IF s \notin pf'.held THEN NoEntryTime
             ELSE IF s \notin pf.held THEN 0 ELSE heldFor[s]]

HoldingSpec == HoldingInit /\ [][HoldingNext]_<<vars, dualVars, heldFor>>

(* "Exit via manual sale ONLY if holding period elapsed"                   *)
(* (dual_symbol_switch_portfolio.py:134): whenever the strategy asks for a *)
(* manual sale the position has been open for the holding period.          *)
SwitchesOnlyAfterHolding ==
    [][\A i \in plan'.manual :
          phase = "strategy" => heldFor[orders[i].sym] >= HoldingPeriod]_plan
=============================================================================
