-------------------------- MODULE DualSymbolTrading --------------------------
(***************************************************************************)
(* DualSymbolSwitchPortfolio trading through the pipeline of               *)
(* BacktestTrading: it holds one of two symbols, leaves it by its bracket  *)
(* or, once a holding period is over, by a manual sale when the signal     *)
(* points at the other one, and remembers which symbol to enter next.      *)
(***************************************************************************)
EXTENDS BacktestTrading

CONSTANTS Bull, Bear,   \* upro_symbol, spxu_symbol
          HoldingPeriod,\* in units of time; an age stops counting there
          NoSymbol

ASSUME DualAssumption ==
    /\ Bull \in Symbols /\ Bear \in Symbols /\ Bull # Bear
    /\ HoldingPeriod \in Nat
    /\ NoSymbol \notin Symbols

VARIABLES
    target,    \* _pending_target
    switching, \* _pending_switch_state = "SWITCHING"
    age        \* time since _symbol_entry_time[s], NoEntryTime without one

dualVars == <<target, switching, age>>

NoEntryTime == -1

DualInit ==
    /\ Init
    /\ target = NoSymbol /\ switching = FALSE
    /\ age = [s \in {Bull, Bear} |-> NoEntryTime]

-----------------------------------------------------------------------------
Holds(s) == s \in pf.held /\ pf.qty[s] > 0

CurrentSymbol == IF Holds(Bull) THEN Bull ELSE IF Holds(Bear) THEN Bear ELSE NoSymbol

BugBoughtOnly(s) == {i \in pending : /\ Active(i) /\ orders[i].sym = s
                                     /\ orders[i].status = "PENDING_SALE"}

ActiveFor(s) == {i \in pending : Active(i) /\ orders[i].sym = s}

(* The entry time is noted on the first tick the position is seen. *)
Noted == [s \in {Bull, Bear} |->
            IF s = CurrentSymbol /\ age[s] = NoEntryTime THEN 0 ELSE age[s]]

HoldingOver(s) == Noted[s] = NoEntryTime \/ Noted[s] >= HoldingPeriod

Nothing == [i \in {} |-> UnusedOrder(Bull)]

Idle == RunStrategy({}, {}, Nothing)

(* int(cash * 0.99 / entry_price) *)
EntryQuantity(s) == Affordable(pf.cash * 99, GetPrice(s) * 100)

(* A bracket for s at the estimated price, or nothing when there is no     *)
(* price or no money; the clock starts now only if the entry fills now.    *)
(* Timestamps are in exchange time: the hour the portfolio reads off the   *)
(* tick and the one the OrderManager converts it to are the same.          *)
Enter(s) ==
    IF GetPrice(s) = NoPrice THEN Idle /\ age' = Noted
    ELSE IF EntryQuantity(s) <= 0 THEN Idle /\ age' = Noted
    ELSE \E i \in OrderId, trailing \in BOOLEAN :
           /\ IsFirst(i, Unused)
           /\ RunStrategy({}, {}, [k \in {i} |->
                 ConfiguredBracket(s, EntryQuantity(s), GetPrice(s), GetPrice(s), trailing)])
           /\ age' = IF open THEN [Noted EXCEPT ![s] = 0] ELSE Noted

(* No BUY signal on this tick. *)
NoTarget == Idle /\ age' = Noted /\ UNCHANGED <<target, switching>>

(* The old position is gone: execute the pending switch, whatever symbol   *)
(* today's signal asks for.                                                *)
ExecuteSwitch ==
    /\ switching /\ target # NoSymbol /\ CurrentSymbol = NoSymbol
    /\ IF ActiveFor(target) # {} THEN Idle /\ age' = Noted ELSE Enter(target)
    /\ target' = NoSymbol /\ switching' = FALSE

BugOwnBracketOnly(wanted) ==
    /\ ~(switching /\ target # NoSymbol) /\ CurrentSymbol = NoSymbol
    /\ IF ActiveFor(wanted) # {} THEN Idle /\ age' = Noted ELSE Enter(wanted)
    /\ UNCHANGED <<target, switching>>

(* Case A: nothing held, enter unless a bracket of either symbol is on. *)
EnterFresh(wanted) ==
    /\ ~(switching /\ target # NoSymbol) /\ CurrentSymbol = NoSymbol
    /\ IF ActiveFor(Bull) \cup ActiveFor(Bear) # {}
       THEN Idle /\ age' = Noted ELSE Enter(wanted)
    /\ UNCHANGED <<target, switching>>

(* Cases B and C while the holding period lasts or no bracket is found. *)
KeepHolding(wanted) ==
    /\ CurrentSymbol # NoSymbol
    /\ \/ CurrentSymbol = wanted
       \/ ~HoldingOver(CurrentSymbol)
       \/ ActiveFor(CurrentSymbol) = {}
    /\ NoTarget

BugSwitchToItself(wanted) ==
    /\ CurrentSymbol # NoSymbol
    /\ HoldingOver(CurrentSymbol)
    /\ \E i \in OrderId : /\ IsFirst(i, ActiveFor(CurrentSymbol))
                          /\ RunStrategy({i}, {}, Nothing)
    /\ target' = wanted /\ switching' = TRUE
    /\ age' = [Noted EXCEPT ![CurrentSymbol] = NoEntryTime]

(* Case C: ask for a manual sale and queue the other symbol. *)
StartSwitch(wanted) ==
    /\ CurrentSymbol \notin {NoSymbol, wanted}
    /\ HoldingOver(CurrentSymbol)
    /\ \E i \in OrderId : /\ IsFirst(i, ActiveFor(CurrentSymbol))
                          /\ RunStrategy({i}, {}, Nothing)
    /\ target' = wanted /\ switching' = TRUE
    /\ age' = [Noted EXCEPT ![CurrentSymbol] = NoEntryTime]

DualStrategy ==
    \/ NoTarget
    \/ ExecuteSwitch
    \/ \E wanted \in {Bull, Bear} :
          EnterFresh(wanted) \/ KeepHolding(wanted) \/ StartSwitch(wanted)

(* Time passes between ticks; ages saturate at the holding period. *)
Elapse(d) == age' = [s \in {Bull, Bear} |->
                IF age[s] = NoEntryTime THEN NoEntryTime
                ELSE Lesser(HoldingPeriod, age[s] + d)]

DualNext ==
    \/ /\ AnyTick
       /\ \E d \in 0..HoldingPeriod : Elapse(d)
       /\ UNCHANGED <<target, switching>>
    \/ /\ Machinery /\ phase # "idle" /\ UNCHANGED dualVars
    \/ DualStrategy

DualSpec == DualInit /\ [][DualNext]_<<vars, dualVars>>

-----------------------------------------------------------------------------
(* Properties *)

(* The double buy the code guards against (dual_symbol_switch_portfolio.py *)
(* :221-228): two brackets waiting for the same open, each sized with the  *)
(* whole cash.  At any moment at most one bracket is on, over both symbols *)
(* and however switches, gaps and closed markets interleave.               *)
OneBracket ==
    \A i, j \in pending : Active(i) /\ Active(j) => i = j

(* Between ticks it holds at most one of the two symbols, and exactly the  *)
(* shares of its open bracket.                                             *)
DualPositionIsBracket ==
    phase = "idle" =>
        \A s \in {Bull, Bear} :
            IF \E i \in ActiveFor(s) : orders[i].status = "PENDING_SALE"
            THEN \E i \in ActiveFor(s) : pf.qty[s] = orders[i].qty
            ELSE s \notin pf.held

(* A switch is only ever pending for the symbol that is not held. *)
SwitchLeaves == switching => target \in {Bull, Bear} \ {CurrentSymbol}
=============================================================================
