------------------------------ MODULE AlpacaLive ------------------------------
(***************************************************************************)
(* One Portfolio trading one symbol through an AlpacaOrderManager.  The    *)
(* broker works on its own: it fills, ends and expires orders between any  *)
(* two calls the program makes, so every call over HTTP is a step here:    *)
(*                                                                         *)
(*   idle -> poll -> apply -> (account -> list -> orders ->) strategy ->   *)
(*   manual -> applySold -> cancel -> submit -> idle                       *)
(*                                                                         *)
(* An exception aborts the tick; the engine logs it and the next tick      *)
(* starts afresh.  Prices and cash are left out, and every order is for    *)
(* one lot.  An order has the same id here and at the broker, where the    *)
(* code keeps a map; ids are given in submission order, which is the order *)
(* of the dictionaries.                                                    *)
(***************************************************************************)
EXTENDS Integers, FiniteSets

CONSTANTS
    OrderId,      \* 1..n; bounds the orders of a run
    Menu,         \* kinds of order the strategy may ask for
    SyncInterval, \* ticks between two synchronisations, 0 for none
    SyncOrders,   \* order_sync_limit > 0
    MaxFailures,  \* bounds the calls that fail although the broker could serve them
    MaxRestarts   \* bounds the crashes of the program

ASSUME LiveAssumption ==
    /\ OrderId \subseteq Nat \ {0} /\ IsFiniteSet(OrderId)
    /\ Menu \subseteq {"BUY", "SELL", "BRACKET"}
    /\ SyncInterval \in Nat /\ SyncOrders \in BOOLEAN
    /\ MaxFailures \in Nat /\ MaxRestarts \in Nat

VARIABLES
    remote,   \* the broker's orders
    shares,   \* the broker's position
    orders,   \* _all_orders
    pending,  \* _pending_orders_by_id
    filled,   \* _filled_orders_by_id
    pos,      \* the portfolio's position
    phase,    \* where process_market_signals_for_tick is
    boot,     \* the synchronisation is the one before the stream starts
    todo,     \* ids the current loop has not visited yet
    changed,  \* ids the current loop found changed
    selling,  \* bracket whose manual sale is between cancel and submit, or None
    wishes,   \* TickResults: what the strategy has asked for
    ticks,    \* _tick_count modulo SyncInterval
    failures, restarts,
    mishap    \* history: did the position miss or repeat an execution

brokerVars == <<remote, shares>>
bookVars == <<orders, pending, filled>>
loopVars == <<todo, changed, selling>>
boundVars == <<failures, restarts>>
vars == <<brokerVars, bookVars, pos, phase, boot, loopVars, wishes, ticks,
          boundVars, mishap>>

None == 0
Kind == {"NONE", "BUY", "SELL", "BRACKET"} \* NONE: an id nobody has used
Status == {"PENDING", "FILLED", "CANCELED", "PENDING_SALE"}
Remote == [kind : Kind,
           status : {"open", "filled", "canceled",
                     "partial"}, \* canceled after a part of it was filled
           legs : {"none", "open", "filled", "canceled"}]
Local == [kind : Kind, status : Status,
          manual : BOOLEAN,              \* MANUAL_SALE
          child : OrderId \cup {None},   \* the MANUAL_ORDER child
          sold : {"NONE", "LEG", "MANUAL"}, \* SOLD_ORDER
          done : BOOLEAN]                \* processed_by_portfolio
Phase == {"idle", "poll", "apply", "account", "list", "orders", "strategy", "manual",
          "applySold", "cancel", "submit"}

NoRemote == [kind |-> "NONE", status |-> "open", legs |-> "none"]
LocalOrder(kind, status, sold) ==
    [kind |-> kind, status |-> status, manual |-> FALSE, child |-> None,
     sold |-> sold, done |-> FALSE]
NoLocal == LocalOrder("NONE", "PENDING", "NONE")
NoWishes == [sale |-> {}, cancel |-> {}, new |-> {}]

IsFirst(i, S) == i \in S /\ \A j \in S : i <= j
Terminal == {"FILLED", "CANCELED"}
Over(os, S) == {i \in S : os[i].status \in Terminal}

Init ==
    /\ remote = [i \in OrderId |-> NoRemote] /\ shares = 0
    /\ orders = [i \in OrderId |-> NoLocal] /\ pending = {} /\ filled = {}
    /\ pos = 0
    /\ phase = "account" /\ boot = TRUE
    /\ todo = {} /\ changed = {} /\ selling = None
    /\ wishes = NoWishes
    /\ ticks = 0 /\ failures = 0 /\ restarts = 0 /\ mishap = FALSE

-----------------------------------------------------------------------------
(* The broker.  A lot that an open sale or an open exit leg holds cannot   *)
(* be sold a second time.                                                  *)

Held == {i \in OrderId : \/ remote[i].kind = "SELL" /\ remote[i].status = "open"
                         \/ remote[i].legs = "open"}
Available == shares - Cardinality(Held)
FreeIds == {i \in OrderId : remote[i].kind = "NONE"}

Programs == <<bookVars, pos, phase, boot, loopVars, wishes, ticks, boundVars>>

BrokerFills(i) ==
    /\ remote[i].kind # "NONE" /\ remote[i].status = "open"
    /\ remote' = [remote EXCEPT ![i].status = "filled",
                                ![i].legs = IF remote[i].kind = "BRACKET"
                                            THEN "open" ELSE "none"]
    /\ shares' = IF remote[i].kind = "SELL" THEN shares - 1 ELSE shares + 1
    /\ UNCHANGED <<Programs, mishap>>

EndedAs(r, status) ==
    [r EXCEPT !.status = IF @ = "open" THEN status ELSE @,
              !.legs = IF @ = "open" \/ (r.kind = "BRACKET" /\ r.status = "open")
                       THEN "canceled" ELSE @]

Ended(r) == EndedAs(r, "canceled")

(* Rejected, expired or canceled at the broker; a buy may have been filled *)
(* in part before.                                                         *)
BrokerEnds(i, status) ==
    /\ remote[i].kind # "NONE" /\ remote[i].status = "open"
    /\ remote[i].kind = "SELL" => status = "canceled"
    /\ remote' = [remote EXCEPT ![i] = EndedAs(@, status)]
    /\ shares' = IF status = "partial" THEN shares + 1 ELSE shares
    /\ UNCHANGED <<Programs, mishap>>

LegFills(i) ==
    /\ remote[i].legs = "open"
    /\ remote' = [remote EXCEPT ![i].legs = "filled"]
    /\ shares' = shares - 1
    /\ UNCHANGED <<Programs, mishap>>

LegsExpire(i) ==
    /\ remote[i].legs = "open"
    /\ remote' = [remote EXCEPT ![i] = Ended(@)]
    /\ UNCHANGED <<shares, Programs, mishap>>

Broker == \E i \in OrderId :
    \/ BrokerFills(i)
    \/ \E status \in {"canceled", "partial"} : BrokerEnds(i, status)
    \/ LegFills(i)
    \/ LegsExpire(i)

-----------------------------------------------------------------------------
(* What a poll makes of an order, given the broker's record of it.         *)

(* Wrong variants, named Bug..., stand before a definition: the properties *)
(* are shown to fail with them.                                            *)
BugPolledRaw(o, r) ==
    [o EXCEPT !.status = IF r.status = "filled" THEN "FILLED" ELSE r.status]

PolledMarket(o, r) ==
    [o EXCEPT !.status = CASE r.status = "filled" -> "FILLED"
                           [] r.status \in {"canceled", "partial"} -> "CANCELED"
                           [] OTHER -> "PENDING"]

BugEnteredByLegs(o, r) ==
    IF r.legs = "filled" THEN [o EXCEPT !.status = "FILLED", !.sold = "LEG"]
    ELSE IF r.legs = "open" /\ o.status = "PENDING"
         THEN [o EXCEPT !.status = "PENDING_SALE"]
    ELSE IF o.status = "PENDING" /\ r.status = "canceled"
         THEN [o EXCEPT !.status = "CANCELED"] ELSE o

PolledBracket(o, r) ==
    LET entered == IF r.status = "filled" /\ o.status = "PENDING"
                   THEN "PENDING_SALE" ELSE o.status
    IN  IF r.legs = "filled" THEN [o EXCEPT !.status = "FILLED", !.sold = "LEG"]
        ELSE [o EXCEPT !.status =
                 IF entered # "PENDING_SALE" /\ r.status \in {"canceled", "partial"}
                 THEN "CANCELED" ELSE entered]

Polled(o, r) == IF o.kind = "BRACKET" THEN PolledBracket(o, r)
                ELSE PolledMarket(o, r)

(* What the synchronisation makes of an order it did not know.             *)
Created(r) ==
    CASE r.kind = "NONE" -> NoLocal
      [] r.kind = "BRACKET" /\ r.legs = "filled" ->
            LocalOrder("BRACKET", "FILLED", "LEG")
      [] r.kind = "BRACKET" /\ r.legs = "canceled" ->
            LocalOrder("BRACKET", "FILLED", "NONE")
      [] r.kind = "BRACKET" /\ r.legs \in {"none", "open"} ->
            LocalOrder("BRACKET",
                       IF r.status = "filled" THEN "PENDING_SALE" ELSE "PENDING",
                       "NONE")
      [] OTHER -> PolledMarket(LocalOrder(r.kind, "PENDING", "NONE"), r)

(* _update_all_order_lists / _update_order_lists over S: a manual sale is  *)
(* registered as filled with its bracket.                                  *)
Refile(S, os) ==
    LET over == Over(os, S \cap pending)
    IN  /\ pending' = pending \ over
        /\ filled' = filled \cup over \cup
               {os[i].child : i \in {j \in over : os[j].status = "FILLED"
                                                 /\ os[j].sold = "MANUAL"}}

(* The position that the orders, as the program knows them, add up to.  A  *)
(* bracket sold by hand is over when its market order is.                  *)
Net(os) ==
    LET bought == {i \in OrderId :
            \/ os[i].kind = "BUY" /\ os[i].status = "FILLED"
            \/ os[i].kind = "BRACKET" /\ os[i].status = "PENDING_SALE"
            \/ os[i].kind = "BRACKET" /\ os[i].status \in Terminal
               /\ os[i].sold = "MANUAL"}
        sold == {i \in OrderId : os[i].kind = "SELL" /\ os[i].status = "FILLED"}
    IN  Cardinality(bought) - Cardinality(sold)

(* The ways in which the portfolio may miss or repeat an execution, noted  *)
(* in mishap: entry and exit are found by one poll; the synchronisation    *)
(* finds a fill, which nobody then applies; a manual sale is found filled  *)
(* by its own poll, and again by its bracket's.                            *)
Skipped(i, os) == /\ os[i].kind = "BRACKET" /\ os[i].status = "FILLED"
                  /\ orders[i].status = "PENDING"
Swallowed(os) == phase = "orders" /\ Net(os) # Net(orders)
Repeated(i, os) == /\ phase # "orders" /\ os[i].status = "FILLED"
                   /\ orders[orders[i].child].status = "FILLED"

-----------------------------------------------------------------------------
(* A tick: poll every pending order.                                       *)

Tick ==
    /\ phase = "idle"
    /\ phase' = "poll"
    /\ todo' = pending /\ changed' = {}
    /\ UNCHANGED <<brokerVars, bookVars, pos, boot, selling, wishes, ticks,
                   boundVars, mishap>>

(* Three callers refresh an order: the poll, a manual sale and the         *)
(* synchronisation.  The last two refile it at once; a sale is applied if  *)
(* the bracket is FILLED, the synchronisation applies nothing.             *)
Refreshing(i) == /\ phase \in {"poll", "manual", "orders"}
                 /\ selling = None /\ IsFirst(i, todo)

BugSaleNotApplied(i, os) ==
    /\ orders' = os
    /\ todo' = todo \ {i}
    /\ changed' = IF phase = "poll" /\ os[i].status # orders[i].status
                  THEN changed \cup {i} ELSE changed
    /\ IF phase = "poll" THEN UNCHANGED <<pending, filled>> ELSE Refile({i}, os)
    /\ UNCHANGED <<pos, phase, boot, wishes, ticks, restarts>>

Refreshed(i, os) ==
    /\ orders' = os
    /\ todo' = todo \ {i}
    /\ changed' = IF \/ phase = "poll" /\ os[i].status # orders[i].status
                     \/ phase = "manual" /\ os[i].status = "FILLED"
                  THEN changed \cup {i} ELSE changed
    /\ IF phase = "poll" THEN UNCHANGED <<pending, filled>> ELSE Refile({i}, os)
    /\ UNCHANGED <<pos, phase, boot, wishes, ticks, restarts>>

InSale(o) == o.kind = "BRACKET" /\ o.status = "PENDING_SALE" /\ o.manual

Refresh(i) ==
    /\ Refreshing(i) /\ ~InSale(orders[i])
    /\ LET os == [orders EXCEPT ![i] = Polled(@, remote[i])]
       IN  /\ Refreshed(i, os)
           /\ mishap' = (mishap \/ Skipped(i, os) \/ Swallowed(os))
    /\ UNCHANGED <<brokerVars, selling, failures>>

FetchFails(i) ==
    /\ Refreshing(i) /\ failures < MaxFailures
    /\ failures' = failures + 1
    /\ Refreshed(i, orders)
    /\ UNCHANGED <<brokerVars, selling, mishap>>

(* Manual sale, phase 1: cancel the exit legs, which may not work, ...     *)
CancelLegs(i) ==
    /\ Refreshing(i) /\ InSale(orders[i]) /\ orders[i].child = None
    /\ \E r \in {remote[i], Ended(remote[i])} : remote' = [remote EXCEPT ![i] = r]
    /\ selling' = i
    /\ UNCHANGED <<shares, bookVars, pos, phase, boot, todo, changed, wishes,
                   ticks, boundVars, mishap>>

(* ... then sell at the market.                                            *)
SendSale(n) ==
    /\ selling # None /\ IsFirst(n, FreeIds) /\ Available > 0
    /\ remote' = [remote EXCEPT ![n] = [NoRemote EXCEPT !.kind = "SELL"]]
    /\ selling' = None

BugSaleUnfiled(n) ==
    /\ SendSale(n)
    /\ orders' = [orders EXCEPT ![n] = LocalOrder("SELL", "PENDING", "NONE"),
                                ![selling].child = n,
                                ![selling].sold = "MANUAL"]
    /\ todo' = todo \ {selling}
    /\ UNCHANGED <<shares, pending, filled, pos, phase, boot, changed, wishes,
                   ticks, boundVars, mishap>>

SaleAccepted(n) ==
    /\ SendSale(n)
    /\ orders' = [orders EXCEPT ![n] = LocalOrder("SELL", "PENDING", "NONE"),
                                ![selling].child = n,
                                ![selling].sold = "MANUAL"]
    /\ pending' = pending \cup {n}
    /\ todo' = todo \ {selling}
    /\ UNCHANGED <<shares, filled, pos, phase, boot, changed, wishes, ticks,
                   boundVars, mishap>>

(* The answer to an accepted sale is lost: the program does not know it.   *)
SaleLost(n) ==
    /\ SendSale(n) /\ failures < MaxFailures
    /\ failures' = failures + 1
    /\ todo' = todo \ {selling}
    /\ UNCHANGED <<shares, bookVars, pos, phase, boot, changed, wishes, ticks,
                   restarts, mishap>>

(* The exception is swallowed; the next poll sends the sale again.         *)
SaleRefused ==
    /\ selling # None
    /\ IF Available > 0 /\ FreeIds # {}
       THEN failures < MaxFailures /\ failures' = failures + 1
       ELSE UNCHANGED failures
    /\ selling' = None
    /\ todo' = todo \ {selling}
    /\ UNCHANGED <<brokerVars, bookVars, pos, phase, boot, changed, wishes,
                   ticks, restarts, mishap>>

BugFollowsAlways(i) ==
    LET c == orders[i].child
        status == PolledMarket(orders[c], remote[c]).status
        os == [orders EXCEPT ![i].status = status, ![c].status = status]
    IN  /\ Refreshing(i) /\ InSale(orders[i]) /\ c # None
        /\ Refreshed(i, os)
        /\ mishap' = (mishap \/ Repeated(i, os) \/ Swallowed(os))
        /\ UNCHANGED <<brokerVars, selling, failures>>

(* Manual sale, phase 2: the bracket follows its market order.             *)
PollSale(i) ==
    LET c == orders[i].child
        status == PolledMarket(orders[c], remote[c]).status
    IN  /\ Refreshing(i) /\ InSale(orders[i]) /\ c # None
        /\ LET os == IF status = "PENDING" THEN orders
                     ELSE [orders EXCEPT ![i].status = status, ![c].status = status]
           IN  /\ Refreshed(i, os)
               /\ mishap' = (mishap \/ Repeated(i, os) \/ Swallowed(os))
        /\ UNCHANGED <<brokerVars, selling, failures>>

PollDone ==
    /\ phase = "poll" /\ todo = {} /\ selling = None
    /\ Refile(pending, orders)
    /\ todo' = changed /\ changed' = {}
    /\ phase' = "apply"
    /\ UNCHANGED <<brokerVars, orders, pos, boot, selling, wishes, ticks,
                   boundVars, mishap>>

-----------------------------------------------------------------------------
(* _update_pf_from_order.  Raises(o) is the exception it would throw.      *)

Buys(o) == \/ o.kind = "BUY" /\ o.status = "FILLED"
           \/ o.kind = "BRACKET" /\ o.status = "PENDING_SALE"
Sells(o) == o.kind \in {"SELL", "BRACKET"} /\ o.status = "FILLED"
Unhandled(o) == \/ o.kind = "BRACKET" /\ o.status \in {"PENDING", "CANCELED"}
                \/ o.kind # "BRACKET" /\ o.status = "PENDING"
Raises(o) == ~o.done /\ \/ Unhandled(o)
                        \/ Sells(o) /\ pos = 0
                        \/ o.kind = "BRACKET" /\ Sells(o) /\ o.sold = "NONE"

(* A bracket's own flag stays down; applying its sale marks the order that *)
(* sold it.                                                                *)
Marked(i) ==
    IF orders[i].kind # "BRACKET" THEN {i}
    ELSE IF orders[i].status = "FILLED" /\ orders[i].sold = "MANUAL"
         THEN {orders[i].child} ELSE {}

Applying(i) == phase \in {"apply", "applySold"} /\ IsFirst(i, todo)

Apply(i) ==
    /\ Applying(i) /\ ~Raises(orders[i])
    /\ IF orders[i].done THEN UNCHANGED <<pos, orders>>
       ELSE /\ pos' = IF Buys(orders[i]) THEN pos + 1
                      ELSE IF Sells(orders[i]) THEN pos - 1 ELSE pos
            /\ orders' = [j \in OrderId |-> [orders[j] EXCEPT
                             !.done = @ \/ j \in Marked(i)]]
    /\ todo' = todo \ {i}
    /\ UNCHANGED <<brokerVars, pending, filled, phase, boot, changed, selling,
                   wishes, ticks, boundVars, mishap>>

(* The rest of the loop, and of the tick, is not done. *)
Abort ==
    /\ phase' = "idle"
    /\ todo' = {} /\ changed' = {} /\ wishes' = NoWishes
    /\ UNCHANGED <<selling, boot>>

ApplyRaises(i) ==
    /\ Applying(i) /\ Raises(orders[i])
    /\ mishap' = (mishap \/ todo # {i} \/ Sells(orders[i]))
    /\ Abort
    /\ UNCHANGED <<brokerVars, bookVars, pos, ticks, boundVars>>

SyncDue == SyncInterval > 0 /\ (ticks + 1) % SyncInterval = 0

ApplyDone ==
    /\ phase = "apply" /\ todo = {}
    /\ ticks' = IF SyncInterval > 0 THEN (ticks + 1) % SyncInterval ELSE 0
    /\ phase' = IF SyncDue THEN "account" ELSE "strategy"
    /\ UNCHANGED <<brokerVars, bookVars, pos, boot, loopVars, wishes, boundVars,
                   mishap>>

-----------------------------------------------------------------------------
(* Synchronisation with the broker, on some ticks and before the stream    *)
(* starts: first the account, then the orders.                             *)

AfterSync == IF boot THEN "idle" ELSE "strategy"

BugKeepsClosed ==
    /\ phase = "account"
    /\ pos' = IF shares = 0 THEN pos ELSE shares
    /\ mishap' = (shares # Net(orders))
    /\ phase' = IF SyncOrders \/ boot THEN "list" ELSE AfterSync
    /\ UNCHANGED <<brokerVars, bookVars, boot, loopVars, wishes, ticks, boundVars>>

SyncAccount ==
    /\ phase = "account"
    /\ \/ pos' = shares /\ mishap' = (shares # Net(orders)) /\ UNCHANGED failures
       \/ /\ failures < MaxFailures /\ failures' = failures + 1
          /\ UNCHANGED <<pos, mishap>>
    /\ phase' = IF SyncOrders \/ boot THEN "list" ELSE AfterSync
    /\ UNCHANGED <<brokerVars, bookVars, boot, loopVars, wishes, ticks, restarts>>

(* Orders of an earlier session, or with a lost answer, are created from   *)
(* the list; the known ones are polled one by one.                         *)
ListOrders ==
    /\ phase = "list"
    /\ LET new == {i \in OrderId : remote[i].kind # "NONE" /\ orders[i].kind = "NONE"}
           os == [i \in OrderId |-> IF i \in new THEN Created(remote[i]) ELSE orders[i]]
       IN  /\ orders' = os
           /\ pending' = pending \cup (new \ Over(os, new))
           /\ filled' = filled \cup Over(os, new)
           /\ mishap' = (mishap \/ Net(os) # Net(orders))
           /\ todo' = {i \in OrderId : orders[i].kind # "NONE"}
    /\ phase' = "orders"
    /\ UNCHANGED <<brokerVars, pos, boot, changed, selling, wishes, ticks,
                   boundVars>>

ListFails ==
    /\ phase = "list" /\ failures < MaxFailures
    /\ failures' = failures + 1
    /\ phase' = AfterSync /\ boot' = FALSE
    /\ UNCHANGED <<brokerVars, bookVars, pos, loopVars, wishes, ticks, restarts,
                   mishap>>

SyncDone ==
    /\ phase = "orders" /\ todo = {} /\ selling = None
    /\ phase' = AfterSync /\ boot' = FALSE
    /\ UNCHANGED <<brokerVars, bookVars, pos, loopVars, wishes, ticks, boundVars,
                   mishap>>

-----------------------------------------------------------------------------
(* Any strategy: sell an open bracket by hand, cancel a type, order one    *)
(* thing from the menu.  A sale is ordered of what the portfolio holds.    *)

Strategy ==
    /\ phase = "strategy"
    /\ \E sale \in {{}} \cup {{i} : i \in {j \in pending :
                            orders[j].kind = "BRACKET" /\ orders[j].status = "PENDING_SALE"}},
          cancel \in {{}, {"BUY", "SELL"}, {"BRACKET"}},
          new \in {{}} \cup {{k} : k \in Menu} :
          /\ new = {"SELL"} => pos > 0
          /\ new # {} => FreeIds # {}
          /\ wishes' = [sale |-> sale, cancel |-> cancel, new |-> new]
          /\ orders' = [i \in OrderId |->
                          [orders[i] EXCEPT !.manual = @ \/ i \in sale]]
          /\ todo' = sale
    /\ changed' = {}
    /\ phase' = "manual"
    /\ UNCHANGED <<brokerVars, pending, filled, pos, boot, selling, ticks,
                   boundVars, mishap>>

ManualDone ==
    /\ phase = "manual" /\ todo = {} /\ selling = None
    /\ todo' = changed /\ changed' = {}
    /\ phase' = "applySold"
    /\ UNCHANGED <<brokerVars, bookVars, pos, boot, selling, wishes, ticks,
                   boundVars, mishap>>

SoldDone ==
    /\ phase = "applySold" /\ todo = {}
    /\ todo' = {i \in pending : orders[i].kind \in wishes.cancel}
    /\ phase' = "cancel"
    /\ UNCHANGED <<brokerVars, bookVars, pos, boot, changed, selling, wishes,
                   ticks, boundVars, mishap>>

(* _cancel_order asks the broker, which may refuse, and leaves the local   *)
(* status to the next poll.                                                *)
Cancel(i) ==
    /\ phase = "cancel" /\ IsFirst(i, todo)
    /\ \E r \in {remote[i], Ended(remote[i])} : remote' = [remote EXCEPT ![i] = r]
    /\ Refile(pending, orders)
    /\ todo' = todo \ {i}
    /\ UNCHANGED <<shares, orders, pos, phase, boot, changed, selling, wishes,
                   ticks, boundVars, mishap>>

CancelDone ==
    /\ phase = "cancel" /\ todo = {}
    /\ phase' = "submit"
    /\ UNCHANGED <<brokerVars, bookVars, pos, boot, loopVars, wishes, ticks,
                   boundVars, mishap>>

Accept(n, k) ==
    /\ phase = "submit" /\ k \in wishes.new /\ IsFirst(n, FreeIds)
    /\ k = "SELL" => Available > 0
    /\ remote' = [remote EXCEPT ![n] = [NoRemote EXCEPT !.kind = k]]

Submit(n, k) ==
    /\ Accept(n, k)
    /\ orders' = [orders EXCEPT ![n] = LocalOrder(k, "PENDING", "NONE")]
    /\ pending' = pending \cup {n}
    /\ wishes' = NoWishes
    /\ UNCHANGED <<shares, filled, pos, phase, boot, loopVars, ticks, boundVars,
                   mishap>>

(* Refused by the broker, which it may do to any order, or accepted with   *)
(* the answer lost: the exception leaves the portfolio either way.         *)
SubmitRaises ==
    /\ phase = "submit" /\ wishes.new # {}
    /\ \/ UNCHANGED <<remote, failures>>
       \/ /\ failures < MaxFailures /\ failures' = failures + 1
          /\ \E n \in FreeIds, k \in Menu : Accept(n, k)
    /\ Abort
    /\ UNCHANGED <<shares, bookVars, pos, ticks, restarts, mishap>>

TickDone ==
    /\ phase = "submit" /\ wishes.new = {}
    /\ phase' = "idle" /\ wishes' = NoWishes
    /\ UNCHANGED <<brokerVars, bookVars, pos, boot, loopVars, ticks, boundVars,
                   mishap>>

-----------------------------------------------------------------------------
(* The process dies and is started again: nothing local survives.          *)
Restart ==
    /\ restarts < MaxRestarts /\ restarts' = restarts + 1
    /\ orders' = [i \in OrderId |-> NoLocal] /\ pending' = {} /\ filled' = {}
    /\ pos' = 0
    /\ phase' = "account" /\ boot' = TRUE
    /\ todo' = {} /\ changed' = {} /\ selling' = None /\ wishes' = NoWishes
    /\ ticks' = 0
    /\ mishap' = (shares # 0)
    /\ UNCHANGED <<brokerVars, failures>>

Step ==
    \/ \E i \in OrderId :
          \/ Refresh(i) \/ FetchFails(i) \/ CancelLegs(i) \/ PollSale(i)
          \/ SaleAccepted(i) \/ SaleLost(i)
          \/ Apply(i) \/ ApplyRaises(i) \/ Cancel(i)
          \/ \E k \in Menu : Submit(i, k)
    \/ SaleRefused \/ PollDone \/ ApplyDone
    \/ SyncAccount \/ ListOrders \/ ListFails \/ SyncDone
    \/ Strategy \/ ManualDone \/ SoldDone \/ CancelDone \/ SubmitRaises \/ TickDone

Next == Tick \/ Step \/ Restart \/ Broker

(* The program runs on and bars keep coming; the broker owes nothing.      *)
Fairness == WF_vars(Tick) /\ WF_vars(Step)
Spec == Init /\ [][Next]_vars /\ Fairness

-----------------------------------------------------------------------------
(* Every variable has its type. *)
TypeOK ==
    /\ remote \in [OrderId -> Remote] /\ shares \in Int
    /\ orders \in [OrderId -> Local]
    /\ pending \subseteq OrderId /\ filled \subseteq OrderId
    /\ pos \in Int /\ phase \in Phase /\ boot \in BOOLEAN
    /\ todo \subseteq OrderId /\ changed \subseteq OrderId
    /\ selling \in OrderId \cup {None}

(* Nothing is forgotten: an order that is not over is polled again on the  *)
(* next tick, whatever failed, raised or restarted before.                 *)
NoneForgotten ==
    \A i \in OrderId : orders[i].kind # "NONE" =>
        i \in pending \/ (i \in filled /\ orders[i].status \in Terminal)

(* All legs expired: the synchronisation calls the bracket FILLED.         *)
ClosedUnsold(o) == o.kind = "BRACKET" /\ o.status = "FILLED" /\ o.sold = "NONE"

UpToDate(i) ==
    LET o == orders[i]
        c == orders[o.child]
    IN  /\ o.kind = remote[i].kind
        /\ ~ClosedUnsold(o) /\ remote[i].status # "partial"
        /\ o.kind # "NONE" =>
              IF ~InSale(o) THEN Polled(o, remote[i]) = o
              ELSE /\ remote[i].legs # "filled"
                   /\ o.child # None => PolledMarket(c, remote[o.child]) = c

(* Between two ticks the portfolio holds what its orders add up to, and    *)
(* once every order has been seen in its last state, what the broker       *)
(* holds: over lost answers, refusals, races of cancellations with fills,  *)
(* and restarts.  The exceptions are the ones that mishap notes.           *)
PositionAgrees ==
    phase = "idle" /\ ~mishap =>
        /\ pos = Net(orders)
        /\ (\A i \in OrderId : UpToDate(i)) => pos = shares

(* Outside the synchronisation an order walks the life cycle that every    *)
(* OrderManager promises.  (The synchronisation does not: it creates a     *)
(* bracket that ended unfilled as FILLED and calls it CANCELED next time.) *)
Life == INSTANCE OrderLifecycle WITH
    status <- [i \in OrderId |-> IF orders[i].kind = "NONE" THEN "UNUSED"
                                 ELSE orders[i].status]
WalksLifecycle ==
    Life!Init /\ [][phase # "orders" /\ restarts' = restarts
                     => Life!Next \/ UNCHANGED orders]_vars

(* The synchronisation corrects any drift: once the broker is quiet, the   *)
(* position is the broker's and stays so (alpaca_om.py:16-20).             *)
SyncHeals == <>[](pos = shares)

(* Every fill of an entry or a market order is seen in the end, also one   *)
(* of an order whose answer was lost or that an earlier session sent.      *)
EveryFillSeen ==
    \A i \in OrderId : remote[i].status = "filled" /\ remote[i].kind # "NONE"
        ~> orders[i].kind # "NONE" /\ orders[i].status # "PENDING"

(* "This OM maps the Alpaca leg fills back to the local BracketOrder's     *)
(* SOLD_ORDER for portfolio processing" (alpaca_om.py:13-14): a filled leg *)
(* closes its bracket in the end.  It need not: a leg that fills while a   *)
(* manual sale cancels it leaves nothing to sell, and phase 1, repeated    *)
(* for ever, never looks at the legs.                                      *)
LegFillSeen ==
    \A i \in OrderId : remote[i].legs = "filled" ~> orders[i].status = "FILLED"

=============================================================================
