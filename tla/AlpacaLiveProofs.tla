--------------------------- MODULE AlpacaLiveProofs ---------------------------
(***************************************************************************)
(* The live order manager for any number of orders, any menu, any interval *)
(* of synchronisation and any number of failing calls and restarts: no     *)
(* order is forgotten, every order walks the abstract life cycle, and the  *)
(* position is what the orders add up to and the broker holds.             *)
(***************************************************************************)
EXTENDS AlpacaLive, TLAPS, FiniteSetTheorems

Types == TypeOK /\ restarts \in Nat

(* An order is of the kind the broker has it down for. *)
Known ==
    /\ \A i \in OrderId : orders[i].kind # "NONE" => remote[i].kind = orders[i].kind
    /\ \A i \in pending : orders[i].kind # "NONE"

(* A market order that is over here is over in the same way at the broker, *)
(* so that polling it again changes nothing.                               *)
Settled ==
    \A i \in OrderId : orders[i].kind \in {"BUY", "SELL"} =>
        \/ orders[i].status = "PENDING"
        \/ orders[i].status = "FILLED" /\ remote[i].status = "filled"
        \/ orders[i].status = "CANCELED" /\ remote[i].status \in {"canceled", "partial"}

(* A bracket's manual sale is a market sale. *)
Sales ==
    \A i \in OrderId :
        /\ orders[i].child # None => orders[orders[i].child].kind = "SELL"
        /\ orders[i].sold = "MANUAL" => orders[i].child # None

(* Polls and manual sales meet only pending orders, and no bracket that is *)
(* over: those are refiled before anyone looks again.                      *)
Opened ==
    /\ phase \in {"poll", "manual"} => todo \subseteq pending
    /\ \A i \in pending : orders[i].kind = "BRACKET" /\ orders[i].status \in Terminal
           => phase = "poll" /\ i \notin todo

IInv == Types /\ Known /\ Settled /\ Sales /\ Opened /\ NoneForgotten

(* What the broker has on record about an order stays there. *)
Recorded ==
    \A i \in OrderId : remote[i].kind # "NONE" =>
        /\ remote'[i].kind = remote[i].kind
        /\ remote[i].status # "open" => remote'[i].status = remote[i].status

-----------------------------------------------------------------------------
(* The broker's side of every step.                                        *)

LEMMA NoneIsNoId == None \notin OrderId
BY LiveAssumption DEF None

LEMMA EndedType ==
    ASSUME NEW r \in Remote, NEW status \in {"canceled", "partial"}
    PROVE  /\ EndedAs(r, status) \in Remote
           /\ EndedAs(r, status).kind = r.kind
           /\ r.status # "open" => EndedAs(r, status).status = r.status
BY DEF EndedAs, Remote

LEMMA NewRemote ==
    ASSUME NEW k \in Kind
    PROVE  [NoRemote EXCEPT !.kind = k] \in Remote
BY DEF NoRemote, Remote, Kind

(* Changing one record to a later one of the same order. *)
LEMMA Updates ==
    ASSUME Types, NEW i \in OrderId, NEW r \in Remote,
           remote' = [remote EXCEPT ![i] = r],
           remote[i].kind # "NONE" =>
               r.kind = remote[i].kind /\ (remote[i].status # "open" => r.status = remote[i].status)
    PROVE  remote' \in [OrderId -> Remote] /\ Recorded
BY DEF Types, TypeOK, Recorded

LEMMA BrokerRecords ==
    ASSUME Types, Broker
    PROVE  remote' \in [OrderId -> Remote] /\ shares' \in Int /\ Recorded
<1>1. PICK i \in OrderId : \/ BrokerFills(i)
                           \/ \E status \in {"canceled", "partial"} : BrokerEnds(i, status)
                           \/ LegFills(i)
                           \/ LegsExpire(i)
  BY DEF Broker
<1>2. shares \in Int /\ remote[i] \in Remote BY DEF Types, TypeOK
<1>3. CASE BrokerFills(i)
  <2> DEFINE r == [remote[i] EXCEPT !.status = "filled",
                          !.legs = IF remote[i].kind = "BRACKET" THEN "open" ELSE "none"]
  <2>1. remote' = [remote EXCEPT ![i] = r] BY <1>3 DEF BrokerFills, Types, TypeOK
  <2>2. r \in Remote /\ r.kind = remote[i].kind BY <1>2 DEF Remote
  <2>3. remote[i].status = "open" BY <1>3 DEF BrokerFills
  <2>4. shares' \in Int BY <1>2, <1>3 DEF BrokerFills
  <2> HIDE DEF r
  <2> QED BY <2>1, <2>2, <2>3, <2>4, Updates
<1>4. CASE \E status \in {"canceled", "partial"} : BrokerEnds(i, status)
  <2>1. PICK status \in {"canceled", "partial"} : BrokerEnds(i, status) BY <1>4
  <2>2. remote' = [remote EXCEPT ![i] = EndedAs(remote[i], status)]
    BY <2>1 DEF BrokerEnds, Types, TypeOK
  <2>3. shares' \in Int BY <1>2, <2>1 DEF BrokerEnds
  <2> QED BY <1>2, <2>2, <2>3, EndedType, Updates
<1>5. CASE LegFills(i)
  <2> DEFINE r == [remote[i] EXCEPT !.legs = "filled"]
  <2>1. remote' = [remote EXCEPT ![i] = r] BY <1>5 DEF LegFills, Types, TypeOK
  <2>2. r \in Remote /\ r.kind = remote[i].kind /\ r.status = remote[i].status
    BY <1>2 DEF Remote
  <2>3. shares' \in Int BY <1>2, <1>5 DEF LegFills
  <2> HIDE DEF r
  <2> QED BY <2>1, <2>2, <2>3, Updates
<1>6. CASE LegsExpire(i)
  <2>1. remote' = [remote EXCEPT ![i] = EndedAs(remote[i], "canceled")]
    BY <1>6 DEF LegsExpire, Ended, Types, TypeOK
  <2>2. shares' \in Int BY <1>2, <1>6 DEF LegsExpire
  <2> QED BY <1>2, <2>1, <2>2, EndedType, Updates
<1> QED BY <1>1, <1>3, <1>4, <1>5, <1>6

(* An order sent to the broker takes an id that has no record yet. *)
LEMMA Sent ==
    ASSUME Types, NEW n \in FreeIds, NEW k \in Kind,
           remote' = [remote EXCEPT ![n] = [NoRemote EXCEPT !.kind = k]]
    PROVE  remote' \in [OrderId -> Remote] /\ Recorded
<1>1. n \in OrderId /\ remote[n].kind = "NONE" BY DEF FreeIds
<1> QED BY <1>1, NewRemote, Updates

(* A cancellation that the broker accepts or not. *)
LEMMA Asked ==
    ASSUME Types, NEW i \in OrderId,
           \E r \in {remote[i], Ended(remote[i])} : remote' = [remote EXCEPT ![i] = r]
    PROVE  remote' \in [OrderId -> Remote] /\ Recorded
<1>1. remote[i] \in Remote BY DEF Types, TypeOK
<1>2. PICK r \in {remote[i], Ended(remote[i])} : remote' = [remote EXCEPT ![i] = r]
  OBVIOUS
<1>3. /\ r \in Remote /\ r.kind = remote[i].kind
      /\ remote[i].status # "open" => r.status = remote[i].status
  BY <1>1, EndedType DEF Ended
<1> QED BY <1>2, <1>3, Updates

LEMMA Unsent ==
    ASSUME Types, UNCHANGED remote
    PROVE  remote' \in [OrderId -> Remote] /\ Recorded
BY DEF Types, TypeOK, Recorded

-----------------------------------------------------------------------------
(* What a poll makes of one order.                                         *)

LEMMA LocalType ==
    ASSUME NEW k \in Kind, NEW status \in Status, NEW sold \in {"NONE", "LEG", "MANUAL"}
    PROVE  LocalOrder(k, status, sold) \in Local
BY DEF LocalOrder, Local

LEMMA PolledMarketIs ==
    ASSUME NEW o \in Local, NEW r \in Remote
    PROVE  /\ PolledMarket(o, r) \in Local
           /\ PolledMarket(o, r) = [o EXCEPT !.status = PolledMarket(o, r).status]
           /\ \/ PolledMarket(o, r).status = "PENDING" /\ r.status = "open"
              \/ PolledMarket(o, r).status = "FILLED" /\ r.status = "filled"
              \/ PolledMarket(o, r).status = "CANCELED" /\ r.status \in {"canceled", "partial"}
<1>1. r.status \in {"open", "filled", "canceled", "partial"} BY DEF Remote
<1> QED BY <1>1 DEF PolledMarket, Local, Status

(* A bracket only moves forward, and never back from the end. *)
LEMMA PolledBracketIs ==
    ASSUME NEW o \in Local, NEW r \in Remote
    PROVE  /\ PolledBracket(o, r) \in Local
           /\ PolledBracket(o, r).kind = o.kind
           /\ PolledBracket(o, r).child = o.child
           /\ PolledBracket(o, r).sold \in {o.sold, "LEG"}
           /\ o.status \in Terminal => PolledBracket(o, r).status \in Terminal
           /\ o.status = "PENDING_SALE" =>
                  PolledBracket(o, r).status \in {"PENDING_SALE", "FILLED"}
<1>1. r.status \in {"open", "filled", "canceled", "partial"} BY DEF Remote
<1> QED BY <1>1 DEF PolledBracket, Local, Status, Terminal

-----------------------------------------------------------------------------
(* A step that leaves the order manager alone. *)
LEMMA Quiet ==
    ASSUME IInv, Types', Recorded, UNCHANGED bookVars,
           phase' \in {"poll", "manual"} => todo' \subseteq pending,
           phase = "poll" => phase' = "poll" /\ todo' \subseteq todo
    PROVE  IInv'
<1> USE DEF IInv, bookVars
<1>1. Known' BY DEF Known, Recorded
<1>2. Settled' BY DEF Settled, Known, Recorded
<1>3. Sales' BY DEF Sales
<1>4. Opened' BY DEF Opened
<1>5. NoneForgotten' BY DEF NoneForgotten
<1> QED BY <1>1, <1>2, <1>3, <1>4, <1>5

(* Refiling all pending orders, whose statuses stay. *)
LEMMA Refiled ==
    ASSUME IInv, Recorded, orders' = orders, Refile(pending, orders)
    PROVE  /\ Known' /\ Settled' /\ Sales' /\ NoneForgotten'
           /\ pending' \subseteq pending /\ filled' \subseteq OrderId
           /\ \A i \in pending' : orders[i].status \notin Terminal
<1> USE DEF IInv
<1> DEFINE over == Over(orders, pending \cap pending)
           sold == {orders[i].child : i \in {j \in over : orders[j].status = "FILLED"
                                                       /\ orders[j].sold = "MANUAL"}}
<1>1. /\ pending' = pending \ over
      /\ filled' = filled \cup over \cup sold
  BY DEF Refile
<1>2. over = {i \in pending : orders[i].status \in Terminal} BY DEF Over
<1>3. pending \subseteq OrderId /\ filled \subseteq OrderId /\ orders \in [OrderId -> Local]
  BY DEF Types, TypeOK
<1>4. sold \subseteq OrderId
  <2>1. \A i \in OrderId : orders[i].sold = "MANUAL" => orders[i].child \in OrderId
    BY <1>3 DEF Sales, Local
  <2> QED BY <1>2, <1>3, <2>1
<1> HIDE DEF over, sold
<1>5. Known' /\ Settled' /\ Sales' BY <1>1 DEF Known, Settled, Sales, Recorded
<1>6. NoneForgotten' BY <1>1, <1>2 DEF NoneForgotten
<1> QED BY <1>1, <1>2, <1>3, <1>4, <1>5, <1>6

(* Orders refreshed around i: at most i and market orders change, and what *)
(* is over stays over.                                                     *)
LEMMA RefreshedKeeps ==
    ASSUME IInv, NEW i \in OrderId, Refreshing(i), NEW os \in [OrderId -> Local],
           Refreshed(i, os), UNCHANGED <<brokerVars, selling>>,
           \A j \in OrderId :
               /\ os[j].kind = orders[j].kind
               /\ os[j].child = orders[j].child
               /\ os[j].sold \in {orders[j].sold, "LEG"}
               /\ orders[j].kind # "NONE" /\ orders[j].status \in Terminal
                     => os[j].status \in Terminal
               /\ orders[j].kind = "BRACKET" /\ j # i => os[j].status = orders[j].status
               /\ os[j].kind \in {"BUY", "SELL"} =>
                     \/ os[j].status = "PENDING"
                     \/ os[j].status = "FILLED" /\ remote[j].status = "filled"
                     \/ os[j].status = "CANCELED" /\ remote[j].status \in {"canceled", "partial"}
    PROVE  IInv'
<1> USE DEF IInv
<1> DEFINE over == Over(os, {i} \cap pending)
           sold == {os[j].child : j \in {k \in over : os[k].status = "FILLED"
                                                   /\ os[k].sold = "MANUAL"}}
<1>1. /\ orders' = os /\ todo' = todo \ {i} /\ phase' = phase
      /\ changed' \in {changed \cup {i}, changed}
      /\ UNCHANGED <<pos, boot, restarts, remote, shares, selling>>
  BY DEF Refreshed, brokerVars
<1>2. /\ phase \in {"poll", "manual", "orders"} /\ i \in todo
  BY DEF Refreshing, IsFirst
<1>3. IF phase = "poll" THEN pending' = pending /\ filled' = filled
      ELSE pending' = pending \ over /\ filled' = filled \cup over \cup sold
  BY DEF Refreshed, Refile
<1>4. over = {j \in {i} \cap pending : os[j].status \in Terminal} BY DEF Over
<1>5. pending \subseteq OrderId /\ filled \subseteq OrderId /\ orders \in [OrderId -> Local]
  BY DEF Types, TypeOK
<1>6. \A j \in OrderId : os[j].sold = "MANUAL" => os[j].child # None
  BY DEF Sales
<1>7. sold \subseteq OrderId
  <2>1. \A j \in OrderId : os[j].child \in OrderId \cup {None} BY DEF Local
  <2>2. over \subseteq OrderId BY <1>4
  <2> HIDE DEF over
  <2> QED BY <1>6, <2>1, <2>2
<1> HIDE DEF over, sold
<1>8. Types'
  <2>1. pending' \subseteq OrderId /\ filled' \subseteq OrderId BY <1>3, <1>4, <1>5, <1>7
  <2>2. changed' \subseteq OrderId /\ todo' \subseteq OrderId BY <1>1 DEF Types, TypeOK
  <2> QED BY <1>1, <2>1, <2>2 DEF Types, TypeOK
<1>9. Known' BY <1>1, <1>3, <1>4, <1>5 DEF Known
<1>10. Settled' BY <1>1 DEF Settled
<1>11. Sales'
  <2>1. \A j \in OrderId : os[j].child # None => os[j].child \in OrderId BY DEF Local
  <2> QED BY <1>1, <1>6, <2>1 DEF Sales
<1>12. Opened'
  <2>1. phase' \in {"poll", "manual"} => todo' \subseteq pending'
    BY <1>1, <1>3, <1>4 DEF Opened
  <2>2. ASSUME NEW j \in pending', os[j].kind = "BRACKET", os[j].status \in Terminal
        PROVE  phase' = "poll" /\ j \notin todo'
    <3>1. j \in pending /\ j \in OrderId BY <1>3, <1>5
    <3>2. CASE j = i BY <1>1, <1>3, <1>4, <2>2, <3>1, <3>2
    <3>3. CASE j # i
      <4>1. orders[j].kind = "BRACKET" /\ orders[j].status \in Terminal
        BY <2>2, <3>1, <3>3
      <4> QED BY <1>1, <3>1, <4>1 DEF Opened
    <3> QED BY <3>2, <3>3
  <2> QED BY <1>1, <2>1, <2>2 DEF Opened
<1>13. NoneForgotten'
  <2> SUFFICES ASSUME NEW j \in OrderId, os[j].kind # "NONE"
               PROVE  j \in pending' \/ (j \in filled' /\ os[j].status \in Terminal)
    BY <1>1 DEF NoneForgotten
  <2>1. j \in pending \/ (j \in filled /\ orders[j].status \in Terminal)
    BY DEF NoneForgotten
  <2> QED BY <1>3, <1>4, <2>1
<1> QED BY <1>8, <1>9, <1>10, <1>11, <1>12, <1>13

-----------------------------------------------------------------------------
(* The steps that refresh an order.                                        *)

LEMMA RefreshKeeps ==
    ASSUME IInv, NEW i \in OrderId, Refresh(i)
    PROVE  IInv'
<1> DEFINE o == orders[i]
           r == remote[i]
           os == [orders EXCEPT ![i] = Polled(@, remote[i])]
<1>1. orders \in [OrderId -> Local] /\ o \in Local /\ r \in Remote
  BY DEF IInv, Types, TypeOK
<1>2. Refreshing(i) /\ Refreshed(i, os) /\ UNCHANGED <<brokerVars, selling>>
  BY DEF Refresh
<1>3. /\ Polled(o, r) \in Local /\ Polled(o, r).kind = o.kind
      /\ Polled(o, r).child = o.child /\ Polled(o, r).sold \in {o.sold, "LEG"}
  <2>1. o.kind = "BRACKET" => Polled(o, r) = PolledBracket(o, r) BY DEF Polled
  <2>2. o.kind # "BRACKET" => Polled(o, r) = PolledMarket(o, r) BY DEF Polled
  <2>3. /\ PolledMarket(o, r).kind = o.kind /\ PolledMarket(o, r).child = o.child
        /\ PolledMarket(o, r).sold = o.sold
    BY DEF PolledMarket, Local
  <2> QED BY <1>1, <2>1, <2>2, <2>3, PolledMarketIs, PolledBracketIs
<1>4. o.kind = "BRACKET" /\ o.status \in Terminal => Polled(o, r).status \in Terminal
  BY <1>1, PolledBracketIs DEF Polled
<1>5. o.kind # "BRACKET" =>
          \/ Polled(o, r).status = "PENDING" /\ r.status = "open"
          \/ Polled(o, r).status = "FILLED" /\ r.status = "filled"
          \/ Polled(o, r).status = "CANCELED" /\ r.status \in {"canceled", "partial"}
  BY <1>1, PolledMarketIs DEF Polled
<1>6. o.kind \in {"BUY", "SELL"} /\ o.status \in Terminal =>
          Polled(o, r).status \in Terminal
  BY <1>5 DEF IInv, Settled, Terminal
<1>7. o.kind # "NONE" /\ o.status \in Terminal => Polled(o, r).status \in Terminal
  BY <1>1, <1>4, <1>6 DEF Local, Kind
<1>8. /\ os \in [OrderId -> Local] /\ os[i] = Polled(o, r)
      /\ \A j \in OrderId : j # i => os[j] = orders[j]
  BY <1>1, <1>3
<1>9. ASSUME NEW j \in OrderId
      PROVE  /\ os[j].kind = orders[j].kind
             /\ os[j].child = orders[j].child
             /\ os[j].sold \in {orders[j].sold, "LEG"}
             /\ orders[j].kind # "NONE" /\ orders[j].status \in Terminal
                   => os[j].status \in Terminal
             /\ orders[j].kind = "BRACKET" /\ j # i => os[j].status = orders[j].status
             /\ os[j].kind \in {"BUY", "SELL"} =>
                   \/ os[j].status = "PENDING"
                   \/ os[j].status = "FILLED" /\ remote[j].status = "filled"
                   \/ os[j].status = "CANCELED" /\ remote[j].status \in {"canceled", "partial"}
  <2> HIDE DEF os
  <2>1. CASE j = i BY <1>3, <1>5, <1>7, <1>8, <2>1
  <2>2. CASE j # i BY <1>8, <2>2 DEF IInv, Settled
  <2> QED BY <2>1, <2>2
<1> HIDE DEF os
<1> QED BY <1>2, <1>8, <1>9, RefreshedKeeps

(* A bracket under sale and its market order end together. *)
LEMMA SaleEnds ==
    ASSUME IInv, NEW i \in OrderId, InSale(orders[i]), orders[i].child # None
    PROVE  LET c == orders[i].child
               status == PolledMarket(orders[c], remote[c]).status
           IN  /\ c \in OrderId /\ c # i /\ orders[c].kind = "SELL"
               /\ \/ status = "PENDING"
                  \/ status = "FILLED" /\ remote[c].status = "filled"
                  \/ status = "CANCELED" /\ remote[c].status \in {"canceled", "partial"}
<1> DEFINE c == orders[i].child
<1>1. orders \in [OrderId -> Local] /\ remote \in [OrderId -> Remote]
  BY DEF IInv, Types, TypeOK
<1>2. c \in OrderId BY <1>1 DEF Local
<1>3. orders[c].kind = "SELL" BY DEF IInv, Sales
<1>4. c # i BY <1>3 DEF InSale
<1> QED BY <1>1, <1>2, <1>3, <1>4, PolledMarketIs

LEMMA PollSaleKeeps ==
    ASSUME IInv, NEW i \in OrderId, PollSale(i)
    PROVE  IInv'
<1> DEFINE c == orders[i].child
           status == PolledMarket(orders[c], remote[c]).status
           os == IF status = "PENDING" THEN orders
                 ELSE [orders EXCEPT ![i].status = status, ![c].status = status]
<1>1. orders \in [OrderId -> Local] BY DEF IInv, Types, TypeOK
<1>2. /\ Refreshing(i) /\ Refreshed(i, os) /\ UNCHANGED <<brokerVars, selling>>
      /\ InSale(orders[i]) /\ c # None
  BY DEF PollSale
<1>3. /\ c \in OrderId /\ c # i /\ orders[c].kind = "SELL"
      /\ \/ status = "PENDING"
         \/ status = "FILLED" /\ remote[c].status = "filled"
         \/ status = "CANCELED" /\ remote[c].status \in {"canceled", "partial"}
  BY <1>2, SaleEnds
<1>4. orders[i].kind = "BRACKET" BY <1>2 DEF InSale
<1> HIDE DEF c, status
<1>5. /\ os \in [OrderId -> Local]
      /\ \A j \in OrderId : os[j] \in {orders[j], [orders[j] EXCEPT !.status = status]}
      /\ \A j \in OrderId : j \notin {i, c} => os[j] = orders[j]
  <2>1. status = "PENDING" => os = orders OBVIOUS
  <2>2. status # "PENDING" => os = [orders EXCEPT ![i].status = status, ![c].status = status]
    OBVIOUS
  <2>3. CASE status = "PENDING" BY <1>1, <2>1, <2>3
  <2>4. CASE status # "PENDING"
    <3>1. status \in Status BY <1>3 DEF Status
    <3> DEFINE one == [orders EXCEPT ![i].status = status]
    <3>2. /\ one \in [OrderId -> Local] /\ one[i] = [orders[i] EXCEPT !.status = status]
          /\ \A j \in OrderId : j # i => one[j] = orders[j]
      BY <1>1, <3>1 DEF Local
    <3>3. os = [one EXCEPT ![c].status = status] BY <2>2, <2>4
    <3> HIDE DEF one, os
    <3>4. os \in [OrderId -> Local] BY <1>3, <3>1, <3>2, <3>3 DEF Local
    <3>5. os[c] = [orders[c] EXCEPT !.status = status] BY <1>3, <3>2, <3>3
    <3>6. \A j \in OrderId : j # c => os[j] = one[j] BY <3>2, <3>3
    <3> QED BY <1>3, <3>2, <3>4, <3>5, <3>6
  <2> QED BY <2>3, <2>4
<1>6. status = "PENDING" => os = orders OBVIOUS
<1> HIDE DEF os
<1>7. ASSUME NEW j \in OrderId
      PROVE  /\ os[j].kind = orders[j].kind
             /\ os[j].child = orders[j].child
             /\ os[j].sold \in {orders[j].sold, "LEG"}
             /\ orders[j].kind # "NONE" /\ orders[j].status \in Terminal
                   => os[j].status \in Terminal
             /\ orders[j].kind = "BRACKET" /\ j # i => os[j].status = orders[j].status
             /\ os[j].kind \in {"BUY", "SELL"} =>
                   \/ os[j].status = "PENDING"
                   \/ os[j].status = "FILLED" /\ remote[j].status = "filled"
                   \/ os[j].status = "CANCELED" /\ remote[j].status \in {"canceled", "partial"}
  <2> DEFINE moved == [orders[j] EXCEPT !.status = status]
  <2>1. /\ moved.kind = orders[j].kind /\ moved.child = orders[j].child
        /\ moved.sold = orders[j].sold /\ moved.status = status
    BY <1>1 DEF Local
  <2> HIDE DEF moved
  <2>2. CASE os[j] = orders[j] BY <2>2 DEF IInv, Settled
  <2>3. CASE os[j] # orders[j]
    <3>1. os[j] = moved /\ j \in {i, c} BY <1>5, <2>3 DEF moved
    <3>2. status # "PENDING" BY <1>6, <2>3
    <3>3. status \in Terminal BY <1>3, <3>2 DEF Terminal
    <3> QED BY <1>3, <1>4, <2>1, <3>1, <3>2, <3>3
  <2> QED BY <2>2, <2>3
<1> QED BY <1>2, <1>5, <1>7, RefreshedKeeps

LEMMA FetchFailsKeeps ==
    ASSUME IInv, NEW i \in OrderId, FetchFails(i)
    PROVE  IInv'
<1>1. orders \in [OrderId -> Local] BY DEF IInv, Types, TypeOK
<1>2. Refreshing(i) /\ Refreshed(i, orders) /\ UNCHANGED <<brokerVars, selling>>
  BY DEF FetchFails
<1> QED BY <1>1, <1>2, RefreshedKeeps DEF IInv, Settled

-----------------------------------------------------------------------------
(* The steps that add orders.                                              *)

(* An id that the broker has no record of names no order here.             *)
LEMMA FreeIsUnused ==
    ASSUME IInv, NEW n \in FreeIds
    PROVE  n \in OrderId /\ orders[n].kind = "NONE"
BY DEF IInv, Known, FreeIds

LEMMA SubmitKeeps ==
    ASSUME IInv, NEW n \in OrderId, NEW k \in Menu, Submit(n, k)
    PROVE  IInv'
<1>1. k \in Kind \ {"NONE"} BY LiveAssumption DEF Kind
<1>2. n \in FreeIds /\ remote' = [remote EXCEPT ![n] = [NoRemote EXCEPT !.kind = k]]
  BY DEF Submit, Accept, IsFirst
<1>3. orders[n].kind = "NONE" BY <1>2, FreeIsUnused
<1>4. remote' \in [OrderId -> Remote] /\ Recorded BY <1>1, <1>2, Sent DEF IInv
<1>5. remote'[n].kind = k BY <1>2 DEF IInv, Types, TypeOK, NoRemote
<1> DEFINE new == LocalOrder(k, "PENDING", "NONE")
<1>6. new \in Local /\ new.kind = k /\ new.status = "PENDING" /\ new.child = None
      /\ new.sold = "NONE"
  BY <1>1, LocalType DEF LocalOrder, Status
<1>7. /\ orders' = [orders EXCEPT ![n] = new] /\ pending' = pending \cup {n}
      /\ phase = "submit"
      /\ UNCHANGED <<shares, filled, pos, phase, boot, todo, changed, selling, restarts>>
  BY DEF Submit, Accept, loopVars, boundVars
<1> HIDE DEF new
<1>8. /\ orders' \in [OrderId -> Local] /\ orders'[n] = new
      /\ \A j \in OrderId : j # n => orders'[j] = orders[j]
  BY <1>6, <1>7 DEF IInv, Types, TypeOK
<1> USE DEF IInv
<1>9. Types' BY <1>4, <1>7, <1>8 DEF Types, TypeOK
<1>10. Known' BY <1>1, <1>4, <1>5, <1>6, <1>7, <1>8 DEF Types, TypeOK, Known, Recorded
<1>11. Settled' BY <1>4, <1>6, <1>8 DEF Settled, Known, Recorded
<1>12. Sales'
  <2>1. \A j \in OrderId : orders[j].child # n
    BY <1>3, NoneIsNoId DEF Sales
  <2>2. \A j \in OrderId : orders[j].child # None => orders[j].child \in OrderId
    BY DEF Types, TypeOK, Local
  <2> QED BY <1>6, <1>8, <2>1, <2>2 DEF Sales
<1>13. Opened'
  <2>1. Terminal = {"FILLED", "CANCELED"} BY DEF Terminal
  <2> QED BY <1>6, <1>7, <1>8, <2>1 DEF Opened, Types, TypeOK
<1>14. NoneForgotten' BY <1>7, <1>8 DEF NoneForgotten
<1> QED BY <1>9, <1>10, <1>11, <1>12, <1>13, <1>14

LEMMA SaleAcceptedKeeps ==
    ASSUME IInv, NEW n \in OrderId, SaleAccepted(n)
    PROVE  IInv'
<1>1. /\ n \in FreeIds /\ selling # None /\ selling' = None
      /\ remote' = [remote EXCEPT ![n] = [NoRemote EXCEPT !.kind = "SELL"]]
  BY DEF SaleAccepted, SendSale, IsFirst
<1>2. selling \in OrderId BY <1>1 DEF IInv, Types, TypeOK
<1>3. orders[n].kind = "NONE" BY <1>1, FreeIsUnused
<1>4. remote' \in [OrderId -> Remote] /\ Recorded BY <1>1, Sent DEF IInv, Kind
<1>5. remote'[n].kind = "SELL" BY <1>1 DEF IInv, Types, TypeOK, NoRemote
<1> DEFINE new == LocalOrder("SELL", "PENDING", "NONE")
           one == [orders EXCEPT ![n] = new]
<1>6. new \in Local /\ new.kind = "SELL" /\ new.status = "PENDING" /\ new.child = None
      /\ new.sold = "NONE"
  BY LocalType DEF LocalOrder, Status, Kind
<1>7. /\ orders' = [orders EXCEPT ![n] = new, ![selling].child = n, ![selling].sold = "MANUAL"]
      /\ pending' = pending \cup {n} /\ todo' = todo \ {selling}
      /\ UNCHANGED <<shares, filled, pos, phase, boot, changed, restarts>>
  BY DEF SaleAccepted, boundVars
<1> HIDE DEF new
<1>8. one \in [OrderId -> Local] /\ one[n] = new
      /\ \A j \in OrderId : j # n => one[j] = orders[j]
  BY <1>6 DEF IInv, Types, TypeOK
<1>9. orders' = [one EXCEPT ![selling].child = n, ![selling].sold = "MANUAL"]
  BY <1>7
<1> HIDE DEF one
<1>10. /\ orders' \in [OrderId -> Local]
       /\ orders'[selling].kind = one[selling].kind
       /\ orders'[selling].status = one[selling].status
       /\ orders'[selling].child = n
       /\ \A j \in OrderId : j # selling => orders'[j] = one[j]
  BY <1>2, <1>8, <1>9 DEF Local
<1>11. /\ orders'[n].kind = "SELL" /\ orders'[n].status = "PENDING"
       /\ \A j \in OrderId : j # n => /\ orders'[j].kind = orders[j].kind
                                     /\ orders'[j].status = orders[j].status
  BY <1>6, <1>8, <1>10
<1> USE DEF IInv
<1>12. Types' BY <1>1, <1>4, <1>7, <1>10 DEF Types, TypeOK
<1>13. Known' BY <1>4, <1>5, <1>7, <1>11 DEF Types, TypeOK, Known, Recorded
<1>14. Settled' BY <1>4, <1>11 DEF Settled, Known, Recorded
<1>15. Sales'
  <2>1. \A j \in OrderId : orders[j].child # n
    BY <1>3, NoneIsNoId DEF Sales
  <2>2. \A j \in OrderId : orders[j].child # None => orders[j].child \in OrderId
    BY DEF Types, TypeOK, Local
  <2>3. \A j \in OrderId : /\ j # selling => /\ orders'[j].child \in {orders[j].child, None}
                                           /\ orders'[j].sold \in {orders[j].sold, "NONE"}
                           /\ orders'[j].child # None => orders'[j].child \in OrderId
    BY <1>6, <1>8, <1>10 DEF Local
  <2>4. ASSUME NEW j \in OrderId, orders'[j].child # None
        PROVE  orders'[orders'[j].child].kind = "SELL"
    BY <1>10, <1>11, <2>1, <2>2, <2>3, <2>4 DEF Sales
  <2>5. ASSUME NEW j \in OrderId, orders'[j].sold = "MANUAL"
        PROVE  orders'[j].child # None
    <3>1. CASE j = selling BY <1>10, <3>1, NoneIsNoId
    <3>2. CASE j # selling
      <4>1. orders'[j] = one[j] BY <1>10, <3>2
      <4>2. j # n BY <1>6, <1>8, <2>5, <4>1
      <4> QED BY <1>8, <2>5, <4>1, <4>2 DEF Sales
    <3> QED BY <3>1, <3>2
  <2> QED BY <2>4, <2>5 DEF Sales
<1>16. Opened'
  <2>1. \A j \in pending' : j = n \/ j \in pending BY <1>7
  <2> QED BY <1>7, <1>11, <2>1 DEF Opened, Terminal, Types, TypeOK
<1>17. NoneForgotten' BY <1>7, <1>11 DEF NoneForgotten
<1> QED BY <1>12, <1>13, <1>14, <1>15, <1>16, <1>17

(* What the list makes of an order is an order of the same kind, and of a  *)
(* market order what a poll would make of it.                              *)
LEMMA CreatedIs ==
    ASSUME NEW r \in Remote
    PROVE  /\ Created(r) \in Local /\ Created(r).kind = r.kind
           /\ Created(r).child = None /\ Created(r).sold # "MANUAL"
           /\ r.kind \in {"BUY", "SELL"} =>
                 \/ Created(r).status = "PENDING"
                 \/ Created(r).status = "FILLED" /\ r.status = "filled"
                 \/ Created(r).status = "CANCELED" /\ r.status \in {"canceled", "partial"}
<1> DEFINE raw == LocalOrder(r.kind, "PENDING", "NONE")
<1>1. r.kind \in Kind /\ r.legs \in {"none", "open", "filled", "canceled"} BY DEF Remote
<1>2. raw \in Local /\ raw.kind = r.kind /\ raw.child = None /\ raw.sold = "NONE"
  BY <1>1, LocalType DEF LocalOrder, Status
<1>3. CASE r.kind \in {"BUY", "SELL"}
  <2>1. Created(r) = PolledMarket(raw, r) BY <1>3 DEF Created
  <2> HIDE DEF raw
  <2>2. /\ PolledMarket(raw, r).kind = raw.kind /\ PolledMarket(raw, r).child = raw.child
        /\ PolledMarket(raw, r).sold = raw.sold
    BY <1>2 DEF PolledMarket, Local
  <2> QED BY <1>2, <2>1, <2>2, PolledMarketIs
<1>4. CASE r.kind = "BRACKET"
  <2>1. \E status \in Status, sold \in {"NONE", "LEG"} :
            Created(r) = LocalOrder("BRACKET", status, sold)
    BY <1>1, <1>4 DEF Created, Status
  <2>2. PICK status \in Status, sold \in {"NONE", "LEG"} :
            Created(r) = LocalOrder("BRACKET", status, sold)
    BY <2>1
  <2>3. Created(r) \in Local BY <2>2, LocalType DEF Kind
  <2> QED BY <1>4, <2>2, <2>3 DEF LocalOrder
<1>5. CASE r.kind = "NONE"
  <2>1. Created(r) = NoLocal BY <1>5 DEF Created
  <2>2. NoLocal \in Local BY LocalType DEF NoLocal, Kind, Status
  <2> QED BY <1>5, <2>1, <2>2 DEF NoLocal, LocalOrder
<1> QED BY <1>1, <1>3, <1>4, <1>5 DEF Kind

LEMMA ListOrdersKeeps ==
    ASSUME IInv, ListOrders
    PROVE  IInv'
<1> DEFINE new == {i \in OrderId : remote[i].kind # "NONE" /\ orders[i].kind = "NONE"}
           os == [i \in OrderId |-> IF i \in new THEN Created(remote[i]) ELSE orders[i]]
<1>1. /\ orders' = os /\ pending' = pending \cup (new \ Over(os, new))
      /\ filled' = filled \cup Over(os, new)
      /\ todo' = {i \in OrderId : orders[i].kind # "NONE"}
      /\ phase = "list" /\ phase' = "orders"
      /\ UNCHANGED <<remote, shares, pos, boot, changed, selling, restarts>>
  BY DEF ListOrders, brokerVars, boundVars
<1>2. Over(os, new) = {i \in new : os[i].status \in Terminal} BY DEF Over
<1>3. /\ \A i \in new : i \in OrderId /\ orders[i].kind = "NONE" /\ os[i] = Created(remote[i])
      /\ \A i \in OrderId : i \notin new => os[i] = orders[i]
      /\ new \subseteq OrderId
  OBVIOUS
<1>4. orders \in [OrderId -> Local] /\ remote \in [OrderId -> Remote]
  BY DEF IInv, Types, TypeOK
<1>5. os \in [OrderId -> Local] BY <1>4, CreatedIs
<1>6. \A i \in new :
          /\ os[i].kind = remote[i].kind /\ os[i].child = None /\ os[i].sold # "MANUAL"
          /\ os[i].kind \in {"BUY", "SELL"} =>
                 \/ os[i].status = "PENDING"
                 \/ os[i].status = "FILLED" /\ remote[i].status = "filled"
                 \/ os[i].status = "CANCELED" /\ remote[i].status \in {"canceled", "partial"}
  BY <1>3, <1>4, CreatedIs
<1> HIDE DEF new, os
<1> USE DEF IInv
<1>7. Types' BY <1>1, <1>2, <1>3, <1>5 DEF Types, TypeOK, Phase
<1>8. Known'
  <2>1. \A i \in new : remote[i].kind # "NONE" BY DEF new
  <2> QED BY <1>1, <1>3, <1>6, <2>1 DEF Known, Types, TypeOK
<1>9. Settled' BY <1>1, <1>3, <1>6 DEF Settled
<1>10. Sales'
  <2>1. \A j \in OrderId : orders[j].child # None =>
            orders[j].child \in OrderId /\ orders[j].child \notin new
    BY <1>3, <1>4 DEF Local, Sales
  <2> QED BY <1>1, <1>3, <1>6, <2>1 DEF Sales
<1>11. Opened'
  <2>1. pending \subseteq OrderId BY DEF Types, TypeOK
  <2>2. ASSUME NEW j \in pending', os[j].kind = "BRACKET", os[j].status \in Terminal
        PROVE  FALSE
    <3>1. j \notin new
      <4> SUFFICES ASSUME j \in new PROVE FALSE OBVIOUS
      <4>1. j \in pending BY <1>1, <1>2, <2>2
      <4>2. orders[j].kind = "NONE" /\ j \in OrderId BY <1>3
      <4> QED BY <4>1, <4>2 DEF Known
    <3>2. j \in pending /\ os[j] = orders[j] BY <1>1, <1>3, <2>1, <3>1
    <3> QED BY <1>1, <2>2, <3>2 DEF Opened
  <2> QED BY <1>1, <2>2 DEF Opened
<1>12. NoneForgotten' BY <1>1, <1>2, <1>3 DEF NoneForgotten
<1> QED BY <1>7, <1>8, <1>9, <1>10, <1>11, <1>12

-----------------------------------------------------------------------------
(* The other steps that touch orders.                                      *)

LEMMA ApplyKeeps ==
    ASSUME IInv, NEW i \in OrderId, Apply(i)
    PROVE  IInv'
<1>1. orders \in [OrderId -> Local] BY DEF IInv, Types, TypeOK
<1>2. /\ phase \in {"apply", "applySold"} /\ phase' = phase /\ todo' = todo \ {i}
      /\ UNCHANGED <<remote, shares, pending, filled, boot, changed, selling, restarts>>
  BY DEF Apply, Applying, brokerVars, boundVars
<1>3. pos' \in Int
  BY DEF Apply, IInv, Types, TypeOK
<1>4. /\ orders' \in [OrderId -> Local]
      /\ \A j \in OrderId : /\ orders'[j].kind = orders[j].kind
                           /\ orders'[j].status = orders[j].status
                           /\ orders'[j].child = orders[j].child
                           /\ orders'[j].sold = orders[j].sold
  <2>1. CASE orders[i].done
    <3>1. orders' = orders BY <2>1 DEF Apply
    <3> QED BY <1>1, <3>1
  <2>2. CASE ~orders[i].done
    <3>1. orders' = [j \in OrderId |-> [orders[j] EXCEPT !.done = @ \/ j \in Marked(i)]]
      BY <2>2 DEF Apply
    <3>2. \A j \in OrderId : orders[j].done \in BOOLEAN BY <1>1 DEF Local
    <3>3. \A j \in OrderId : (orders[j].done \/ j \in Marked(i)) \in BOOLEAN
      BY <3>2
    <3> DEFINE mark == [j \in OrderId |-> orders[j].done \/ j \in Marked(i)]
    <3>4. orders' = [j \in OrderId |-> [orders[j] EXCEPT !.done = mark[j]]] BY <3>1
    <3>5. mark \in [OrderId -> BOOLEAN] BY <3>3
    <3> HIDE DEF mark
    <3> QED BY <1>1, <3>4, <3>5 DEF Local
  <2> QED BY <2>1, <2>2
<1> USE DEF IInv
<1>5. Types' BY <1>2, <1>3, <1>4 DEF Types, TypeOK
<1>6. pending \subseteq OrderId BY DEF Types, TypeOK
<1>7. Known' BY <1>2, <1>4, <1>6 DEF Known
<1>8. Settled' BY <1>2, <1>4 DEF Settled
<1>9. Sales'
  <2>1. \A j \in OrderId : orders[j].child \in OrderId \cup {None} BY <1>1 DEF Local
  <2> QED BY <1>4, <2>1 DEF Sales
<1>10. Opened' BY <1>2, <1>4, <1>6 DEF Opened
<1>11. NoneForgotten' BY <1>2, <1>4 DEF NoneForgotten
<1> QED BY <1>5, <1>7, <1>8, <1>9, <1>10, <1>11

LEMMA StrategyKeeps ==
    ASSUME IInv, Strategy
    PROVE  IInv'
<1>1. orders \in [OrderId -> Local] /\ pending \subseteq OrderId
  BY DEF IInv, Types, TypeOK
<1>2. PICK sale \in {{}} \cup {{i} : i \in {j \in pending :
                orders[j].kind = "BRACKET" /\ orders[j].status = "PENDING_SALE"}} :
          /\ orders' = [i \in OrderId |-> [orders[i] EXCEPT !.manual = @ \/ i \in sale]]
          /\ todo' = sale
  BY DEF Strategy
<1>3. /\ phase = "strategy" /\ phase' = "manual" /\ changed' = {}
      /\ UNCHANGED <<remote, shares, pending, filled, pos, boot, selling, restarts>>
  BY DEF Strategy, brokerVars, boundVars
<1>4. sale \subseteq pending OBVIOUS
<1>5. /\ orders' \in [OrderId -> Local]
      /\ \A j \in OrderId : /\ orders'[j].kind = orders[j].kind
                           /\ orders'[j].status = orders[j].status
                           /\ orders'[j].child = orders[j].child
                           /\ orders'[j].sold = orders[j].sold
  <2>1. \A j \in OrderId : orders[j].manual \in BOOLEAN BY <1>1 DEF Local
  <2> DEFINE flag == [j \in OrderId |-> orders[j].manual \/ j \in sale]
  <2>2. orders' = [j \in OrderId |-> [orders[j] EXCEPT !.manual = flag[j]]] BY <1>2
  <2>3. flag \in [OrderId -> BOOLEAN] BY <2>1
  <2> HIDE DEF flag
  <2> QED BY <1>1, <2>2, <2>3 DEF Local
<1> USE DEF IInv
<1>6. Types' BY <1>1, <1>2, <1>3, <1>4, <1>5 DEF Types, TypeOK, Phase
<1>7. Known' BY <1>1, <1>3, <1>5 DEF Known
<1>8. Settled' BY <1>3, <1>5 DEF Settled
<1>9. Sales'
  <2>1. \A j \in OrderId : orders[j].child \in OrderId \cup {None} BY <1>1 DEF Local
  <2> QED BY <1>5, <2>1 DEF Sales
<1>10. Opened' BY <1>1, <1>2, <1>3, <1>4, <1>5 DEF Opened
<1>11. NoneForgotten' BY <1>3, <1>5 DEF NoneForgotten
<1> QED BY <1>6, <1>7, <1>8, <1>9, <1>10, <1>11

(* No orders at all, which is how the program starts.                      *)
LEMMA Fresh ==
    ASSUME orders = [i \in OrderId |-> NoLocal], pending = {}, filled = {},
           remote \in [OrderId -> Remote], shares \in Int, pos \in Int,
           phase = "account", boot \in BOOLEAN, todo = {}, changed = {},
           selling = None, restarts \in Nat
    PROVE  IInv
<1>1. NoLocal \in Local /\ NoLocal.kind = "NONE" /\ NoLocal.child = None
      /\ NoLocal.sold = "NONE"
  BY LocalType DEF NoLocal, LocalOrder, Kind, Status
<1> HIDE DEF NoLocal
<1>2. Types BY <1>1 DEF Types, TypeOK, Phase
<1>3. Known /\ Settled /\ Sales BY <1>1 DEF Known, Settled, Sales
<1>4. Opened /\ NoneForgotten BY <1>1 DEF Opened, NoneForgotten
<1> QED BY <1>2, <1>3, <1>4 DEF IInv

LEMMA InitIInv == Init => IInv
<1> SUFFICES ASSUME Init PROVE IInv OBVIOUS
<1>1. NoRemote \in Remote BY DEF NoRemote, Remote, Kind
<1>2. remote \in [OrderId -> Remote] BY <1>1 DEF Init
<1> QED BY <1>2, Fresh DEF Init

LEMMA RestartKeeps ==
    ASSUME IInv, Restart
    PROVE  IInv'
<1>1. restarts' \in Nat BY DEF Restart, IInv, Types
<1>2. /\ orders' = [i \in OrderId |-> NoLocal] /\ pending' = {} /\ filled' = {}
      /\ pos' = 0 /\ phase' = "account" /\ boot' = TRUE
      /\ todo' = {} /\ changed' = {} /\ selling' = None
      /\ remote' = remote /\ shares' = shares
  BY DEF Restart, brokerVars
<1>3. NoLocal \in Local /\ NoLocal.kind = "NONE" /\ NoLocal.child = None
      /\ NoLocal.sold = "NONE"
  BY LocalType DEF NoLocal, LocalOrder, Kind, Status
<1> HIDE DEF NoLocal
<1>4. Types' BY <1>1, <1>2, <1>3 DEF IInv, Types, TypeOK, Phase
<1>5. Known' /\ Settled' /\ Sales' BY <1>2, <1>3 DEF Known, Settled, Sales
<1>6. Opened' /\ NoneForgotten' BY <1>2, <1>3 DEF Opened, NoneForgotten
<1> QED BY <1>4, <1>5, <1>6 DEF IInv

-----------------------------------------------------------------------------
(* The steps that leave the orders as they are.                            *)

LEMMA PollDoneKeeps == ASSUME IInv, PollDone PROVE IInv'
<1> USE DEF IInv
<1>1. /\ orders' = orders /\ Refile(pending, orders) /\ UNCHANGED remote
      /\ todo' = changed /\ changed' = {} /\ phase' = "apply"
      /\ UNCHANGED <<shares, pos, boot, selling, restarts>>
  BY DEF PollDone, brokerVars, boundVars
<1>2. Recorded BY <1>1, Unsent
<1>3. /\ Known' /\ Settled' /\ Sales' /\ NoneForgotten'
      /\ pending' \subseteq pending /\ filled' \subseteq OrderId
      /\ \A i \in pending' : orders[i].status \notin Terminal
  BY <1>1, <1>2, Refiled
<1>4. Types' BY <1>1, <1>3 DEF Types, TypeOK, Phase
<1>5. Opened' BY <1>1, <1>3 DEF Opened
<1> QED BY <1>3, <1>4, <1>5

LEMMA CancelKeeps == ASSUME IInv, NEW i \in OrderId, Cancel(i) PROVE IInv'
<1> USE DEF IInv
<1>1. /\ orders' = orders /\ Refile(pending, orders)
      /\ phase = "cancel" /\ phase' = phase /\ todo' = todo \ {i}
      /\ UNCHANGED <<shares, pos, boot, changed, selling, restarts>>
  BY DEF Cancel, boundVars
<1>2. remote' \in [OrderId -> Remote] /\ Recorded BY Asked DEF Cancel
<1>3. /\ Known' /\ Settled' /\ Sales' /\ NoneForgotten'
      /\ pending' \subseteq pending /\ filled' \subseteq OrderId
      /\ \A j \in pending' : orders[j].status \notin Terminal
  BY <1>1, <1>2, Refiled
<1>4. Types' BY <1>1, <1>2, <1>3 DEF Types, TypeOK
<1>5. Opened' BY <1>1, <1>3 DEF Opened
<1> QED BY <1>3, <1>4, <1>5

(* Calls and answers that the order manager takes no note of.              *)
LEMMA UnnotedKeeps ==
    ASSUME IInv,
           \/ \E i \in OrderId : CancelLegs(i) \/ SaleLost(i)
           \/ SaleRefused \/ SubmitRaises
    PROVE  IInv'
<1> USE DEF IInv, brokerVars, bookVars, boundVars
<1>1. ASSUME NEW i \in OrderId, CancelLegs(i) PROVE IInv'
  <2>1. remote' \in [OrderId -> Remote] /\ Recorded BY <1>1, Asked DEF CancelLegs
  <2>2. Types' BY <1>1, <2>1 DEF CancelLegs, Types, TypeOK
  <2> QED BY <1>1, <2>1, <2>2, Quiet DEF CancelLegs, Opened
<1>2. ASSUME NEW i \in OrderId, SaleLost(i) PROVE IInv'
  <2>1. remote' \in [OrderId -> Remote] /\ Recorded
    BY <1>2, Sent DEF SaleLost, SendSale, IsFirst, Kind
  <2>2. Types' BY <1>2, <2>1 DEF SaleLost, SendSale, Types, TypeOK
  <2> QED BY <1>2, <2>1, <2>2, Quiet DEF SaleLost, SendSale, Opened
<1>3. ASSUME SaleRefused PROVE IInv'
  <2>1. Recorded BY <1>3, Unsent DEF SaleRefused
  <2>2. Types' BY <1>3 DEF SaleRefused, Types, TypeOK
  <2> QED BY <1>3, <2>1, <2>2, Quiet DEF SaleRefused, Opened
<1>4. ASSUME SubmitRaises PROVE IInv'
  <2>1. remote' \in [OrderId -> Remote] /\ Recorded
    <3>1. CASE UNCHANGED remote BY <3>1, Unsent
    <3>2. ASSUME NEW n \in FreeIds, NEW k \in Menu, Accept(n, k)
          PROVE  remote' \in [OrderId -> Remote] /\ Recorded
      BY <3>2, Sent, LiveAssumption DEF Accept, Kind
    <3> QED BY <1>4, <3>1, <3>2 DEF SubmitRaises
  <2>2. Types' BY <1>4, <2>1 DEF SubmitRaises, Abort, Types, TypeOK, Phase
  <2> QED BY <1>4, <2>1, <2>2, Quiet DEF SubmitRaises, Abort
<1> QED BY <1>1, <1>2, <1>3, <1>4

(* Steps from one part of a tick to the next.                              *)
LEMMA PassageKeeps ==
    ASSUME IInv,
           \/ Tick \/ ApplyDone \/ SyncAccount \/ ListFails \/ SyncDone
           \/ ManualDone \/ SoldDone \/ CancelDone \/ TickDone
           \/ \E i \in OrderId : ApplyRaises(i)
    PROVE  IInv'
<1> USE DEF IInv, brokerVars, bookVars, loopVars, boundVars
<1>1. UNCHANGED <<remote, shares, bookVars, restarts>>
  BY DEF Tick, ApplyDone, SyncAccount, ListFails, SyncDone, ManualDone, SoldDone,
         CancelDone, TickDone, ApplyRaises
<1>2. Recorded BY <1>1, Unsent
<1>3. ASSUME Tick PROVE IInv'
  <2>1. Types' BY <1>3 DEF Tick, Types, TypeOK, Phase
  <2> QED BY <1>1, <1>2, <1>3, <2>1, Quiet DEF Tick
<1>4. ASSUME ApplyDone PROVE IInv'
  <2>1. Types' BY <1>4 DEF ApplyDone, Types, TypeOK, Phase
  <2> QED BY <1>1, <1>2, <1>4, <2>1, Quiet DEF ApplyDone
<1>5. ASSUME SyncAccount PROVE IInv'
  <2>1. Types' BY <1>5 DEF SyncAccount, AfterSync, Types, TypeOK, Phase
  <2> QED BY <1>1, <1>2, <1>5, <2>1, Quiet DEF SyncAccount, AfterSync
<1>6. ASSUME ListFails PROVE IInv'
  <2>1. Types' BY <1>6 DEF ListFails, AfterSync, Types, TypeOK, Phase
  <2> QED BY <1>1, <1>2, <1>6, <2>1, Quiet DEF ListFails, AfterSync
<1>7. ASSUME SyncDone PROVE IInv'
  <2>1. Types' BY <1>7 DEF SyncDone, AfterSync, Types, TypeOK, Phase
  <2> QED BY <1>1, <1>2, <1>7, <2>1, Quiet DEF SyncDone, AfterSync
<1>8. ASSUME ManualDone PROVE IInv'
  <2>1. Types' BY <1>8 DEF ManualDone, Types, TypeOK, Phase
  <2> QED BY <1>1, <1>2, <1>8, <2>1, Quiet DEF ManualDone
<1>9. ASSUME SoldDone PROVE IInv'
  <2>1. Types' BY <1>9 DEF SoldDone, Types, TypeOK, Phase
  <2> QED BY <1>1, <1>2, <1>9, <2>1, Quiet DEF SoldDone
<1>10. ASSUME CancelDone PROVE IInv'
  <2>1. Types' BY <1>10 DEF CancelDone, Types, TypeOK, Phase
  <2> QED BY <1>1, <1>2, <1>10, <2>1, Quiet DEF CancelDone
<1>11. ASSUME TickDone PROVE IInv'
  <2>1. Types' BY <1>11 DEF TickDone, Types, TypeOK, Phase
  <2> QED BY <1>1, <1>2, <1>11, <2>1, Quiet DEF TickDone
<1>12. ASSUME NEW i \in OrderId, ApplyRaises(i) PROVE IInv'
  <2>1. Types' BY <1>12 DEF ApplyRaises, Abort, Types, TypeOK, Phase
  <2> QED BY <1>1, <1>2, <1>12, <2>1, Quiet DEF ApplyRaises, Applying, Abort
<1> QED BY <1>3, <1>4, <1>5, <1>6, <1>7, <1>8, <1>9, <1>10, <1>11, <1>12

LEMMA BrokerKeeps == ASSUME IInv, Broker PROVE IInv'
<1>1. UNCHANGED <<orders, pending, filled, pos, phase, boot, todo, changed, selling, restarts>>
  BY DEF Broker, BrokerFills, BrokerEnds, LegFills, LegsExpire, Programs, bookVars,
         loopVars, boundVars
<1>2. remote' \in [OrderId -> Remote] /\ shares' \in Int /\ Recorded
  BY BrokerRecords DEF IInv
<1>3. Types' BY <1>1, <1>2 DEF IInv, Types, TypeOK
<1> QED BY <1>1, <1>2, <1>3, Quiet DEF IInv, Opened, bookVars

LEMMA NextIInv == IInv /\ [Next]_vars => IInv'
<1> SUFFICES ASSUME IInv, [Next]_vars PROVE IInv' OBVIOUS
<1>1. CASE \E i \in OrderId : Refresh(i) \/ FetchFails(i) \/ PollSale(i)
  BY <1>1, RefreshKeeps, FetchFailsKeeps, PollSaleKeeps
<1>2. CASE \E i \in OrderId : CancelLegs(i) \/ SaleLost(i)
  BY <1>2, UnnotedKeeps
<1>3. CASE SaleRefused \/ SubmitRaises BY <1>3, UnnotedKeeps
<1>4. CASE \E i \in OrderId : SaleAccepted(i) BY <1>4, SaleAcceptedKeeps
<1>5. CASE \E i \in OrderId : Apply(i) \/ Cancel(i) BY <1>5, ApplyKeeps, CancelKeeps
<1>6. CASE \E i \in OrderId : ApplyRaises(i) BY <1>6, PassageKeeps
<1>7. CASE \E i \in OrderId, k \in Menu : Submit(i, k) BY <1>7, SubmitKeeps
<1>8. CASE PollDone \/ ListOrders \/ Strategy
  BY <1>8, PollDoneKeeps, ListOrdersKeeps, StrategyKeeps
<1>9. CASE \/ Tick \/ ApplyDone \/ SyncAccount \/ ListFails \/ SyncDone
           \/ ManualDone \/ SoldDone \/ CancelDone \/ TickDone
  BY <1>9, PassageKeeps
<1>10. CASE Restart BY <1>10, RestartKeeps
<1>11. CASE Broker BY <1>11, BrokerKeeps
<1>12. CASE UNCHANGED vars
  BY <1>12 DEF vars, brokerVars, bookVars, loopVars, boundVars, IInv, Types, TypeOK,
     Known, Settled, Sales, Opened, NoneForgotten
<1>13. Step => \/ \E i \in OrderId : Refresh(i) \/ FetchFails(i) \/ PollSale(i)
               \/ \E i \in OrderId : CancelLegs(i) \/ SaleLost(i)
               \/ SaleRefused \/ SubmitRaises
               \/ \E i \in OrderId : SaleAccepted(i)
               \/ \E i \in OrderId : Apply(i) \/ Cancel(i)
               \/ \E i \in OrderId : ApplyRaises(i)
               \/ \E i \in OrderId, k \in Menu : Submit(i, k)
               \/ PollDone \/ ListOrders \/ Strategy
               \/ ApplyDone \/ SyncAccount \/ ListFails \/ SyncDone
               \/ ManualDone \/ SoldDone \/ CancelDone \/ TickDone
  BY DEF Step
<1> QED BY <1>1, <1>2, <1>3, <1>4, <1>5, <1>6, <1>7, <1>8, <1>9, <1>10, <1>11, <1>12,
           <1>13 DEF Next

-----------------------------------------------------------------------------
(* The inductive invariant holds in every behaviour.                       *)
THEOREM Invariant == Spec => []IInv
<1> QED BY InitIInv, NextIInv, PTL DEF Spec

(* Every variable has its type, for every instance. *)
THEOREM Typed == Spec => []TypeOK
<1>1. IInv => TypeOK BY DEF IInv, Types
<1> QED BY Invariant, <1>1, PTL

(* An order that is not over is polled on the next tick, whatever failed,  *)
(* raised or restarted before.                                             *)
THEOREM NoneForgottenHolds == Spec => []NoneForgotten
<1>1. IInv => NoneForgotten BY DEF IInv
<1> QED BY Invariant, <1>1, PTL

-----------------------------------------------------------------------------
(* The abstract life cycle.                                                *)

Stage(os, i) == IF os[i].kind = "NONE" THEN "UNUSED" ELSE os[i].status

(* A step in which every order moves forward is a step of the life cycle.  *)
LEMMA Forward ==
    ASSUME orders' \in [OrderId -> Local],
           \A i \in OrderId :
               Stage(orders', i) # Stage(orders, i) =>
                   <<Stage(orders, i), Stage(orders', i)>> \in Life!Moves
    PROVE  Life!Next
<1>1. \A i \in OrderId : Stage(orders', i) \in {"UNUSED", "PENDING", "FILLED",
                                              "PENDING_SALE", "CANCELED"}
  BY DEF Stage, Local, Status
<1> QED BY <1>1 DEF Life!Next, Stage

LEMMA NextWalks ==
    ASSUME IInv, [Next]_vars, phase # "orders", restarts' = restarts
    PROVE  Life!Next \/ UNCHANGED orders
<1>1. orders \in [OrderId -> Local] /\ remote \in [OrderId -> Remote]
  BY DEF IInv, Types, TypeOK
<1>2. orders' \in [OrderId -> Local] BY NextIInv DEF IInv, Types, TypeOK
<1>3. ASSUME NEW i \in OrderId, Refresh(i) PROVE Life!Next
  <2> DEFINE o == orders[i]
             r == remote[i]
  <2>1. /\ orders' = [orders EXCEPT ![i] = Polled(o, r)] /\ i \in todo
        /\ phase \in {"poll", "manual"}
    BY <1>3 DEF Refresh, Refreshing, Refreshed, IsFirst
  <2>2. i \in pending /\ (o.kind = "BRACKET" => o.status \notin Terminal)
    BY <2>1 DEF IInv, Opened
  <2>3. \A j \in OrderId : j # i => Stage(orders', j) = Stage(orders, j)
    BY <1>1, <2>1 DEF Stage
  <2>4. orders'[i] = Polled(o, r) BY <1>1, <2>1
  <2>5. o.kind # "NONE" /\ Polled(o, r).kind = o.kind
    BY <1>1, <2>2, PolledBracketIs DEF IInv, Known, Polled, PolledMarket, Local
  <2>6. Stage(orders', i) # Stage(orders, i) =>
            <<Stage(orders, i), Stage(orders', i)>> \in Life!Moves
    <3>1. Stage(orders, i) = o.status /\ Stage(orders', i) = Polled(o, r).status
      BY <2>4, <2>5 DEF Stage
    <3>2. CASE o.kind = "BRACKET"
      <4>1. Polled(o, r) = PolledBracket(o, r) BY <3>2 DEF Polled
      <4>2. o.status \in {"PENDING", "PENDING_SALE"}
        BY <1>1, <2>2, <3>2 DEF Local, Status, Terminal
      <4>3. PolledBracket(o, r).status \in Status BY <1>1, PolledBracketIs DEF Local
      <4>4. o.status = "PENDING_SALE" =>
                PolledBracket(o, r).status \in {"PENDING_SALE", "FILLED"}
        BY <1>1, PolledBracketIs
      <4> QED BY <3>1, <4>1, <4>2, <4>3, <4>4 DEF Life!Moves, Status
    <3>3. CASE o.kind \in {"BUY", "SELL"}
      <4>1. Polled(o, r) = PolledMarket(o, r) BY <3>3 DEF Polled
      <4>2. \/ PolledMarket(o, r).status = "PENDING" /\ r.status = "open"
            \/ PolledMarket(o, r).status = "FILLED" /\ r.status = "filled"
            \/ PolledMarket(o, r).status = "CANCELED" /\ r.status \in {"canceled", "partial"}
        BY <1>1, PolledMarketIs
      <4>3. \/ o.status = "PENDING"
            \/ o.status = "FILLED" /\ r.status = "filled"
            \/ o.status = "CANCELED" /\ r.status \in {"canceled", "partial"}
        BY <3>3 DEF IInv, Settled
      <4> QED BY <3>1, <4>1, <4>2, <4>3 DEF Life!Moves
    <3> QED BY <1>1, <2>5, <3>2, <3>3 DEF Local, Kind
  <2> QED BY <1>2, <2>3, <2>6, Forward
<1>4. ASSUME NEW i \in OrderId, PollSale(i) PROVE Life!Next \/ UNCHANGED orders
  <2> DEFINE c == orders[i].child
             status == PolledMarket(orders[c], remote[c]).status
             os == [orders EXCEPT ![i].status = status, ![c].status = status]
  <2>1. /\ InSale(orders[i]) /\ c # None
        /\ orders' = IF status = "PENDING" THEN orders ELSE os
    BY <1>4 DEF PollSale, Refreshed
  <2>2. /\ c \in OrderId /\ c # i /\ orders[c].kind = "SELL"
        /\ \/ status = "PENDING"
           \/ status = "FILLED" /\ remote[c].status = "filled"
           \/ status = "CANCELED" /\ remote[c].status \in {"canceled", "partial"}
    BY <2>1, SaleEnds
  <2>3. \/ orders[c].status = "PENDING"
        \/ orders[c].status = "FILLED" /\ remote[c].status = "filled"
        \/ orders[c].status = "CANCELED" /\ remote[c].status \in {"canceled", "partial"}
    BY <2>2 DEF IInv, Settled
  <2>4. orders[i].kind = "BRACKET" /\ orders[i].status = "PENDING_SALE"
    BY <2>1 DEF InSale
  <2> HIDE DEF c, status
  <2>5. CASE status # "PENDING"
    <3>1. orders' = os BY <2>1, <2>5
    <3>2. /\ os[i].kind = "BRACKET" /\ os[i].status = status
          /\ os[c].kind = "SELL" /\ os[c].status = status
          /\ \A j \in OrderId : j \notin {i, c} => os[j] = orders[j]
      <4> DEFINE one == [orders EXCEPT ![i].status = status]
      <4>1. /\ one[i] = [orders[i] EXCEPT !.status = status]
            /\ \A j \in OrderId : j # i => one[j] = orders[j]
            /\ DOMAIN one = OrderId
        BY <1>1
      <4>2. os = [one EXCEPT ![c].status = status] OBVIOUS
      <4> HIDE DEF one, os
      <4>3. os[c] = [orders[c] EXCEPT !.status = status] BY <2>2, <4>1, <4>2
      <4>4. \A j \in OrderId : j # c => os[j] = one[j] BY <4>1, <4>2
      <4> QED BY <1>1, <2>2, <2>4, <4>1, <4>3, <4>4 DEF Local
    <3> HIDE DEF os
    <3>3. ASSUME NEW j \in OrderId, Stage(orders', j) # Stage(orders, j)
          PROVE  <<Stage(orders, j), Stage(orders', j)>> \in Life!Moves
      <4>1. CASE j = i
        BY <2>2, <2>4, <2>5, <3>1, <3>2, <4>1 DEF Stage, Life!Moves
      <4>2. CASE j = c
        BY <2>2, <2>3, <2>5, <3>1, <3>2, <3>3, <4>2 DEF Stage, Life!Moves
      <4>3. CASE j \notin {i, c} BY <3>1, <3>2, <3>3, <4>3 DEF Stage
      <4> QED BY <4>1, <4>2, <4>3
    <3> QED BY <1>2, <3>3, Forward
  <2> QED BY <2>1, <2>5
<1>5. ASSUME NEW n \in OrderId, SaleAccepted(n) PROVE Life!Next
  <2>1. n \in FreeIds /\ selling # None BY <1>5 DEF SaleAccepted, SendSale, IsFirst
  <2>2. orders[n].kind = "NONE" BY <2>1, FreeIsUnused
  <2>3. selling \in OrderId BY <2>1 DEF IInv, Types, TypeOK
  <2> DEFINE new == LocalOrder("SELL", "PENDING", "NONE")
             one == [orders EXCEPT ![n] = new]
  <2>4. orders' = [one EXCEPT ![selling].child = n, ![selling].sold = "MANUAL"]
    BY <1>5 DEF SaleAccepted
  <2>5. new \in Local /\ new.kind = "SELL" /\ new.status = "PENDING"
    BY LocalType DEF LocalOrder, Kind, Status
  <2> HIDE DEF new
  <2>6. one \in [OrderId -> Local] /\ one[n] = new
        /\ \A j \in OrderId : j # n => one[j] = orders[j]
    BY <1>1, <2>5
  <2> HIDE DEF one
  <2>7. \A j \in OrderId : orders'[j].kind = one[j].kind /\ orders'[j].status = one[j].status
    BY <2>3, <2>4, <2>6 DEF Local
  <2>8. \A j \in OrderId : Stage(orders', j) = Stage(one, j) BY <2>7 DEF Stage
  <2>9. ASSUME NEW j \in OrderId, Stage(orders', j) # Stage(orders, j)
        PROVE  <<Stage(orders, j), Stage(orders', j)>> \in Life!Moves
    <3>1. CASE j = n BY <2>2, <2>5, <2>6, <2>8, <3>1 DEF Stage, Life!Moves
    <3>2. CASE j # n BY <2>6, <2>8, <2>9, <3>2 DEF Stage
    <3> QED BY <3>1, <3>2
  <2> QED BY <1>2, <2>9, Forward
<1>6. ASSUME NEW n \in OrderId, NEW k \in Menu, Submit(n, k) PROVE Life!Next
  <2>1. n \in FreeIds BY <1>6 DEF Submit, Accept, IsFirst
  <2>2. orders[n].kind = "NONE" BY <2>1, FreeIsUnused
  <2>3. k # "NONE" BY LiveAssumption
  <2>4. orders' = [orders EXCEPT ![n] = LocalOrder(k, "PENDING", "NONE")]
    BY <1>6 DEF Submit
  <2>5. orders'[n].kind = k /\ orders'[n].status = "PENDING"
    BY <1>1, <2>4 DEF LocalOrder
  <2>6. \A j \in OrderId : j # n => orders'[j] = orders[j] BY <1>1, <2>4
  <2>7. ASSUME NEW j \in OrderId, Stage(orders', j) # Stage(orders, j)
        PROVE  <<Stage(orders, j), Stage(orders', j)>> \in Life!Moves
    <3>1. CASE j = n BY <2>2, <2>3, <2>5, <3>1 DEF Stage, Life!Moves
    <3>2. CASE j # n BY <2>6, <2>7, <3>2 DEF Stage
    <3> QED BY <3>1, <3>2
  <2> QED BY <1>2, <2>7, Forward
<1>7. ASSUME ListOrders PROVE Life!Next
  <2>1. \A j \in OrderId : orders[j].kind # "NONE" => orders'[j] = orders[j]
    BY <1>7 DEF ListOrders
  <2>2. ASSUME NEW j \in OrderId, Stage(orders', j) # Stage(orders, j)
        PROVE  <<Stage(orders, j), Stage(orders', j)>> \in Life!Moves
    <3>1. orders[j].kind = "NONE" BY <2>1, <2>2 DEF Stage
    <3>2. Stage(orders, j) = "UNUSED" /\ Stage(orders', j) # "UNUSED" BY <2>2, <3>1 DEF Stage
    <3>3. Stage(orders', j) \in Status BY <1>2, <3>2 DEF Stage, Local
    <3> QED BY <3>2, <3>3 DEF Status, Life!Moves
  <2> QED BY <1>2, <2>2, Forward
<1>8. ASSUME NEW i \in OrderId, Apply(i) PROVE Life!Next \/ UNCHANGED orders
  <2>1. CASE orders[i].done BY <1>8, <2>1 DEF Apply
  <2>2. CASE ~orders[i].done
    <3>1. \A j \in OrderId : /\ orders'[j].kind = orders[j].kind
                             /\ orders'[j].status = orders[j].status
      BY <1>1, <1>8, <2>2 DEF Apply, Local
    <3> QED BY <1>2, <3>1, Forward DEF Stage
  <2> QED BY <2>1, <2>2
<1>9. ASSUME Strategy PROVE Life!Next
  <2>1. \A j \in OrderId : /\ orders'[j].kind = orders[j].kind
                           /\ orders'[j].status = orders[j].status
    BY <1>1, <1>9 DEF Strategy, Local
  <2> QED BY <1>2, <2>1, Forward DEF Stage
<1>10. ASSUME NEW i \in OrderId,
              FetchFails(i) \/ CancelLegs(i) \/ SaleLost(i) \/ ApplyRaises(i) \/ Cancel(i)
       PROVE  UNCHANGED orders
  BY <1>10 DEF FetchFails, Refreshed, CancelLegs, SaleLost, ApplyRaises, Cancel, bookVars
<1>11. ASSUME \/ Tick \/ SaleRefused \/ PollDone \/ ApplyDone \/ SyncAccount \/ ListFails
              \/ SyncDone \/ ManualDone \/ SoldDone \/ CancelDone \/ SubmitRaises \/ TickDone
       PROVE  UNCHANGED orders
  BY <1>11 DEF Tick, SaleRefused, PollDone, ApplyDone, SyncAccount, ListFails, SyncDone,
     ManualDone, SoldDone, CancelDone, SubmitRaises, TickDone, bookVars
<1>12. ~Restart BY DEF Restart, IInv, Types
<1>13. ASSUME Broker PROVE UNCHANGED orders
  BY <1>13 DEF Broker, BrokerFills, BrokerEnds, LegFills, LegsExpire, Programs, bookVars
<1>14. ASSUME UNCHANGED vars PROVE UNCHANGED orders BY <1>14 DEF vars, bookVars
<1>15. ASSUME Step PROVE Life!Next \/ UNCHANGED orders
  <2>1. CASE \/ SaleRefused \/ PollDone \/ ApplyDone
             \/ SyncAccount \/ ListFails \/ SyncDone
             \/ ManualDone \/ SoldDone \/ CancelDone \/ SubmitRaises \/ TickDone
    BY <1>11, <2>1
  <2>2. CASE ListOrders \/ Strategy BY <1>7, <1>9, <2>2
  <2>3. CASE \E i \in OrderId : \/ Refresh(i) \/ PollSale(i) \/ SaleAccepted(i) \/ Apply(i)
                               \/ \E k \in Menu : Submit(i, k)
    BY <1>3, <1>4, <1>5, <1>6, <1>8, <2>3
  <2>4. CASE \E i \in OrderId :
                FetchFails(i) \/ CancelLegs(i) \/ SaleLost(i) \/ ApplyRaises(i) \/ Cancel(i)
    BY <1>10, <2>4
  <2> QED BY <1>15, <2>1, <2>2, <2>3, <2>4 DEF Step
<1> QED BY <1>11, <1>12, <1>13, <1>14, <1>15 DEF Next

(* Outside the synchronisation every order walks the life cycle that every *)
(* OrderManager promises.                                                  *)
THEOREM WalksLifecycleHolds == Spec => WalksLifecycle
<1>1. Init => Life!Init
  BY DEF Init, Life!Init, NoLocal, LocalOrder
<1>2. IInv /\ [Next]_vars =>
          [phase # "orders" /\ restarts' = restarts => Life!Next \/ UNCHANGED orders]_vars
  BY NextWalks
<1> QED BY Invariant, <1>1, <1>2, PTL DEF Spec, WalksLifecycle

-----------------------------------------------------------------------------
(* The position *)

(* The broker's record of an order makes sense. *)
Fit(r) ==
    /\ r.legs \in {"open", "filled"} => r.kind = "BRACKET" /\ r.status = "filled"
    /\ r.status = "open" => r.legs = "none"
    /\ r.kind = "SELL" => r.status # "partial"

(* What an order says of itself here the broker has on record. *)
Sane(o, r) ==
    /\ o.kind = "NONE" => o = NoLocal
    /\ o.kind = "BRACKET" => ~o.done
    /\ o.status = "PENDING" => ~o.done /\ o.sold = "NONE" /\ o.child = None
    /\ o.status = "PENDING_SALE" => o.kind = "BRACKET" /\ r.status = "filled"
    /\ o.child # None => /\ o.kind = "BRACKET" /\ o.manual /\ r.status = "filled"
                         /\ o.sold \in {"MANUAL", "LEG"}
    /\ o.sold = "MANUAL" => o.child # None
    /\ o.sold = "LEG" => o.kind = "BRACKET" /\ o.status = "FILLED" /\ r.legs = "filled"
    /\ o.kind = "BRACKET" /\ o.status = "CANCELED" /\ o.sold = "NONE"
           => r.status \in {"canceled", "partial"}

(* A bracket sold by hand ends with its sale, which is its own. *)
SoldByHand(o) == o.kind = "BRACKET" /\ o.sold = "MANUAL" /\ o.status \in Terminal

Children ==
    /\ \A i \in OrderId : SoldByHand(orders[i]) =>
           orders[orders[i].child].status = orders[i].status
    /\ \A i, j \in OrderId :
           orders[i].child # None /\ orders[i].child = orders[j].child => i = j

Records == \A i \in OrderId : Fit(remote[i]) /\ Sane(orders[i], remote[i])

(* What the loops of a tick are at. *)
Loops ==
    /\ phase \in {"poll", "manual"} =>
           /\ todo \cap changed = {}
           /\ \A i \in changed : orders[i].status # "PENDING"
    /\ phase = "manual" => \A i \in todo : InSale(orders[i])
    /\ phase = "orders" => \A i \in todo : orders[i].kind # "NONE"
    /\ selling # None => /\ phase \in {"poll", "manual", "orders"} /\ selling \in todo
                         /\ InSale(orders[selling]) /\ orders[selling].child = None

(* The orders whose last change the portfolio has not been told yet. *)
Due == IF phase \in {"poll", "manual"} THEN changed
       ELSE IF phase \in {"apply", "applySold"} THEN todo ELSE {}

(* The lots that count as bought and as sold: in Net, and in the position, *)
(* which is without the changes that are due.                              *)
Bought(os) == {i \in OrderId :
    \/ os[i].kind = "BUY" /\ os[i].status = "FILLED"
    \/ os[i].kind = "BRACKET" /\ os[i].status = "PENDING_SALE"
    \/ os[i].kind = "BRACKET" /\ os[i].status \in Terminal /\ os[i].sold = "MANUAL"}
Sold(os) == {i \in OrderId : os[i].kind = "SELL" /\ os[i].status = "FILLED"}

LegSold(o) == o.kind = "BRACKET" /\ o.status = "FILLED" /\ o.sold = "LEG"

BoughtSoFar == {i \in OrderId : IF i \in Due THEN \/ LegSold(orders[i])
                                                  \/ i \in Bought(orders) /\ ~Buys(orders[i])
                                ELSE i \in Bought(orders)}
SoldSoFar == {i \in OrderId :
    /\ i \in Sold(orders) /\ i \notin Due
    /\ \A j \in Due : ~(SoldByHand(orders[j]) /\ orders[j].status = "FILLED"
                         /\ orders[j].child = i)}

(* Without a mishap no change is due twice, and the position is what the   *)
(* changes that are not due add up to.                                     *)
OnceDue ==
    \A i \in Due : /\ ~orders[i].done
                   /\ SoldByHand(orders[i]) => orders[i].child \notin Due \/ orders[i].status # "FILLED"

Tally == ~mishap => OnceDue /\ pos = Cardinality(BoughtSoFar) - Cardinality(SoldSoFar)

(* The broker's position is what its records add up to. *)
Holding == {i \in OrderId : /\ remote[i].kind \in {"BUY", "BRACKET"}
                            /\ remote[i].status \in {"filled", "partial"}
                            /\ remote[i].legs # "filled"}
GivenUp == {i \in OrderId : remote[i].kind = "SELL" /\ remote[i].status = "filled"}

Depot == shares = Cardinality(Holding) - Cardinality(GivenUp)

BooksInv == Records /\ Children /\ Loops
TallyInv == BooksInv /\ Tally /\ Depot

(* What the broker has on record of an order it does not take back. *)
Later(r, s) ==
    r.kind # "NONE" => /\ r.status # "open" => s.status = r.status
                       /\ r.legs = "filled" => s.legs = "filled"

Grows == \A i \in OrderId : Fit(remote'[i]) /\ Later(remote[i], remote'[i])

(* Counting lots. *)
LEMMA Counted ==
    ASSUME NEW S \in SUBSET OrderId
    PROVE  /\ Cardinality(S) \in Nat
           /\ \A i \in OrderId \ S : Cardinality(S \cup {i}) = Cardinality(S) + 1
           /\ \A i \in S : Cardinality(S \ {i}) = Cardinality(S) - 1
<1>1. IsFiniteSet(S) BY LiveAssumption, FS_Subset
<1>2. Cardinality(S) \in Nat BY <1>1, FS_CardinalityType
<1>3. \A i \in OrderId \ S : Cardinality(S \cup {i}) = Cardinality(S) + 1
  BY <1>1, FS_AddElement
<1>4. \A i \in S : Cardinality(S \ {i}) = Cardinality(S) - 1 BY <1>1, FS_RemoveElement
<1> QED BY <1>2, <1>3, <1>4

(* One record changes and the lots held and given up with it. *)
LEMMA DepotStep ==
    ASSUME Depot, remote \in [OrderId -> Remote], NEW i \in OrderId, NEW r \in Remote,
           remote' = [remote EXCEPT ![i] = r], shares \in Int,
           \/ /\ i \notin Holding /\ i \notin GivenUp
              /\ r.kind \in {"BUY", "BRACKET"} /\ r.status \in {"filled", "partial"}
              /\ r.legs # "filled" /\ shares' = shares + 1
           \/ /\ i \notin Holding /\ i \notin GivenUp
              /\ r.kind = "SELL" /\ r.status = "filled" /\ shares' = shares - 1
           \/ /\ i \in Holding /\ r.kind = "BRACKET" /\ r.legs = "filled" /\ shares' = shares - 1
           \/ /\ r.kind = remote[i].kind /\ r.status = remote[i].status
              /\ r.legs = "filled" <=> remote[i].legs = "filled"
              /\ shares' = shares
           \/ /\ i \notin Holding /\ i \notin GivenUp
              /\ r.status \in {"open", "canceled"} /\ shares' = shares
    PROVE  Depot'
<1>1. /\ remote'[i] = r /\ \A j \in OrderId : j # i => remote'[j] = remote[j]
  OBVIOUS
<1>2. Holding \in SUBSET OrderId /\ GivenUp \in SUBSET OrderId BY DEF Holding, GivenUp
<1>3. /\ Cardinality(Holding) \in Nat /\ Cardinality(GivenUp) \in Nat
      /\ i \notin Holding => Cardinality(Holding \cup {i}) = Cardinality(Holding) + 1
      /\ i \in Holding => Cardinality(Holding \ {i}) = Cardinality(Holding) - 1
      /\ i \notin GivenUp => Cardinality(GivenUp \cup {i}) = Cardinality(GivenUp) + 1
  BY <1>2, Counted
<1>4. shares = Cardinality(Holding) - Cardinality(GivenUp) BY DEF Depot
<1>5. CASE /\ i \notin Holding /\ i \notin GivenUp
           /\ r.kind \in {"BUY", "BRACKET"} /\ r.status \in {"filled", "partial"}
           /\ r.legs # "filled" /\ shares' = shares + 1
  <2>1. Holding' = Holding \cup {i} /\ GivenUp' = GivenUp BY <1>1, <1>5 DEF Holding, GivenUp
  <2> QED BY <1>3, <1>4, <1>5, <2>1 DEF Depot
<1>6. CASE /\ i \notin Holding /\ i \notin GivenUp
           /\ r.kind = "SELL" /\ r.status = "filled" /\ shares' = shares - 1
  <2>1. Holding' = Holding /\ GivenUp' = GivenUp \cup {i} BY <1>1, <1>6 DEF Holding, GivenUp
  <2> QED BY <1>3, <1>4, <1>6, <2>1 DEF Depot
<1>7. CASE i \in Holding /\ r.kind = "BRACKET" /\ r.legs = "filled" /\ shares' = shares - 1
  <2>1. Holding' = Holding \ {i} /\ GivenUp' = GivenUp BY <1>1, <1>7 DEF Holding, GivenUp
  <2> QED BY <1>3, <1>4, <1>7, <2>1 DEF Depot
<1>8. CASE /\ r.kind = remote[i].kind /\ r.status = remote[i].status
           /\ r.legs = "filled" <=> remote[i].legs = "filled"
           /\ shares' = shares
  <2>1. Holding' = Holding /\ GivenUp' = GivenUp BY <1>1, <1>8 DEF Holding, GivenUp
  <2> QED BY <1>4, <1>8, <2>1 DEF Depot
<1>9. CASE /\ i \notin Holding /\ i \notin GivenUp
           /\ r.status \in {"open", "canceled"} /\ shares' = shares
  <2>1. Holding' = Holding /\ GivenUp' = GivenUp BY <1>1, <1>9 DEF Holding, GivenUp
  <2> QED BY <1>4, <1>9, <2>1 DEF Depot
<1> QED BY <1>5, <1>6, <1>7, <1>8, <1>9

-----------------------------------------------------------------------------
(* The broker's side of every step. *)

LEMMA DepotFill ==
    ASSUME IInv, Records, Depot, NEW i \in OrderId, BrokerFills(i)
    PROVE  Grows /\ Depot'
<1> DEFINE r == [remote[i] EXCEPT !.status = "filled",
                        !.legs = IF remote[i].kind = "BRACKET" THEN "open" ELSE "none"]
<1>1. /\ remote \in [OrderId -> Remote] /\ shares \in Int /\ remote[i] \in Remote
  BY DEF IInv, Types, TypeOK
<1>2. /\ remote[i].kind # "NONE" /\ remote[i].status = "open"
      /\ remote' = [remote EXCEPT ![i] = r]
      /\ shares' = IF remote[i].kind = "SELL" THEN shares - 1 ELSE shares + 1
  BY <1>1 DEF BrokerFills
<1>3. /\ r \in Remote /\ r.kind = remote[i].kind /\ r.status = "filled"
      /\ r.legs = IF remote[i].kind = "BRACKET" THEN "open" ELSE "none"
  BY <1>1 DEF Remote
<1> HIDE DEF r
<1>4. i \notin Holding /\ i \notin GivenUp BY <1>2 DEF Holding, GivenUp
<1>5. remote[i].kind \in {"BUY", "SELL", "BRACKET"} BY <1>1, <1>2 DEF Remote, Kind
<1>6. Depot'
  <2>1. CASE remote[i].kind = "SELL" BY <1>1, <1>2, <1>3, <1>4, <2>1, DepotStep
  <2>2. CASE remote[i].kind \in {"BUY", "BRACKET"}
    <3>1. r.legs # "filled" BY <1>3
    <3> QED BY <1>1, <1>2, <1>3, <1>4, <2>2, <3>1, DepotStep
  <2> QED BY <1>5, <2>1, <2>2
<1>7. Fit(r) /\ Later(remote[i], r)
  <2>1. remote[i].legs = "none" BY <1>2 DEF Records, Fit
  <2> QED BY <1>2, <1>3, <2>1 DEF Fit, Later
<1> QED BY <1>1, <1>2, <1>6, <1>7 DEF Grows, Records, Later

(* An order that ends, or loses its exit legs. *)
LEMMA EndedIs ==
    ASSUME NEW r \in Remote, Fit(r), NEW status \in {"canceled", "partial"},
           r.kind = "SELL" => status = "canceled"
    PROVE  LET e == EndedAs(r, status) IN
           /\ e \in Remote /\ Fit(e) /\ Later(r, e) /\ e.kind = r.kind
           /\ e.legs = "filled" <=> r.legs = "filled"
           /\ e.status = IF r.status = "open" THEN status ELSE r.status
<1> DEFINE e == EndedAs(r, status)
<1>1. e \in Remote /\ e.kind = r.kind BY EndedType
<1>2. /\ e.status = IF r.status = "open" THEN status ELSE r.status
      /\ e.legs = IF r.legs = "open" \/ (r.kind = "BRACKET" /\ r.status = "open")
                  THEN "canceled" ELSE r.legs
  BY DEF EndedAs, Remote
<1>3. r.legs \in {"none", "open", "filled", "canceled"} BY DEF Remote
<1> HIDE DEF e
<1>4. Fit(e) BY <1>1, <1>2, <1>3 DEF Fit
<1>5. Later(r, e) BY <1>1, <1>2 DEF Later, Fit
<1>6. e.legs = "filled" <=> r.legs = "filled" BY <1>2, <1>3 DEF Fit
<1> QED BY <1>1, <1>2, <1>4, <1>5, <1>6 DEF e

LEMMA DepotEnd ==
    ASSUME IInv, Records, Depot, NEW i \in OrderId,
           NEW status \in {"canceled", "partial"}, BrokerEnds(i, status)
    PROVE  Grows /\ Depot'
<1>1. /\ remote \in [OrderId -> Remote] /\ shares \in Int /\ remote[i] \in Remote
      /\ Fit(remote[i])
  BY DEF IInv, Types, TypeOK, Records
<1>2. /\ remote[i].kind # "NONE" /\ remote[i].status = "open"
      /\ remote[i].kind = "SELL" => status = "canceled"
      /\ remote' = [remote EXCEPT ![i] = EndedAs(remote[i], status)]
      /\ shares' = IF status = "partial" THEN shares + 1 ELSE shares
  BY <1>1 DEF BrokerEnds
<1> DEFINE e == EndedAs(remote[i], status)
<1>3. /\ e \in Remote /\ Fit(e) /\ Later(remote[i], e) /\ e.kind = remote[i].kind
      /\ e.legs = "filled" <=> remote[i].legs = "filled"
      /\ e.status = status
  BY <1>1, <1>2, EndedIs
<1>4. remote' = [remote EXCEPT ![i] = e] BY <1>2
<1> HIDE DEF e
<1>5. i \notin Holding /\ i \notin GivenUp /\ remote[i].legs # "filled"
  BY <1>1, <1>2 DEF Holding, GivenUp, Fit
<1>6. remote[i].kind \in {"BUY", "SELL", "BRACKET"} BY <1>1, <1>2 DEF Remote, Kind
<1>7. Depot'
  <2>1. CASE status = "partial"
    <3>1. shares' = shares + 1 /\ e.kind \in {"BUY", "BRACKET"} BY <1>2, <1>3, <1>6, <2>1
    <3>2. e.legs # "filled" /\ e.status = "partial" BY <1>3, <1>5, <2>1
    <3> QED BY <1>1, <1>3, <1>4, <1>5, <3>1, <3>2, DepotStep
  <2>2. CASE status = "canceled"
    <3>1. shares' = shares BY <1>2, <2>2
    <3>2. e.status = "canceled" BY <1>3, <2>2
    <3> QED BY <1>1, <1>3, <1>4, <1>5, <3>1, <3>2, DepotStep
  <2> QED BY <2>1, <2>2
<1> QED BY <1>1, <1>3, <1>4, <1>7 DEF Grows, Records, Later

LEMMA DepotLegFills ==
    ASSUME IInv, Records, Depot, NEW i \in OrderId, LegFills(i)
    PROVE  Grows /\ Depot'
<1> DEFINE r == [remote[i] EXCEPT !.legs = "filled"]
<1>1. /\ remote \in [OrderId -> Remote] /\ shares \in Int /\ remote[i] \in Remote
      /\ Fit(remote[i])
  BY DEF IInv, Types, TypeOK, Records
<1>2. remote[i].legs = "open" /\ remote' = [remote EXCEPT ![i] = r] /\ shares' = shares - 1
  BY <1>1 DEF LegFills
<1>3. r \in Remote /\ r.kind = remote[i].kind /\ r.status = remote[i].status /\ r.legs = "filled"
  BY <1>1 DEF Remote
<1> HIDE DEF r
<1>4. i \in Holding /\ r.kind = "BRACKET" BY <1>1, <1>2, <1>3 DEF Holding, Fit
<1>5. Depot' BY <1>1, <1>2, <1>3, <1>4, DepotStep
<1>6. Fit(r) /\ Later(remote[i], r) BY <1>1, <1>2, <1>3 DEF Fit, Later
<1> QED BY <1>1, <1>2, <1>5, <1>6 DEF Grows, Records, Later

(* A cancellation, obeyed or not. *)
LEMMA DepotCanceled ==
    ASSUME IInv, Records, Depot, NEW i \in OrderId, UNCHANGED shares,
           \E r \in {remote[i], Ended(remote[i])} : remote' = [remote EXCEPT ![i] = r]
    PROVE  Grows /\ Depot'
<1>1. /\ remote \in [OrderId -> Remote] /\ shares \in Int /\ remote[i] \in Remote
      /\ Fit(remote[i])
  BY DEF IInv, Types, TypeOK, Records
<1>2. PICK r \in {remote[i], Ended(remote[i])} : remote' = [remote EXCEPT ![i] = r]
  OBVIOUS
<1>3. /\ r \in Remote /\ Fit(r) /\ Later(remote[i], r) /\ r.kind = remote[i].kind
      /\ r.legs = "filled" <=> remote[i].legs = "filled"
      /\ r.status = remote[i].status \/ (remote[i].status = "open" /\ r.status = "canceled")
  <2>1. CASE r = remote[i] BY <1>1, <2>1 DEF Later
  <2>2. CASE r = EndedAs(remote[i], "canceled") BY <1>1, <2>2, EndedIs
  <2> QED BY <1>2, <2>1, <2>2 DEF Ended
<1>4. Depot'
  <2>1. remote[i].status = "open" => i \notin Holding /\ i \notin GivenUp
    BY DEF Holding, GivenUp
  <2> QED BY <1>1, <1>2, <1>3, <2>1, DepotStep
<1> QED BY <1>1, <1>2, <1>3, <1>4 DEF Grows, Records, Later

(* An order that is sent. *)
LEMMA DepotSent ==
    ASSUME IInv, Records, Depot, NEW n \in FreeIds, NEW k \in Kind, UNCHANGED shares,
           remote' = [remote EXCEPT ![n] = [NoRemote EXCEPT !.kind = k]]
    PROVE  Grows /\ Depot'
<1> DEFINE r == [NoRemote EXCEPT !.kind = k]
<1>1. /\ remote \in [OrderId -> Remote] /\ shares \in Int
      /\ n \in OrderId /\ remote[n].kind = "NONE"
  BY DEF IInv, Types, TypeOK, FreeIds
<1>2. r \in Remote /\ r.kind = k /\ r.status = "open" /\ r.legs = "none"
  BY NewRemote DEF NoRemote
<1>3. remote' = [remote EXCEPT ![n] = r] OBVIOUS
<1> HIDE DEF r
<1>4. n \notin Holding /\ n \notin GivenUp BY <1>1 DEF Holding, GivenUp
<1>5. Depot' BY <1>1, <1>2, <1>3, <1>4, DepotStep
<1>6. Fit(r) /\ Later(remote[n], r) BY <1>1, <1>2 DEF Fit, Later
<1> QED BY <1>1, <1>3, <1>5, <1>6 DEF Grows, Records, Later

LEMMA DepotSame ==
    ASSUME Records, Depot, UNCHANGED <<remote, shares>>
    PROVE  Grows /\ Depot'
<1>1. Grows BY DEF Grows, Records, Later
<1>2. Depot' BY DEF Depot, Holding, GivenUp
<1> QED BY <1>1, <1>2

LEMMA DepotBroker ==
    ASSUME IInv, Records, Depot, Broker
    PROVE  Grows /\ Depot'
<1>1. ASSUME NEW i \in OrderId, LegsExpire(i) PROVE Grows /\ Depot'
  <2>1. remote' = [remote EXCEPT ![i] = Ended(remote[i])] /\ UNCHANGED shares
    BY <1>1 DEF LegsExpire, IInv, Types, TypeOK
  <2> QED BY <2>1, DepotCanceled
<1> QED BY <1>1, DepotFill, DepotEnd, DepotLegFills DEF Broker

-----------------------------------------------------------------------------
(* The books, order by order. *)

LEMMA LaterSane ==
    ASSUME NEW o \in Local, NEW r \in Remote, NEW s \in Remote, Sane(o, r), Later(r, s),
           o.kind # "NONE" => r.kind # "NONE"
    PROVE  Sane(o, s)
<1>1. CASE o.kind = "NONE"
  <2>1. o = NoLocal BY <1>1 DEF Sane
  <2> QED BY <1>1, <2>1 DEF Sane, NoLocal, LocalOrder
<1>2. CASE o.kind # "NONE" BY <1>2 DEF Sane, Later
<1> QED BY <1>1, <1>2

(* A step that leaves the orders alone. *)
LEMMA SameBooks ==
    ASSUME IInv, IInv', Records, Children, Grows, UNCHANGED orders
    PROVE  Records' /\ Children'
<1>1. Records'
  <2> SUFFICES ASSUME NEW i \in OrderId PROVE Fit(remote'[i]) /\ Sane(orders'[i], remote'[i])
    BY DEF Records
  <2>1. orders[i] \in Local /\ remote[i] \in Remote /\ remote'[i] \in Remote
    BY DEF IInv, Types, TypeOK
  <2>2. orders[i].kind # "NONE" => remote[i].kind # "NONE" BY DEF IInv, Known
  <2>3. Sane(orders[i], remote[i]) BY DEF Records
  <2> QED BY <2>1, <2>2, <2>3, LaterSane DEF Grows
<1>2. Children' BY DEF Children
<1> QED BY <1>1, <1>2

(* What a poll makes of an order that is not being sold by hand. *)
LEMMA PolledSane ==
    ASSUME NEW o \in Local, NEW r \in Remote, Sane(o, r), Fit(r), o.kind # "NONE", ~InSale(o),
           o.kind # "BRACKET" => \/ o.status = "PENDING"
                                 \/ o.status = "FILLED" /\ r.status = "filled"
                                 \/ o.status = "CANCELED" /\ r.status \in {"canceled", "partial"}
    PROVE  /\ Sane(Polled(o, r), r)
           /\ SoldByHand(Polled(o, r)) => SoldByHand(o) /\ Polled(o, r).status = o.status
<1>1. r.status \in {"open", "filled", "canceled", "partial"} BY DEF Remote
<1>2. CASE o.kind = "BRACKET"
  <2>1. Polled(o, r) = PolledBracket(o, r) BY <1>2 DEF Polled
  <2>2. CASE r.legs = "filled"
    <3>1. Polled(o, r) = [o EXCEPT !.status = "FILLED", !.sold = "LEG"]
      BY <2>1, <2>2 DEF PolledBracket
    <3>2. r.status = "filled" BY <2>2 DEF Fit
    <3> QED BY <1>2, <2>2, <3>1, <3>2 DEF Sane, Local, SoldByHand
  <2>3. CASE r.legs # "filled"
    <3> DEFINE new == Polled(o, r).status
    <3>1. /\ Polled(o, r) = [o EXCEPT !.status = new] /\ new \in Status
          /\ \/ new = o.status
             \/ o.status = "PENDING" /\ new = "PENDING_SALE" /\ r.status = "filled"
             \/ o.status # "PENDING_SALE" /\ new = "CANCELED" /\ r.status \in {"canceled", "partial"}
      BY <1>1, <2>1, <2>3 DEF PolledBracket, Local, Status
    <3>2. new = o.status => Polled(o, r) = o BY <3>1 DEF Local
    <3> HIDE DEF new
    <3>3. CASE new = o.status BY <3>2, <3>3
    <3>4. CASE new # o.status
      <4>1. o.child = None /\ o.sold # "MANUAL" /\ o.sold # "LEG"
        BY <1>2, <2>3, <3>1, <3>4 DEF Sane, InSale, Local, Status
      <4> QED BY <1>2, <3>1, <3>4, <4>1 DEF Sane, Local, SoldByHand
    <3> QED BY <3>3, <3>4
  <2> QED BY <2>2, <2>3
<1>3. CASE o.kind # "BRACKET"
  <2>1. Polled(o, r) = PolledMarket(o, r) BY <1>3 DEF Polled
  <2> DEFINE new == Polled(o, r).status
  <2>2. Polled(o, r) = [o EXCEPT !.status = new] /\ new \in {"PENDING", "FILLED", "CANCELED"}
    BY <2>1, PolledMarketIs
  <2>3. new # "PENDING" \/ Polled(o, r) = o
    <3>1. new = "PENDING" => r.status = "open" BY <2>1, PolledMarketIs
    <3>2. new = "PENDING" => o.status = "PENDING" BY <1>3, <3>1
    <3> QED BY <2>2, <3>2 DEF Local
  <2>4. o.child = None /\ o.sold = "NONE" BY <1>3 DEF Sane, Local
  <2> HIDE DEF new
  <2> QED BY <1>3, <2>2, <2>3, <2>4 DEF Sane, Local, SoldByHand
<1> QED BY <1>2, <1>3

(* The orders as a poll of i leaves them. *)
LEMMA PolledOrders ==
    ASSUME IInv, NEW i \in OrderId, Refresh(i)
    PROVE  /\ orders' \in [OrderId -> Local] /\ orders'[i] = Polled(orders[i], remote[i])
           /\ \A j \in OrderId : j # i => orders'[j] = orders[j]
           /\ orders'[i].kind = orders[i].kind /\ orders'[i].child = orders[i].child
           /\ orders'[i].done = orders[i].done
           /\ UNCHANGED <<remote, shares>>
           /\ orders[i].kind \in {"BUY", "SELL"} /\ orders[i].status \in Terminal
                 => orders'[i] = orders[i]
<1>1. orders \in [OrderId -> Local] /\ orders[i] \in Local /\ remote[i] \in Remote
  BY DEF IInv, Types, TypeOK
<1>2. orders' = [orders EXCEPT ![i] = Polled(orders[i], remote[i])] /\ UNCHANGED <<remote, shares>>
  BY <1>1 DEF Refresh, Refreshed, brokerVars
<1>3. /\ Polled(orders[i], remote[i]) \in Local
      /\ Polled(orders[i], remote[i]).kind = orders[i].kind
      /\ Polled(orders[i], remote[i]).child = orders[i].child
      /\ Polled(orders[i], remote[i]).done = orders[i].done
  <2> DEFINE o == orders[i]
             r == remote[i]
  <2>1. CASE o.kind = "BRACKET"
    <3>1. Polled(o, r) = PolledBracket(o, r) BY <2>1 DEF Polled
    <3>2. PolledBracket(o, r).done = o.done BY <1>1 DEF PolledBracket, Local
    <3> QED BY <1>1, <3>1, <3>2, PolledBracketIs
  <2>2. CASE o.kind # "BRACKET"
    <3>1. Polled(o, r) = PolledMarket(o, r) BY <2>2 DEF Polled
    <3>2. /\ PolledMarket(o, r).done = o.done /\ PolledMarket(o, r).kind = o.kind
          /\ PolledMarket(o, r).child = o.child
      BY <1>1 DEF PolledMarket, Local
    <3> QED BY <1>1, <3>1, <3>2, PolledMarketIs
  <2> QED BY <2>1, <2>2
<1>4. ASSUME orders[i].kind \in {"BUY", "SELL"}, orders[i].status \in Terminal
      PROVE  Polled(orders[i], remote[i]) = orders[i]
  <2> DEFINE p == PolledMarket(orders[i], remote[i])
  <2>1. Polled(orders[i], remote[i]) = p BY <1>4 DEF Polled
  <2>2. p.status = orders[i].status
    BY <1>1, <1>4, PolledMarketIs DEF IInv, Settled, Terminal
  <2>3. p = [orders[i] EXCEPT !.status = p.status] BY <1>1, PolledMarketIs
  <2> HIDE DEF p
  <2> QED BY <1>1, <2>1, <2>2, <2>3 DEF Local
<1> QED BY <1>1, <1>2, <1>3, <1>4

LEMMA RefreshBooks ==
    ASSUME IInv, IInv', Records, Children, NEW i \in OrderId, Refresh(i), orders[i].kind # "NONE"
    PROVE  Records' /\ Children'
<1>1. /\ orders' \in [OrderId -> Local] /\ orders'[i] = Polled(orders[i], remote[i])
      /\ \A j \in OrderId : j # i => orders'[j] = orders[j]
      /\ orders'[i].kind = orders[i].kind /\ orders'[i].child = orders[i].child
      /\ remote' = remote
      /\ orders[i].kind \in {"BUY", "SELL"} /\ orders[i].status \in Terminal
            => orders'[i] = orders[i]
  BY PolledOrders
<1>2. orders[i] \in Local /\ remote[i] \in Remote /\ ~InSale(orders[i])
  BY DEF IInv, Types, TypeOK, Refresh
<1>3. /\ Sane(orders'[i], remote[i])
      /\ SoldByHand(orders'[i]) => SoldByHand(orders[i]) /\ orders'[i].status = orders[i].status
  <2>1. orders[i].kind # "BRACKET" => orders[i].kind \in {"BUY", "SELL"} BY <1>2 DEF Local, Kind
  <2>2. orders[i].kind # "BRACKET" =>
            \/ orders[i].status = "PENDING"
            \/ orders[i].status = "FILLED" /\ remote[i].status = "filled"
            \/ orders[i].status = "CANCELED" /\ remote[i].status \in {"canceled", "partial"}
    BY <2>1 DEF IInv, Settled
  <2>3. Sane(orders[i], remote[i]) /\ Fit(remote[i]) BY DEF Records
  <2> QED BY <1>1, <1>2, <2>2, <2>3, PolledSane
<1>4. Records' BY <1>1, <1>3 DEF Records
<1>5. \A j \in OrderId : SoldByHand(orders'[j]) => orders'[orders'[j].child].status = orders'[j].status
  <2> SUFFICES ASSUME NEW j \in OrderId, SoldByHand(orders'[j])
               PROVE  orders'[orders'[j].child].status = orders'[j].status
    OBVIOUS
  <2>1. SoldByHand(orders[j]) /\ orders'[j].status = orders[j].status
        /\ orders'[j].child = orders[j].child
    BY <1>1, <1>3
  <2>2. orders[j].child # None /\ orders[j].child \in OrderId
    BY <2>1 DEF SoldByHand, IInv, Sales, Types, TypeOK, Local
  <2>3. PICK c \in OrderId : c = orders[j].child BY <2>2
  <2>4. orders[c].kind = "SELL" /\ orders[c].status = orders[j].status
    BY <2>1, <2>2, <2>3 DEF IInv, Sales, Children
  <2>5. orders'[c] = orders[c] BY <1>1, <2>1, <2>4 DEF SoldByHand
  <2> QED BY <2>1, <2>3, <2>4, <2>5
<1>6. Children' BY <1>1, <1>5 DEF Children
<1> QED BY <1>4, <1>6

(* The orders as the poll of a manual sale leaves them. *)
LEMMA SaleOrders ==
    ASSUME IInv, Records, Children, NEW i \in OrderId, PollSale(i),
           NEW c \in OrderId, c = orders[i].child
    PROVE  /\ orders' \in [OrderId -> Local] /\ UNCHANGED <<remote, shares>>
           /\ InSale(orders[i]) /\ orders[i].sold = "MANUAL"
           /\ c # i /\ orders[c].kind = "SELL"
           /\ \/ orders' = orders
              \/ \E status \in Terminal :
                    /\ orders'[i] = [orders[i] EXCEPT !.status = status]
                    /\ orders'[c] = [orders[c] EXCEPT !.status = status]
                    /\ \A j \in OrderId \ {i, c} : orders'[j] = orders[j]
                    /\ orders[c].status \in {"PENDING", status}
<1> DEFINE status == PolledMarket(orders[c], remote[c]).status
<1>1. orders \in [OrderId -> Local] BY DEF IInv, Types, TypeOK
<1>2. InSale(orders[i]) /\ c # None /\ UNCHANGED <<remote, shares>>
      /\ orders' = IF status = "PENDING" THEN orders
                   ELSE [orders EXCEPT ![i].status = status, ![c].status = status]
  BY DEF PollSale, Refreshed, brokerVars
<1>3. /\ c # i /\ orders[c].kind = "SELL"
      /\ \/ status = "PENDING"
         \/ status = "FILLED" /\ remote[c].status = "filled"
         \/ status = "CANCELED" /\ remote[c].status \in {"canceled", "partial"}
  BY <1>2, SaleEnds
<1>4. orders[i].sold = "MANUAL" BY <1>2 DEF Records, Sane, InSale
<1>5. orders[c].status \in {"PENDING", status} \/ status = "PENDING"
  BY <1>3 DEF IInv, Settled
<1> HIDE DEF status
<1>6. CASE status = "PENDING" BY <1>1, <1>2, <1>3, <1>4, <1>6
<1>7. CASE status # "PENDING"
  <2>1. status \in Terminal /\ status \in Status BY <1>3, <1>7 DEF Terminal, Status
  <2> DEFINE one == [orders EXCEPT ![i].status = status]
  <2>2. /\ one \in [OrderId -> Local] /\ one[i] = [orders[i] EXCEPT !.status = status]
        /\ \A j \in OrderId : j # i => one[j] = orders[j]
    BY <1>1, <2>1 DEF Local
  <2>3. orders' = [one EXCEPT ![c].status = status] BY <1>2, <1>7
  <2> HIDE DEF one
  <2>4. /\ orders' \in [OrderId -> Local] /\ orders'[c] = [orders[c] EXCEPT !.status = status]
        /\ \A j \in OrderId : j # c => orders'[j] = one[j]
    BY <1>3, <2>1, <2>2, <2>3 DEF Local
  <2>5. \A j \in OrderId \ {i, c} : orders'[j] = orders[j] BY <2>2, <2>4
  <2>6. orders'[i] = [orders[i] EXCEPT !.status = status] BY <1>3, <2>2, <2>4
  <2> QED BY <1>2, <1>3, <1>4, <1>5, <1>7, <2>1, <2>4, <2>5, <2>6
<1> QED BY <1>6, <1>7

LEMMA PollSaleBooks ==
    ASSUME IInv, Records, Children, NEW i \in OrderId, PollSale(i)
    PROVE  Records' /\ Children'
<1>1. orders \in [OrderId -> Local] /\ InSale(orders[i]) /\ orders[i].child # None
  BY DEF IInv, Types, TypeOK, PollSale
<1>2. PICK c \in OrderId : c = orders[i].child BY <1>1 DEF Local
<1>3. /\ orders' \in [OrderId -> Local] /\ UNCHANGED remote
      /\ orders[i].sold = "MANUAL" /\ c # i /\ orders[c].kind = "SELL"
      /\ \/ orders' = orders
         \/ \E status \in Terminal :
               /\ orders'[i] = [orders[i] EXCEPT !.status = status]
               /\ orders'[c] = [orders[c] EXCEPT !.status = status]
               /\ \A j \in OrderId \ {i, c} : orders'[j] = orders[j]
               /\ orders[c].status \in {"PENDING", status}
  BY <1>2, SaleOrders
<1>4. CASE orders' = orders BY <1>3, <1>4 DEF Records, Children
<1>5. ASSUME NEW status \in Terminal,
             orders'[i] = [orders[i] EXCEPT !.status = status],
             orders'[c] = [orders[c] EXCEPT !.status = status],
             \A j \in OrderId \ {i, c} : orders'[j] = orders[j]
      PROVE  Records' /\ Children'
  <2>1. orders[i] \in Local /\ orders[c] \in Local BY <1>1
  <2>2. Sane(orders[i], remote[i]) /\ Sane(orders[c], remote[c]) BY DEF Records
  <2>3. Sane(orders'[i], remote[i])
    BY <1>1, <1>3, <1>5, <2>1, <2>2 DEF Sane, InSale, Local, Terminal
  <2>4. Sane(orders'[c], remote[c])
    <3>1. orders[c].child = None /\ orders[c].sold = "NONE" BY <1>3, <2>1, <2>2 DEF Sane, Local
    <3> QED BY <1>3, <1>5, <2>1, <3>1 DEF Sane, Local, Terminal
  <2>5. Records' BY <1>3, <1>5, <2>3, <2>4 DEF Records
  <2>6. \A j \in OrderId : orders'[j].kind = orders[j].kind /\ orders'[j].child = orders[j].child
                            /\ orders'[j].sold = orders[j].sold
    <3> SUFFICES ASSUME NEW j \in OrderId
                 PROVE  orders'[j].kind = orders[j].kind /\ orders'[j].child = orders[j].child
                        /\ orders'[j].sold = orders[j].sold
      OBVIOUS
    <3> QED BY <1>5, <2>1 DEF Local
  <2>7. ASSUME NEW j \in OrderId, SoldByHand(orders'[j])
        PROVE  orders'[orders'[j].child].status = orders'[j].status
    <3>1. CASE j = i BY <1>2, <1>5, <2>1, <2>6, <3>1 DEF Local
    <3>2. CASE j # i
      <4>1. j # c BY <1>3, <2>6, <2>7 DEF SoldByHand
      <4>2. SoldByHand(orders[j]) /\ orders'[j] = orders[j] BY <1>5, <2>7, <3>2, <4>1
      <4>3. orders[j].child # None /\ orders[j].child \in OrderId
        BY <1>1, <4>2 DEF SoldByHand, IInv, Sales, Local
      <4>4. PICK d \in OrderId : d = orders[j].child BY <4>3
      <4>5. orders[d].kind = "SELL" /\ orders[d].status = orders[j].status
        BY <4>2, <4>3, <4>4 DEF IInv, Sales, Children
      <4>6. d # i /\ d # c BY <1>1, <1>2, <3>2, <4>4, <4>5 DEF Children, InSale
      <4> QED BY <1>5, <4>2, <4>4, <4>5, <4>6
    <3> QED BY <3>1, <3>2
  <2>8. Children' BY <2>6, <2>7 DEF Children
  <2> QED BY <2>5, <2>8
<1> QED BY <1>3, <1>4, <1>5

(* A fresh order. *)
LEMMA FreshSane ==
    ASSUME NEW k \in Kind \ {"NONE"}, NEW r
    PROVE  LET o == LocalOrder(k, "PENDING", "NONE") IN
           /\ o \in Local /\ Sane(o, r) /\ o.kind = k /\ o.status = "PENDING"
           /\ o.child = None /\ o.sold = "NONE" /\ ~SoldByHand(o)
<1>1. LocalOrder(k, "PENDING", "NONE") \in Local BY LocalType DEF Status
<1> QED BY <1>1 DEF LocalOrder, Sane, SoldByHand, Terminal

LEMMA SubmitBooks ==
    ASSUME IInv, IInv', Records, Children, Grows, NEW n \in OrderId, NEW k \in Menu, Submit(n, k)
    PROVE  /\ Records' /\ Children'
           /\ orders'[n].status = "PENDING" /\ orders[n].kind = "NONE"
           /\ \A j \in OrderId \ {n} : orders'[j] = orders[j]
<1>1. orders \in [OrderId -> Local] /\ orders[n].kind = "NONE"
  BY FreeIsUnused DEF IInv, Types, TypeOK, Submit, Accept, IsFirst
<1> DEFINE new == LocalOrder(k, "PENDING", "NONE")
<1>2. orders' = [orders EXCEPT ![n] = new] BY DEF Submit
<1>3. \A r : Sane(new, r) /\ new.status = "PENDING" /\ new.child = None /\ ~SoldByHand(new)
  BY LiveAssumption, FreshSane DEF Kind
<1> HIDE DEF new
<1>4. orders'[n] = new /\ \A j \in OrderId \ {n} : orders'[j] = orders[j] BY <1>1, <1>2
<1>5. Records'
  <2> SUFFICES ASSUME NEW i \in OrderId PROVE Fit(remote'[i]) /\ Sane(orders'[i], remote'[i])
    BY DEF Records
  <2>1. orders[i] \in Local /\ remote[i] \in Remote /\ remote'[i] \in Remote
    BY DEF IInv, Types, TypeOK
  <2>2. orders[i].kind # "NONE" => remote[i].kind # "NONE" BY DEF IInv, Known
  <2>3. Sane(orders[i], remote[i]) BY DEF Records
  <2>4. Sane(orders[i], remote'[i]) BY <2>1, <2>2, <2>3, LaterSane DEF Grows
  <2> QED BY <1>3, <1>4, <2>4 DEF Grows
<1>6. \A j \in OrderId : orders[j].child # n BY <1>1, NoneIsNoId DEF IInv, Sales
<1>7. \A j \in OrderId : orders[j].child \in OrderId \cup {None} BY <1>1 DEF Local
<1>8. \A j \in OrderId : SoldByHand(orders'[j]) => orders'[orders'[j].child].status = orders'[j].status
  <2> SUFFICES ASSUME NEW j \in OrderId, SoldByHand(orders'[j])
               PROVE  orders'[orders'[j].child].status = orders'[j].status
    OBVIOUS
  <2>1. j # n /\ orders'[j] = orders[j] BY <1>3, <1>4
  <2>2. orders[j].child # None BY <2>1 DEF SoldByHand, IInv, Sales
  <2> QED BY <1>4, <1>6, <1>7, <2>1, <2>2 DEF Children
<1>9. Children' BY <1>3, <1>4, <1>8 DEF Children
<1> QED BY <1>1, <1>3, <1>4, <1>5, <1>9

LEMMA SaleAcceptedBooks ==
    ASSUME IInv, IInv', Records, Children, Loops, Grows, NEW n \in OrderId, SaleAccepted(n),
           NEW s \in OrderId, s = selling
    PROVE  /\ Records' /\ Children'
           /\ n # s /\ InSale(orders[s]) /\ orders[n] = NoLocal
           /\ orders'[n].status = "PENDING" /\ orders'[n].kind = "SELL"
           /\ orders'[s].kind = "BRACKET" /\ orders'[s].status = "PENDING_SALE"
           /\ \A j \in OrderId \ {n, s} : orders'[j] = orders[j]
<1>1. orders \in [OrderId -> Local] /\ orders[n].kind = "NONE" /\ selling # None
  BY FreeIsUnused DEF IInv, Types, TypeOK, SaleAccepted, SendSale, IsFirst
<1>2. InSale(orders[s]) /\ orders[s].child = None BY <1>1 DEF Loops
<1>3. n # s BY <1>1, <1>2 DEF InSale
<1> DEFINE new == LocalOrder("SELL", "PENDING", "NONE")
           one == [orders EXCEPT ![n] = new]
<1>4. orders' = [orders EXCEPT ![n] = new, ![s].child = n, ![s].sold = "MANUAL"]
  BY DEF SaleAccepted
<1>5. /\ \A r : Sane(new, r)
      /\ new \in Local /\ new.kind = "SELL" /\ new.status = "PENDING" /\ new.child = None
      /\ ~SoldByHand(new)
  BY FreshSane DEF Kind
<1>6. orders' = [one EXCEPT ![s].child = n, ![s].sold = "MANUAL"] BY <1>4
<1>7. one \in [OrderId -> Local] /\ one[n] = new /\ \A j \in OrderId : j # n => one[j] = orders[j]
  BY <1>1, <1>5
<1> HIDE DEF new, one
<1>8. /\ orders'[n] = new /\ \A j \in OrderId \ {n, s} : orders'[j] = orders[j]
      /\ orders'[s] = [orders[s] EXCEPT !.child = n, !.sold = "MANUAL"]
  BY <1>3, <1>6, <1>7 DEF Local
<1>9. orders[s] \in Local BY <1>1
<1>10. /\ orders'[s].kind = "BRACKET" /\ orders'[s].status = "PENDING_SALE"
       /\ orders'[s].child = n /\ ~SoldByHand(orders'[s])
  BY <1>2, <1>8, <1>9 DEF Local, InSale, SoldByHand, Terminal
<1>11. Records'
  <2> SUFFICES ASSUME NEW i \in OrderId PROVE Fit(remote'[i]) /\ Sane(orders'[i], remote'[i])
    BY DEF Records
  <2>1. orders[i] \in Local /\ remote[i] \in Remote /\ remote'[i] \in Remote
    BY DEF IInv, Types, TypeOK
  <2>2. orders[i].kind # "NONE" => remote[i].kind # "NONE" BY DEF IInv, Known
  <2>3. Sane(orders[i], remote[i]) BY DEF Records
  <2>4. Sane(orders[i], remote'[i]) BY <2>1, <2>2, <2>3, LaterSane DEF Grows
  <2>5. CASE i = s
    <3>1. n # None BY NoneIsNoId
    <3> QED BY <1>2, <1>8, <1>9, <2>4, <2>5, <3>1 DEF Grows, Sane, Local, InSale
  <2>6. CASE i # s BY <1>5, <1>8, <2>4, <2>6 DEF Grows
  <2> QED BY <2>5, <2>6
<1>12. \A j \in OrderId : orders[j].child # n BY <1>1, NoneIsNoId DEF IInv, Sales
<1>13. \A j \in OrderId : orders[j].child \in OrderId \cup {None} BY <1>1 DEF Local
<1>14. \A j \in OrderId : SoldByHand(orders'[j]) => orders'[orders'[j].child].status = orders'[j].status
  <2> SUFFICES ASSUME NEW j \in OrderId, SoldByHand(orders'[j])
               PROVE  orders'[orders'[j].child].status = orders'[j].status
    OBVIOUS
  <2>1. j # n /\ j # s /\ orders'[j] = orders[j] BY <1>5, <1>8, <1>10
  <2>2. orders[j].child # None BY <2>1 DEF SoldByHand, IInv, Sales
  <2>3. PICK c \in OrderId : c = orders[j].child BY <1>13, <2>2
  <2>4. orders[c].kind = "SELL" BY <2>2, <2>3 DEF IInv, Sales
  <2>5. c # s /\ c # n BY <1>2, <1>12, <2>3, <2>4 DEF InSale
  <2> QED BY <1>8, <2>1, <2>3, <2>5 DEF Children
<1>15. Children'
  <2> SUFFICES ASSUME NEW i \in OrderId, NEW j \in OrderId,
                      orders'[i].child # None, orders'[i].child = orders'[j].child
               PROVE  i = j
    BY <1>14 DEF Children
  <2>1. i # n /\ j # n BY <1>5, <1>8
  <2>2. CASE i = s \/ j = s BY <1>8, <1>10, <1>12, <2>1, <2>2
  <2>3. CASE i # s /\ j # s BY <1>8, <2>1, <2>3 DEF Children
  <2> QED BY <2>2, <2>3
<1>16. orders[n] = NoLocal BY <1>1 DEF Records, Sane
<1> QED BY <1>2, <1>3, <1>5, <1>8, <1>10, <1>11, <1>15, <1>16

(* What the list makes of an order. *)
LEMMA CreatedSane ==
    ASSUME NEW r \in Remote, Fit(r)
    PROVE  Sane(Created(r), r)
<1>1. r.kind \in Kind /\ r.legs \in {"none", "open", "filled", "canceled"} BY DEF Remote
<1>2. CASE r.kind = "NONE" BY <1>2 DEF Created, Sane, NoLocal, LocalOrder
<1>3. CASE r.kind \in {"BUY", "SELL"}
  <2> DEFINE raw == LocalOrder(r.kind, "PENDING", "NONE")
             new == PolledMarket(raw, r).status
  <2>1. Created(r) = PolledMarket(raw, r) BY <1>3 DEF Created
  <2>2. raw \in Local /\ Sane(raw, r) /\ raw.kind = r.kind /\ raw.child = None /\ raw.sold = "NONE"
        /\ raw.status = "PENDING"
    BY <1>3, FreshSane DEF Kind
  <2> HIDE DEF raw
  <2>3. /\ PolledMarket(raw, r) = [raw EXCEPT !.status = new]
        /\ new \in {"PENDING", "FILLED", "CANCELED"}
    BY <2>2, PolledMarketIs
  <2> HIDE DEF new
  <2> QED BY <1>3, <2>1, <2>2, <2>3 DEF Sane, Local
<1>4. CASE r.kind = "BRACKET"
  <2>1. \/ r.legs = "filled" /\ Created(r) = LocalOrder("BRACKET", "FILLED", "LEG")
        \/ r.legs = "canceled" /\ Created(r) = LocalOrder("BRACKET", "FILLED", "NONE")
        \/ r.status = "filled" /\ Created(r) = LocalOrder("BRACKET", "PENDING_SALE", "NONE")
        \/ Created(r) = LocalOrder("BRACKET", "PENDING", "NONE")
    BY <1>1, <1>4 DEF Created
  <2>2. CASE r.legs = "filled" /\ Created(r) = LocalOrder("BRACKET", "FILLED", "LEG")
    BY <2>2 DEF Sane, LocalOrder
  <2>3. CASE Created(r) = LocalOrder("BRACKET", "FILLED", "NONE")
    BY <2>3 DEF Sane, LocalOrder
  <2>4. CASE r.status = "filled" /\ Created(r) = LocalOrder("BRACKET", "PENDING_SALE", "NONE")
    BY <2>4 DEF Sane, LocalOrder
  <2>5. CASE Created(r) = LocalOrder("BRACKET", "PENDING", "NONE")
    BY <2>5 DEF Sane, LocalOrder
  <2> QED BY <2>1, <2>2, <2>3, <2>4, <2>5
<1> QED BY <1>1, <1>2, <1>3, <1>4 DEF Kind

LEMMA ListOrdersBooks ==
    ASSUME IInv, Records, Children, ListOrders
    PROVE  Records' /\ Children'
<1>1. orders \in [OrderId -> Local] /\ remote \in [OrderId -> Remote] BY DEF IInv, Types, TypeOK
<1>2. /\ remote' = remote
      /\ \A i \in OrderId : IF remote[i].kind # "NONE" /\ orders[i].kind = "NONE"
                            THEN orders'[i] = Created(remote[i]) ELSE orders'[i] = orders[i]
  BY DEF ListOrders, brokerVars
<1>3. \A i \in OrderId : Created(remote[i]).child = None /\ Created(remote[i]).sold # "MANUAL"
                         /\ Sane(Created(remote[i]), remote[i])
  BY <1>1, CreatedIs, CreatedSane DEF Records
<1>4. Records' BY <1>2, <1>3 DEF Records
<1>5. \A j \in OrderId : orders'[j].child # None \/ orders'[j].sold = "MANUAL" => orders'[j] = orders[j]
  BY <1>2, <1>3
<1>6. \A j \in OrderId : SoldByHand(orders'[j]) => orders'[orders'[j].child].status = orders'[j].status
  <2> SUFFICES ASSUME NEW j \in OrderId, SoldByHand(orders'[j])
               PROVE  orders'[orders'[j].child].status = orders'[j].status
    OBVIOUS
  <2>1. orders'[j] = orders[j] BY <1>5 DEF SoldByHand
  <2>2. orders[j].child # None /\ orders[j].child \in OrderId
    BY <1>1, <2>1 DEF SoldByHand, IInv, Sales, Local
  <2>3. PICK c \in OrderId : c = orders[j].child BY <2>2
  <2>4. orders[c].kind = "SELL" BY <2>2, <2>3 DEF IInv, Sales
  <2>5. orders'[c] = orders[c] BY <1>2, <2>4
  <2> QED BY <2>1, <2>3, <2>5 DEF Children
<1>7. Children' BY <1>5, <1>6 DEF Children
<1> QED BY <1>4, <1>7

(* Applying an order marks orders and changes nothing else of them. *)
LEMMA AppliedOrders ==
    ASSUME IInv, NEW i \in OrderId, Apply(i), NEW j \in OrderId
    PROVE  /\ orders'[j].kind = orders[j].kind /\ orders'[j].status = orders[j].status
           /\ orders'[j].child = orders[j].child /\ orders'[j].sold = orders[j].sold
           /\ orders'[j].manual = orders[j].manual
           /\ orders[i].done \/ j \notin Marked(i) => orders'[j] = orders[j]
<1>1. orders[j] \in Local BY DEF IInv, Types, TypeOK
<1>2. CASE orders[i].done BY <1>1, <1>2 DEF Apply
<1>3. CASE ~orders[i].done
  <2> DEFINE d == orders[j].done \/ j \in Marked(i)
  <2>1. orders'[j] = [orders[j] EXCEPT !.done = d] BY <1>3 DEF Apply
  <2>2. j \notin Marked(i) => d = orders[j].done BY <1>1 DEF Local
  <2> HIDE DEF d
  <2>3. j \notin Marked(i) => orders'[j] = orders[j] BY <1>1, <2>1, <2>2 DEF Local
  <2> QED BY <1>1, <1>3, <2>1, <2>3 DEF Local
<1> QED BY <1>2, <1>3

(* What is marked has ended. *)
LEMMA MarkedAre ==
    ASSUME IInv, Records, Children, NEW i \in OrderId, Apply(i), ~orders[i].done,
           NEW j \in Marked(i)
    PROVE  /\ j \in OrderId /\ orders[j].kind \in {"BUY", "SELL"} /\ orders[j].status \in Terminal
           /\ \/ j = i
              \/ /\ orders[i].kind = "BRACKET" /\ orders[i].status = "FILLED"
                 /\ orders[i].sold = "MANUAL" /\ j = orders[i].child
                 /\ orders[j].kind = "SELL" /\ orders[j].status = "FILLED"
<1>1. orders[i] \in Local BY DEF IInv, Types, TypeOK
<1>2. CASE orders[i].kind # "BRACKET"
  <2>1. j = i /\ orders[i].status # "PENDING"
    BY <1>2 DEF Marked, Apply, Raises, Unhandled
  <2>2. orders[i].kind # "NONE" BY <2>1 DEF Records, Sane, NoLocal, LocalOrder
  <2>3. orders[i].kind \in {"BUY", "SELL"} BY <1>1, <1>2, <2>2 DEF Local, Kind
  <2>4. orders[i].status \in Terminal BY <2>1, <2>3 DEF IInv, Settled, Terminal
  <2> QED BY <2>1, <2>3, <2>4
<1>3. CASE orders[i].kind = "BRACKET"
  <2>1. orders[i].status = "FILLED" /\ orders[i].sold = "MANUAL" /\ j = orders[i].child
    BY <1>3 DEF Marked
  <2>2. j # None /\ j \in OrderId BY <1>1, <2>1 DEF IInv, Sales, Local
  <2>3. orders[j].kind = "SELL" BY <2>1, <2>2 DEF IInv, Sales
  <2>4. orders[j].status = "FILLED"
    BY <1>3, <2>1 DEF Children, SoldByHand, Terminal
  <2> QED BY <1>3, <2>1, <2>2, <2>3, <2>4 DEF Terminal
<1> QED BY <1>2, <1>3

LEMMA ApplyBooks ==
    ASSUME IInv, Records, Children, NEW i \in OrderId, Apply(i)
    PROVE  Records' /\ Children'
<1>1. remote' = remote /\ orders \in [OrderId -> Local] BY DEF Apply, brokerVars, IInv, Types, TypeOK
<1>2. Records'
  <2> SUFFICES ASSUME NEW j \in OrderId PROVE Sane(orders'[j], remote[j])
    BY <1>1 DEF Records
  <2>1. /\ orders'[j].kind = orders[j].kind /\ orders'[j].status = orders[j].status
        /\ orders'[j].child = orders[j].child /\ orders'[j].sold = orders[j].sold
        /\ orders'[j].manual = orders[j].manual
        /\ orders[i].done \/ j \notin Marked(i) => orders'[j] = orders[j]
    BY AppliedOrders
  <2>2. Sane(orders[j], remote[j]) BY DEF Records
  <2>3. CASE orders[i].done \/ j \notin Marked(i) BY <2>1, <2>2, <2>3
  <2>4. CASE ~orders[i].done /\ j \in Marked(i)
    <3>1. orders[j].kind \in {"BUY", "SELL"} /\ orders[j].status \in Terminal
      BY <2>4, MarkedAre
    <3> QED BY <2>1, <2>2, <3>1 DEF Sane, Terminal
  <2> QED BY <2>3, <2>4
<1>3. Children'
  <2>1. \A j \in OrderId : /\ orders'[j].kind = orders[j].kind /\ orders'[j].status = orders[j].status
                           /\ orders'[j].child = orders[j].child /\ orders'[j].sold = orders[j].sold
    BY AppliedOrders
  <2>2. \A j \in OrderId : SoldByHand(orders[j]) => orders[j].child \in OrderId
    BY <1>1 DEF SoldByHand, IInv, Sales, Local
  <2>3. \A j \in OrderId : SoldByHand(orders'[j]) <=> SoldByHand(orders[j])
    BY <2>1 DEF SoldByHand
  <2> QED BY <2>1, <2>2, <2>3 DEF Children
<1> QED BY <1>2, <1>3

LEMMA StrategyBooks ==
    ASSUME IInv, Records, Children, Strategy
    PROVE  /\ Records' /\ Children'
           /\ \A j \in OrderId : /\ orders'[j].kind = orders[j].kind
                                 /\ orders'[j].status = orders[j].status
                                 /\ orders'[j].sold = orders[j].sold
                                 /\ orders'[j].child = orders[j].child
           /\ \A j \in todo' : InSale(orders'[j])
<1>1. orders \in [OrderId -> Local] /\ remote' = remote /\ pending \subseteq OrderId
  BY DEF Strategy, brokerVars, IInv, Types, TypeOK
<1>2. PICK sale \in {{}} \cup {{i} : i \in {j \in pending :
                orders[j].kind = "BRACKET" /\ orders[j].status = "PENDING_SALE"}} :
          /\ orders' = [i \in OrderId |-> [orders[i] EXCEPT !.manual = @ \/ i \in sale]]
          /\ todo' = sale
  BY DEF Strategy
<1>3. \A j \in sale : j \in OrderId /\ orders[j].kind = "BRACKET"
                      /\ orders[j].status = "PENDING_SALE"
  BY <1>1
<1>4. ASSUME NEW j \in OrderId
      PROVE  /\ orders'[j].kind = orders[j].kind /\ orders'[j].status = orders[j].status
             /\ orders'[j].child = orders[j].child /\ orders'[j].sold = orders[j].sold
             /\ orders'[j].done = orders[j].done
             /\ orders[j].manual \/ j \in sale => orders'[j].manual
             /\ j \notin sale => orders'[j] = orders[j]
  <2> DEFINE m == orders[j].manual \/ j \in sale
  <2>1. orders[j] \in Local BY <1>1
  <2>2. orders'[j] = [orders[j] EXCEPT !.manual = m] BY <1>2
  <2>3. j \notin sale => m = orders[j].manual BY <2>1 DEF Local
  <2>4. orders[j].manual \/ j \in sale => m OBVIOUS
  <2> HIDE DEF m
  <2>5. j \notin sale => orders'[j] = orders[j] BY <2>1, <2>2, <2>3 DEF Local
  <2>6. orders'[j].manual = m BY <2>1, <2>2 DEF Local
  <2> QED BY <2>1, <2>2, <2>4, <2>5, <2>6 DEF Local
<1>5. Records'
  <2> SUFFICES ASSUME NEW j \in OrderId PROVE Sane(orders'[j], remote[j])
    BY <1>1 DEF Records
  <2>1. Sane(orders[j], remote[j]) BY DEF Records
  <2>2. CASE j \notin sale BY <1>4, <2>1, <2>2
  <2>3. CASE j \in sale BY <1>3, <1>4, <2>1, <2>3 DEF Sane
  <2> QED BY <2>2, <2>3
<1>6. Children'
  <2>1. \A j \in OrderId : SoldByHand(orders[j]) => orders[j].child \in OrderId
    BY <1>1 DEF SoldByHand, IInv, Sales, Local
  <2>2. \A j \in OrderId : SoldByHand(orders'[j]) <=> SoldByHand(orders[j])
    BY <1>4 DEF SoldByHand
  <2> QED BY <1>4, <2>1, <2>2 DEF Children
<1>7. \A j \in todo' : InSale(orders'[j]) BY <1>2, <1>3, <1>4 DEF InSale
<1> QED BY <1>4, <1>5, <1>6, <1>7

(* No orders at all. *)
LEMMA NoBooks ==
    ASSUME \A i \in OrderId : orders[i] = NoLocal, \A i \in OrderId : Fit(remote[i])
    PROVE  Records /\ Children
<1>1. /\ \A r : Sane(NoLocal, r)
      /\ ~SoldByHand(NoLocal) /\ NoLocal.child = None
  BY DEF Sane, SoldByHand, NoLocal, LocalOrder
<1> QED BY <1>1 DEF Records, Children

LEMMA RestartBooks ==
    ASSUME IInv, Records, Restart
    PROVE  Records' /\ Children'
<1>1. remote' = remote /\ \A i \in OrderId : orders'[i] = NoLocal BY DEF Restart, brokerVars
<1>2. /\ \A r : Sane(NoLocal, r)
      /\ ~SoldByHand(NoLocal) /\ NoLocal.child = None
  BY DEF Sane, SoldByHand, NoLocal, LocalOrder
<1> QED BY <1>1, <1>2 DEF Records, Children

-----------------------------------------------------------------------------
(* The loops. *)

(* A step that begins or ends outside the loops. *)
LEMMA NoLoop ==
    ASSUME Loops, phase \notin {"poll", "manual", "orders"}
    PROVE  selling = None
BY DEF Loops

LEMMA LoopsOver ==
    ASSUME selling' = None, phase' \notin {"poll", "manual", "orders"}
    PROVE  Loops'
BY DEF Loops

(* A loop that goes on without the order it has met, if any. *)
LEMMA LoopsGoOn ==
    ASSUME Loops, UNCHANGED <<orders, phase, changed>>, todo' \subseteq todo,
           selling' # None => UNCHANGED <<todo, selling>>
    PROVE  Loops'
BY DEF Loops

LEMMA RefreshLoops ==
    ASSUME IInv, Loops, NEW i \in OrderId, Refresh(i)
    PROVE  /\ Loops'
           /\ phase \in {"poll", "orders"} /\ i \in todo /\ orders[i].kind # "NONE"
<1>1. /\ orders \in [OrderId -> Local] /\ orders[i] \in Local /\ remote[i] \in Remote
      /\ pending \subseteq OrderId /\ changed \subseteq OrderId
  BY DEF IInv, Types, TypeOK
<1>2. /\ orders'[i] = Polled(orders[i], remote[i])
      /\ \A j \in OrderId : j # i => orders'[j] = orders[j]
      /\ orders'[i].kind = orders[i].kind
  BY PolledOrders
<1>3. /\ phase \in {"poll", "manual", "orders"} /\ i \in todo
      /\ selling = None /\ selling' = None /\ ~InSale(orders[i])
      /\ todo' = todo \ {i} /\ phase' = phase
      /\ phase = "poll" => changed' = IF orders'[i].status # orders[i].status
                                      THEN changed \cup {i} ELSE changed
  BY DEF Refresh, Refreshing, IsFirst, Refreshed
<1>4. phase \in {"poll", "orders"} BY <1>3 DEF Loops
<1>5. orders[i].kind # "NONE" BY <1>3, <1>4 DEF Loops, IInv, Opened, Known
<1>6. orders'[i].status = "PENDING" => orders[i].status = "PENDING"
  <2>1. CASE orders[i].kind = "BRACKET"
    <3>1. orders'[i] = PolledBracket(orders[i], remote[i]) BY <1>2, <2>1 DEF Polled
    <3> QED BY <1>1, <3>1 DEF PolledBracket, Local
  <2>2. CASE orders[i].kind # "BRACKET"
    <3>1. orders'[i] = PolledMarket(orders[i], remote[i]) BY <1>2, <2>2 DEF Polled
    <3>2. orders'[i].status = "PENDING" => remote[i].status = "open"
      BY <1>1, <3>1, PolledMarketIs
    <3>3. orders[i].kind \in {"BUY", "SELL"} BY <1>1, <1>5, <2>2 DEF Local, Kind
    <3> QED BY <3>2, <3>3 DEF IInv, Settled
  <2> QED BY <2>1, <2>2
<1>7. Loops'
  <2>1. CASE phase = "poll"
    <3>1. todo \cap changed = {} /\ \A j \in changed : orders[j].status # "PENDING"
      BY <2>1 DEF Loops
    <3>2. todo' \cap changed' = {} BY <1>3, <2>1, <3>1
    <3>3. \A j \in changed' : orders'[j].status # "PENDING"
      BY <1>1, <1>2, <1>3, <1>6, <2>1, <3>1
    <3> QED BY <1>3, <2>1, <3>2, <3>3 DEF Loops
  <2>2. CASE phase = "orders"
    <3>1. \A j \in todo' : orders'[j].kind # "NONE"
      BY <1>2, <1>3, <2>2 DEF Loops, IInv, Types, TypeOK
    <3> QED BY <1>3, <2>2, <3>1 DEF Loops
  <2> QED BY <1>4, <2>1, <2>2
<1> QED BY <1>3, <1>4, <1>5, <1>7

LEMMA PollSaleLoops ==
    ASSUME IInv, Records, Children, Loops, NEW i \in OrderId, PollSale(i)
    PROVE  Loops'
<1>1. /\ orders \in [OrderId -> Local] /\ orders[i].child # None
      /\ todo \subseteq OrderId /\ changed \subseteq OrderId
  BY DEF IInv, Types, TypeOK, PollSale
<1>2. PICK c \in OrderId : c = orders[i].child BY <1>1 DEF Local
<1>3. /\ InSale(orders[i]) /\ c # i /\ orders[c].kind = "SELL"
      /\ \/ orders' = orders
         \/ \E status \in Terminal :
               /\ orders'[i] = [orders[i] EXCEPT !.status = status]
               /\ orders'[c] = [orders[c] EXCEPT !.status = status]
               /\ \A j \in OrderId \ {i, c} : orders'[j] = orders[j]
               /\ orders[c].status \in {"PENDING", status}
  BY <1>2, SaleOrders
<1>4. /\ phase \in {"poll", "manual", "orders"} /\ i \in todo
      /\ selling = None /\ selling' = None
      /\ todo' = todo \ {i} /\ phase' = phase
      /\ changed' = IF \/ phase = "poll" /\ orders'[i].status # orders[i].status
                       \/ phase = "manual" /\ orders'[i].status = "FILLED"
                    THEN changed \cup {i} ELSE changed
  BY DEF PollSale, Refreshing, IsFirst, Refreshed
<1>5. CASE orders' = orders
  <2>1. \A j \in changed' : j \in changed \/ orders'[j].status # "PENDING"
    BY <1>4, <1>5
  <2> QED BY <1>4, <1>5, <2>1 DEF Loops
<1>6. ASSUME NEW status \in Terminal,
             orders'[i] = [orders[i] EXCEPT !.status = status],
             orders'[c] = [orders[c] EXCEPT !.status = status],
             \A j \in OrderId \ {i, c} : orders'[j] = orders[j]
      PROVE  Loops'
  <2>1. \A j \in OrderId : /\ orders'[j].kind = orders[j].kind
                           /\ orders'[j].status \in {orders[j].status, status}
                           /\ j \notin {i, c} => orders'[j] = orders[j]
    <3> SUFFICES ASSUME NEW j \in OrderId
                 PROVE  /\ orders'[j].kind = orders[j].kind
                        /\ orders'[j].status \in {orders[j].status, status}
                        /\ j \notin {i, c} => orders'[j] = orders[j]
      OBVIOUS
    <3>1. orders[j] \in Local BY <1>1
    <3> QED BY <1>6, <3>1 DEF Local
  <2>2. orders'[i].status # "PENDING"
    <3>1. orders[i] \in Local BY <1>1
    <3> QED BY <1>6, <3>1 DEF Local, Terminal
  <2>3. phase \in {"poll", "manual"} =>
            /\ todo' \cap changed' = {}
            /\ \A j \in changed' : orders'[j].status # "PENDING"
    <3>1. status # "PENDING" BY DEF Terminal
    <3> QED BY <1>1, <1>4, <2>1, <2>2, <3>1 DEF Loops
  <2>4. phase = "manual" => \A j \in todo' : InSale(orders'[j])
    <3> SUFFICES ASSUME phase = "manual", NEW j \in todo' PROVE InSale(orders'[j])
      OBVIOUS
    <3>1. j \in OrderId /\ j # i /\ InSale(orders[j]) BY <1>1, <1>4 DEF Loops
    <3>2. j # c BY <1>3, <3>1 DEF InSale
    <3> QED BY <2>1, <3>1, <3>2
  <2>5. phase = "orders" => \A j \in todo' : orders'[j].kind # "NONE"
    BY <1>1, <1>4, <2>1 DEF Loops
  <2> QED BY <1>4, <2>3, <2>4, <2>5 DEF Loops
<1> QED BY <1>3, <1>5, <1>6

LEMMA SaleAcceptedLoops ==
    ASSUME IInv, IInv', Records, Children, Loops, Grows, NEW n \in OrderId, SaleAccepted(n)
    PROVE  Loops'
<1>1. /\ selling # None /\ selling' = None /\ todo' = todo \ {selling}
      /\ UNCHANGED <<phase, changed>>
      /\ todo \subseteq OrderId /\ changed \subseteq OrderId
  BY DEF SaleAccepted, SendSale, IInv, Types, TypeOK
<1>2. selling \in todo BY <1>1 DEF Loops
<1>3. PICK s \in OrderId : s = selling BY <1>1, <1>2
<1>4. /\ n # s /\ InSale(orders[s]) /\ orders[n] = NoLocal
      /\ orders'[n].kind = "SELL" /\ orders'[s].kind = "BRACKET"
      /\ \A j \in OrderId \ {n, s} : orders'[j] = orders[j]
  BY <1>3, SaleAcceptedBooks
<1>5. orders[n].status = "PENDING" /\ orders[n].kind = "NONE" BY <1>4 DEF NoLocal, LocalOrder
<1>6. phase \in {"poll", "manual"} =>
          /\ todo' \cap changed' = {}
          /\ \A j \in changed' : orders'[j].status # "PENDING"
  <2> SUFFICES ASSUME phase \in {"poll", "manual"}
               PROVE  /\ todo' \cap changed' = {}
                      /\ \A j \in changed' : orders'[j].status # "PENDING"
    OBVIOUS
  <2>1. n \notin changed /\ s \notin changed BY <1>2, <1>3, <1>5 DEF Loops
  <2> QED BY <1>1, <1>4, <2>1 DEF Loops
<1>7. phase = "manual" => \A j \in todo' : InSale(orders'[j])
  <2> SUFFICES ASSUME phase = "manual", NEW j \in todo' PROVE InSale(orders'[j])
    OBVIOUS
  <2>1. j \in OrderId /\ j # s /\ InSale(orders[j]) BY <1>1, <1>3 DEF Loops
  <2>2. j # n BY <1>5, <2>1 DEF InSale
  <2> QED BY <1>4, <2>1, <2>2
<1>8. phase = "orders" => \A j \in todo' : orders'[j].kind # "NONE"
  BY <1>1, <1>4 DEF Loops
<1> QED BY <1>1, <1>6, <1>7, <1>8 DEF Loops

LEMMA StrategyLoops ==
    ASSUME IInv, Records, Children, Loops, Strategy
    PROVE  Loops'
<1>1. selling' = None /\ phase' = "manual" /\ changed' = {} BY NoLoop DEF Strategy
<1>2. \A j \in todo' : InSale(orders'[j]) BY StrategyBooks
<1> QED BY <1>1, <1>2 DEF Loops

LEMMA ListOrdersLoops ==
    ASSUME IInv, Loops, ListOrders
    PROVE  Loops'
<1>1. selling' = None /\ phase' = "orders" BY NoLoop DEF ListOrders
<1>2. /\ todo' = {i \in OrderId : orders[i].kind # "NONE"}
      /\ \A i \in OrderId : orders[i].kind # "NONE" => orders'[i] = orders[i]
  BY DEF ListOrders
<1> QED BY <1>1, <1>2 DEF Loops

-----------------------------------------------------------------------------
(* The tally. *)

(* With nothing due the position is Net. *)
LEMMA NothingDue ==
    /\ Due = {} => OnceDue /\ Net(orders) = Cardinality(BoughtSoFar) - Cardinality(SoldSoFar)
    /\ Due' = {} => /\ OnceDue'
                    /\ Net(orders') = Cardinality(BoughtSoFar') - Cardinality(SoldSoFar')
<1>1. ASSUME Due = {}
      PROVE  OnceDue /\ Net(orders) = Cardinality(BoughtSoFar) - Cardinality(SoldSoFar)
  <2>1. OnceDue /\ BoughtSoFar = Bought(orders) /\ SoldSoFar = Sold(orders)
    BY <1>1 DEF OnceDue, BoughtSoFar, SoldSoFar, Bought, Sold
  <2>2. Net(orders) = Cardinality(Bought(orders)) - Cardinality(Sold(orders))
    BY DEF Net, Bought, Sold
  <2> QED BY <2>1, <2>2
<1>2. ASSUME Due' = {}
      PROVE  OnceDue' /\ Net(orders') = Cardinality(BoughtSoFar') - Cardinality(SoldSoFar')
  <2>1. OnceDue' /\ BoughtSoFar' = Bought(orders') /\ SoldSoFar' = Sold(orders')
    BY <1>2 DEF OnceDue, BoughtSoFar, SoldSoFar, Bought, Sold
  <2>2. Net(orders') = Cardinality(Bought(orders')) - Cardinality(Sold(orders'))
    BY DEF Net, Bought, Sold
  <2> QED BY <2>1, <2>2
<1> QED BY <1>1, <1>2

(* The position stays, and so do the lots that are in it. *)
LEMMA TallyKept ==
    ASSUME Tally, pos' = pos,
           ~mishap' => /\ ~mishap /\ OnceDue'
                       /\ \A j \in OrderId : /\ j \in BoughtSoFar' <=> j \in BoughtSoFar
                                             /\ j \in SoldSoFar' <=> j \in SoldSoFar
    PROVE  Tally'
<1> SUFFICES ASSUME ~mishap' PROVE OnceDue' /\ pos' = Cardinality(BoughtSoFar') - Cardinality(SoldSoFar')
  BY DEF Tally
<1>1. BoughtSoFar' \subseteq OrderId /\ BoughtSoFar \subseteq OrderId
  BY DEF BoughtSoFar
<1>2. SoldSoFar' \subseteq OrderId /\ SoldSoFar \subseteq OrderId
  BY DEF SoldSoFar
<1>3. BoughtSoFar' = BoughtSoFar /\ SoldSoFar' = SoldSoFar BY <1>1, <1>2
<1> QED BY <1>3 DEF Tally

(* What is due stays due, and what is not counts as before. *)
LEMMA TallySame ==
    ASSUME Tally, pos' = pos, ~mishap' => ~mishap, Due' = Due,
           \A j \in Due : orders'[j] = orders[j],
           \A j \in OrderId \ Due : /\ j \in Bought(orders') <=> j \in Bought(orders)
                                    /\ j \in Sold(orders') <=> j \in Sold(orders)
    PROVE  Tally'
<1>1. ~mishap => OnceDue' BY DEF Tally, OnceDue
<1>2. ASSUME NEW j \in OrderId PROVE j \in BoughtSoFar' <=> j \in BoughtSoFar
  <2>1. CASE j \in Due BY <2>1 DEF BoughtSoFar, Bought
  <2>2. CASE j \notin Due BY <2>2 DEF BoughtSoFar
  <2> QED BY <2>1, <2>2
<1>3. ASSUME NEW j \in OrderId PROVE j \in SoldSoFar' <=> j \in SoldSoFar
  BY DEF SoldSoFar
<1> QED BY <1>1, <1>2, <1>3, TallyKept

LEMMA TallyQuiet ==
    ASSUME Tally, UNCHANGED <<orders, pos, mishap>>, Due' = Due
    PROVE  Tally'
BY TallySame DEF Bought, Sold

(* The synchronisation of the orders notes the executions it swallows. *)
LEMMA TallySynced ==
    ASSUME Tally, Due = {}, Due' = {}, pos' = pos,
           mishap' = (mishap \/ Net(orders') # Net(orders))
    PROVE  Tally'
BY NothingDue DEF Tally

(* A poll has found an order changed.                                       *)
LEMMA TallyRefreshed ==
    ASSUME IInv, Records, Children, Loops, Tally, NEW i \in OrderId, Refresh(i)
    PROVE  Tally'
<1>1. /\ orders \in [OrderId -> Local] /\ orders[i] \in Local /\ remote[i] \in Remote
      /\ changed \subseteq OrderId
  BY DEF IInv, Types, TypeOK
<1>2. /\ orders'[i] = Polled(orders[i], remote[i])
      /\ \A j \in OrderId : j # i => orders'[j] = orders[j]
      /\ orders'[i].kind = orders[i].kind /\ orders'[i].done = orders[i].done
      /\ orders[i].kind \in {"BUY", "SELL"} /\ orders[i].status \in Terminal
            => orders'[i] = orders[i]
      /\ orders' = [orders EXCEPT ![i] = Polled(@, remote[i])]
  BY PolledOrders DEF Refresh, Refreshed
<1>3. /\ phase \in {"poll", "orders"} /\ i \in todo /\ orders[i].kind # "NONE"
  BY RefreshLoops
<1>4. /\ phase' = phase /\ pos' = pos /\ ~InSale(orders[i])
      /\ changed' = IF phase = "poll" /\ orders'[i].status # orders[i].status
                    THEN changed \cup {i} ELSE changed
      /\ mishap' = (mishap \/ Skipped(i, orders') \/ Swallowed(orders'))
  BY <1>3, <1>2 DEF Refresh, Refreshed
<1>5. CASE phase = "orders"
  <2>1. Due = {} /\ Due' = {} BY <1>4, <1>5 DEF Due
  <2>2. mishap' => mishap \/ Net(orders') # Net(orders) \/ Skipped(i, orders')
    BY <1>4 DEF Swallowed
  <2>3. ~mishap' => ~mishap /\ Net(orders') = Net(orders) BY <1>4, <1>5 DEF Swallowed
  <2> QED BY <1>4, <2>1, <2>3, NothingDue DEF Tally
<1>6. CASE phase = "poll"
  <2>1. Due = changed /\ Due' = changed' /\ i \notin Due
    BY <1>3, <1>4, <1>6 DEF Due, Loops
  <2>2. i \in pending BY <1>3, <1>6 DEF IInv, Opened
  <2>3. orders[i].kind = "BRACKET" => orders[i].status \in {"PENDING", "PENDING_SALE"}
    BY <1>1, <1>3, <2>2 DEF IInv, Opened, Local, Status, Terminal
  <2>4. CASE orders'[i].status = orders[i].status
    <3>1. Due' = Due BY <1>4, <2>1, <2>4
    <3>2. i \in Bought(orders') <=> i \in Bought(orders)
      BY <1>2, <2>3, <2>4 DEF Bought, Terminal
    <3>3. i \in Sold(orders') <=> i \in Sold(orders) BY <1>2, <2>4 DEF Sold
    <3>4. \A j \in OrderId \ Due : /\ j \in Bought(orders') <=> j \in Bought(orders)
                                   /\ j \in Sold(orders') <=> j \in Sold(orders)
      BY <1>2, <3>2, <3>3 DEF Bought, Sold
    <3>5. \A j \in Due : orders'[j] = orders[j] BY <1>1, <1>2, <2>1
    <3> QED BY <1>4, <3>1, <3>4, <3>5, TallySame
  <2>5. CASE orders'[i].status # orders[i].status
    <3>1. Due' = Due \cup {i} /\ Due \subseteq OrderId BY <1>1, <1>4, <1>6, <2>1, <2>5
    <3>2. orders[i].kind \in {"BUY", "SELL"} => orders[i].status = "PENDING"
      BY <1>2, <2>5 DEF IInv, Settled, Terminal
    <3>3. ~orders'[i].done BY <1>2, <1>3, <1>1, <2>3, <3>2 DEF Records, Sane, Local, Kind
    <3>4. ~SoldByHand(orders'[i])
      <4>1. Sane(orders[i], remote[i]) /\ Fit(remote[i]) BY DEF Records
      <4>2. SoldByHand(orders'[i]) => SoldByHand(orders[i]) /\ orders'[i].status = orders[i].status
        <5>1. orders[i].kind # "BRACKET" =>
                \/ orders[i].status = "PENDING"
                \/ orders[i].status = "FILLED" /\ remote[i].status = "filled"
                \/ orders[i].status = "CANCELED" /\ remote[i].status \in {"canceled", "partial"}
          BY <1>1, <1>3, <3>2 DEF Local, Kind
        <5> QED BY <1>1, <1>2, <1>3, <1>4, <4>1, <5>1, PolledSane
      <4> QED BY <2>5, <4>2
    <3>5. \A j \in Due : orders'[j] = orders[j] BY <2>1, <3>1, <1>2
    <3>6. ASSUME ~mishap' PROVE OnceDue'
      <4>1. ~mishap /\ OnceDue BY <1>4, <3>6 DEF Tally
      <4>2. ASSUME NEW j \in Due, SoldByHand(orders[j]), orders[j].status = "FILLED"
            PROVE  orders[j].child # i
        <5>1. j \in OrderId BY <3>1
        <5>2. orders[orders[j].child].status = "FILLED" /\ orders[j].child # None
          BY <4>2, <5>1 DEF Children, SoldByHand, IInv, Sales
        <5>3. orders[orders[j].child].kind = "SELL" BY <5>1, <5>2 DEF IInv, Sales
        <5> QED BY <3>2, <5>2, <5>3
      <4> QED BY <3>1, <3>3, <3>4, <3>5, <4>1, <4>2 DEF OnceDue
    <3>7. ASSUME ~mishap' PROVE i \in BoughtSoFar' <=> i \in BoughtSoFar
      <4>1. ~Skipped(i, orders') BY <1>4, <3>7
      <4>2. CASE orders[i].kind \in {"BUY", "SELL"}
        <5>1. i \notin Bought(orders) BY <3>2, <4>2 DEF Bought
        <5>2. i \in Bought(orders') => Buys(orders'[i]) BY <1>2, <4>2 DEF Bought, Buys
        <5>3. ~LegSold(orders'[i]) BY <1>2, <4>2 DEF LegSold
        <5> QED BY <2>1, <3>1, <5>1, <5>2, <5>3 DEF BoughtSoFar
      <4>3. CASE orders[i].kind = "BRACKET" /\ orders[i].status = "PENDING"
        <5>1. i \notin Bought(orders) BY <4>3 DEF Bought, Terminal
        <5>2. orders'[i].status # "FILLED" BY <1>2, <4>1, <4>3 DEF Skipped
        <5>3. i \in Bought(orders') => Buys(orders'[i])
          BY <1>2, <3>4, <4>3 DEF Bought, Buys, SoldByHand
        <5>4. ~LegSold(orders'[i]) BY <5>2 DEF LegSold
        <5> QED BY <2>1, <3>1, <5>1, <5>3, <5>4 DEF BoughtSoFar
      <4>4. CASE orders[i].kind = "BRACKET" /\ orders[i].status = "PENDING_SALE"
        <5>1. i \in Bought(orders) BY <4>4 DEF Bought
        <5>2. LegSold(orders'[i])
          <6>1. orders'[i] = PolledBracket(orders[i], remote[i]) BY <1>2, <4>4 DEF Polled
          <6>2. CASE remote[i].legs = "filled"
            <7>1. orders'[i] = [orders[i] EXCEPT !.status = "FILLED", !.sold = "LEG"]
              BY <6>1, <6>2 DEF PolledBracket
            <7> QED BY <1>1, <4>4, <7>1 DEF LegSold, Local
          <6>3. CASE remote[i].legs # "filled"
            <7>1. orders'[i] = [orders[i] EXCEPT !.status = "PENDING_SALE"]
              BY <4>4, <6>1, <6>3 DEF PolledBracket
            <7> QED BY <1>1, <2>5, <4>4, <7>1 DEF Local
          <6> QED BY <6>2, <6>3
        <5> QED BY <2>1, <3>1, <5>1, <5>2 DEF BoughtSoFar
      <4> QED BY <1>1, <1>3, <2>3, <4>2, <4>3, <4>4 DEF Local, Kind
    <3>8. ASSUME NEW j \in OrderId, j # i PROVE j \in BoughtSoFar' <=> j \in BoughtSoFar
      <4>1. orders'[j] = orders[j] /\ (j \in Due' <=> j \in Due) BY <1>2, <3>1, <3>8
      <4>2. j \in Bought(orders') <=> j \in Bought(orders) BY <4>1 DEF Bought
      <4> QED BY <4>1, <4>2 DEF BoughtSoFar
    <3>9. ASSUME NEW j \in OrderId PROVE j \in SoldSoFar' <=> j \in SoldSoFar
      <4>1. CASE j = i
        <5>1. i \notin Sold(orders) BY <3>2 DEF Sold
        <5> QED BY <3>1, <4>1, <5>1 DEF SoldSoFar
      <4>2. CASE j # i
        <5>1. j \in Sold(orders') <=> j \in Sold(orders) BY <1>2, <4>2 DEF Sold
        <5>2. j \in Due' <=> j \in Due BY <3>1, <4>2
        <5> QED BY <3>1, <3>4, <3>5, <5>1, <5>2 DEF SoldSoFar
      <4> QED BY <4>1, <4>2
    <3> QED BY <1>4, <3>6, <3>7, <3>8, <3>9, TallyKept
  <2> QED BY <2>4, <2>5
<1> QED BY <1>3, <1>5, <1>6

(* A manual sale has been polled: the bracket and the order that sells it  *)
(* end together, and the end is due once, with the bracket.                *)
LEMMA TallySale ==
    ASSUME IInv, Records, Children, Loops, Tally, NEW i \in OrderId, PollSale(i)
    PROVE  Tally'
<1>1. /\ orders \in [OrderId -> Local] /\ orders[i].child # None
      /\ changed \subseteq OrderId
  BY DEF IInv, Types, TypeOK, PollSale
<1>2. PICK c \in OrderId : c = orders[i].child BY <1>1 DEF Local
<1>3. /\ InSale(orders[i]) /\ orders[i].sold = "MANUAL" /\ c # i /\ orders[c].kind = "SELL"
      /\ \/ orders' = orders
         \/ \E status \in Terminal :
               /\ orders'[i] = [orders[i] EXCEPT !.status = status]
               /\ orders'[c] = [orders[c] EXCEPT !.status = status]
               /\ \A j \in OrderId \ {i, c} : orders'[j] = orders[j]
               /\ orders[c].status \in {"PENDING", status}
  BY <1>2, SaleOrders
<1>4. /\ phase \in {"poll", "manual", "orders"} /\ i \in todo
      /\ phase' = phase /\ pos' = pos
      /\ changed' = IF \/ phase = "poll" /\ orders'[i].status # orders[i].status
                       \/ phase = "manual" /\ orders'[i].status = "FILLED"
                    THEN changed \cup {i} ELSE changed
      /\ mishap' = (mishap \/ Repeated(i, orders') \/ Swallowed(orders'))
  BY DEF PollSale, Refreshing, IsFirst, Refreshed
<1>5. CASE phase = "orders"
  <2>1. Due = {} /\ Due' = {} BY <1>4, <1>5 DEF Due
  <2>2. ~mishap' => ~mishap /\ Net(orders') = Net(orders) BY <1>4, <1>5 DEF Swallowed
  <2> QED BY <1>4, <2>1, <2>2, NothingDue DEF Tally
<1>6. ASSUME phase \in {"poll", "manual"}, orders' = orders PROVE Tally'
  <2>1. changed' = changed BY <1>3, <1>4, <1>6 DEF InSale
  <2>2. Due' = Due BY <1>4, <1>6, <2>1 DEF Due
  <2> QED BY <1>4, <1>6, <2>2, TallySame DEF Bought, Sold
<1>7. ASSUME phase \in {"poll", "manual"}, NEW status \in Terminal,
             orders'[i] = [orders[i] EXCEPT !.status = status],
             orders'[c] = [orders[c] EXCEPT !.status = status],
             \A j \in OrderId \ {i, c} : orders'[j] = orders[j],
             orders[c].status \in {"PENDING", status}
      PROVE  Tally'
  <2>1. orders[i] \in Local /\ orders[c] \in Local BY <1>1
  <2>2. /\ orders[i].kind = "BRACKET" /\ orders[i].status = "PENDING_SALE" /\ ~orders[i].done
        /\ orders'[i].kind = "BRACKET" /\ orders'[i].status = status
        /\ orders'[i].sold = "MANUAL" /\ orders'[i].child = c /\ ~orders'[i].done
        /\ SoldByHand(orders'[i])
    BY <1>2, <1>3, <1>7, <2>1 DEF InSale, Local, Records, Sane, SoldByHand
  <2>3. /\ orders'[c].kind = "SELL" /\ orders'[c].status = status
        /\ orders[c].status = status => orders'[c] = orders[c]
    BY <1>3, <1>7, <2>1 DEF Local
  <2>4. status # "PENDING" /\ status # "PENDING_SALE" BY DEF Terminal
  <2>5. Due = changed /\ Due' = changed' /\ i \notin Due /\ Due \subseteq OrderId
    BY <1>1, <1>4, <1>7 DEF Due, Loops
  <2>6. c \in Due => orders'[c] = orders[c]
    BY <1>7, <2>3, <2>4, <2>5 DEF Loops
  <2>7. \A j \in Due : orders'[j] = orders[j] BY <1>7, <2>5, <2>6
  <2>8. /\ i \in Bought(orders) /\ i \in Bought(orders') /\ ~Buys(orders'[i])
        /\ i \notin Sold(orders) /\ i \notin Sold(orders')
        /\ c \notin Bought(orders) /\ c \notin Bought(orders')
        /\ ~LegSold(orders[c]) /\ ~LegSold(orders'[c])
    BY <1>3, <2>2, <2>3, <2>4 DEF Bought, Sold, Buys, LegSold
  <2>9. \A j \in OrderId \ {i, c} : /\ j \in Bought(orders') <=> j \in Bought(orders)
                                    /\ j \in Sold(orders') <=> j \in Sold(orders)
    BY <1>7 DEF Bought, Sold
  <2>10. CASE Due' = Due
    <3>1. status # "FILLED"
      BY <1>4, <1>7, <2>2, <2>4, <2>5, <2>10
    <3>2. c \notin Sold(orders) /\ c \notin Sold(orders')
      BY <1>7, <2>3, <3>1 DEF Sold
    <3> QED BY <1>4, <2>7, <2>8, <2>9, <2>10, <3>2, TallySame
  <2>11. CASE Due' = Due \cup {i}
    <3>1. ASSUME ~mishap'
          PROVE  /\ ~mishap /\ OnceDue /\ c \notin Sold(orders)
                 /\ status = "FILLED" => c \notin Due
      <4>1. ~Repeated(i, orders') BY <1>4, <3>1
      <4>2. status = "FILLED" => orders[c].status = "PENDING"
        BY <1>2, <1>7, <2>2, <4>1 DEF Repeated
      <4>3. c \notin Sold(orders) BY <1>7, <4>2 DEF Sold
      <4>4. status = "FILLED" => c \notin Due BY <1>7, <4>2, <2>5 DEF Loops
      <4> QED BY <1>4, <3>1, <4>3, <4>4 DEF Tally
    <3>2. ASSUME ~mishap' PROVE OnceDue'
      <4>1. ASSUME NEW j \in Due, SoldByHand(orders[j]) PROVE orders[j].child # i
        <5>1. orders[orders[j].child].kind = "SELL"
          BY <2>5, <4>1 DEF IInv, Sales, SoldByHand
        <5> QED BY <2>2, <5>1
      <4> QED BY <1>3, <2>2, <2>7, <2>11, <3>1, <3>2, <4>1 DEF OnceDue
    <3>3. ASSUME NEW j \in OrderId PROVE j \in BoughtSoFar' <=> j \in BoughtSoFar
      <4>1. CASE j = i BY <2>5, <2>8, <2>11, <4>1 DEF BoughtSoFar
      <4>2. CASE j = c
        <5>1. j \notin BoughtSoFar BY <2>8, <4>2 DEF BoughtSoFar
        <5>2. j \notin BoughtSoFar' BY <2>8, <4>2 DEF BoughtSoFar
        <5> QED BY <5>1, <5>2
      <4>3. CASE j \notin {i, c}
        <5>1. orders'[j] = orders[j] /\ (j \in Due' <=> j \in Due) BY <1>7, <2>11, <4>3
        <5>2. j \in Bought(orders') <=> j \in Bought(orders) BY <2>9, <4>3
        <5> QED BY <5>1, <5>2 DEF BoughtSoFar
      <4> QED BY <4>1, <4>2, <4>3
    <3>4. ASSUME ~mishap', NEW j \in OrderId PROVE j \in SoldSoFar' <=> j \in SoldSoFar
      <4>1. CASE j = i BY <2>8, <4>1 DEF SoldSoFar
      <4>2. CASE j = c
        <5>1. j \notin SoldSoFar BY <3>1, <3>4, <4>2 DEF SoldSoFar
        <5>2. j \notin SoldSoFar'
          <6>1. CASE status = "FILLED" BY <2>2, <2>11, <4>2, <6>1 DEF SoldSoFar
          <6>2. CASE status # "FILLED" BY <2>3, <4>2, <6>2 DEF SoldSoFar, Sold
          <6> QED BY <6>1, <6>2
        <5> QED BY <5>1, <5>2
      <4>3. CASE j \notin {i, c}
        <5>1. j \in Due' <=> j \in Due BY <2>11, <4>3
        <5>2. j \in Sold(orders') <=> j \in Sold(orders) BY <2>9, <4>3
        <5>3. orders'[i].child # j BY <2>2, <4>3
        <5> QED BY <2>7, <2>11, <5>1, <5>2, <5>3 DEF SoldSoFar
      <4> QED BY <4>1, <4>2, <4>3
    <3> QED BY <1>4, <3>1, <3>2, <3>3, <3>4, TallyKept
  <2> QED BY <1>4, <2>5, <2>10, <2>11
<1> QED BY <1>3, <1>4, <1>5, <1>6, <1>7

(* An order is applied: what was due of it is in the position now. *)
LEMMA TallyApplied ==
    ASSUME IInv, Records, Children, Tally, NEW i \in OrderId, Apply(i)
    PROVE  Tally'
<1> SUFFICES ASSUME ~mishap'
             PROVE  OnceDue' /\ pos' = Cardinality(BoughtSoFar') - Cardinality(SoldSoFar')
  BY DEF Tally
<1>1. /\ phase \in {"apply", "applySold"} /\ phase' = phase /\ i \in todo /\ todo' = todo \ {i}
      /\ mishap' = mishap /\ ~Raises(orders[i])
  BY DEF Apply, Applying, IsFirst
<1>2. OnceDue /\ pos = Cardinality(BoughtSoFar) - Cardinality(SoldSoFar)
  BY <1>1 DEF Tally
<1>3. /\ Due = todo /\ Due' = Due \ {i} /\ i \in Due /\ Due \subseteq OrderId
  BY <1>1 DEF Due, IInv, Types, TypeOK
<1>4. ~orders[i].done BY <1>2, <1>3 DEF OnceDue
<1>5. pos' = IF Buys(orders[i]) THEN pos + 1 ELSE IF Sells(orders[i]) THEN pos - 1 ELSE pos
  BY <1>4 DEF Apply
<1>6. \A j \in OrderId : /\ orders'[j].kind = orders[j].kind /\ orders'[j].status = orders[j].status
                         /\ orders'[j].child = orders[j].child /\ orders'[j].sold = orders[j].sold
                         /\ j \notin Marked(i) => orders'[j] = orders[j]
  BY AppliedOrders
<1>7. \A j \in OrderId : /\ j \in Bought(orders') <=> j \in Bought(orders)
                         /\ j \in Sold(orders') <=> j \in Sold(orders)
                         /\ Buys(orders'[j]) <=> Buys(orders[j])
                         /\ LegSold(orders'[j]) <=> LegSold(orders[j])
                         /\ SoldByHand(orders'[j]) <=> SoldByHand(orders[j])
  BY <1>6 DEF Bought, Sold, Buys, LegSold, SoldByHand
<1>8. OnceDue'
  <2>1. ASSUME NEW j \in Due, j # i PROVE j \notin Marked(i)
    <3>1. CASE orders[i].kind # "BRACKET" BY <2>1, <3>1 DEF Marked
    <3>2. CASE orders[i].kind = "BRACKET"
      BY <1>2, <1>3, <3>2 DEF Marked, OnceDue, SoldByHand, Terminal
    <3> QED BY <3>1, <3>2
  <2>2. \A j \in Due' : j \in Due /\ j \in OrderId /\ orders'[j] = orders[j] BY <1>3, <1>6, <2>1
  <2> QED BY <1>2, <1>3, <2>2 DEF OnceDue
<1>9. ASSUME NEW j \in OrderId, j # i PROVE j \in BoughtSoFar' <=> j \in BoughtSoFar
  <2>1. j \in Due' <=> j \in Due BY <1>3, <1>9
  <2> QED BY <1>7, <2>1 DEF BoughtSoFar
<1>10. /\ i \in BoughtSoFar <=> LegSold(orders[i]) \/ (i \in Bought(orders) /\ ~Buys(orders[i]))
       /\ i \in BoughtSoFar' <=> i \in Bought(orders)
  BY <1>3, <1>7 DEF BoughtSoFar
<1>11. ASSUME NEW j \in OrderId,
              j # i /\ ~(SoldByHand(orders[i]) /\ orders[i].status = "FILLED" /\ orders[i].child = j)
       PROVE  j \in SoldSoFar' <=> j \in SoldSoFar
  <2>1. j \in Due' <=> j \in Due BY <1>3, <1>11
  <2> QED BY <1>3, <1>6, <1>7, <1>11, <2>1 DEF SoldSoFar
<1>12. /\ i \notin SoldSoFar
       /\ i \in SoldSoFar' <=> i \in Sold(orders)
  <2>1. i \notin SoldSoFar BY <1>3 DEF SoldSoFar
  <2>2. \A j \in Due' : ~(SoldByHand(orders'[j]) /\ orders'[j].status = "FILLED" /\ orders'[j].child = i)
    BY <1>2, <1>3, <1>6, <1>7 DEF OnceDue
  <2> QED BY <1>3, <1>7, <2>1, <2>2 DEF SoldSoFar
<1> DEFINE B == BoughtSoFar
           S == SoldSoFar
<1>13. /\ B \in SUBSET OrderId /\ B' \in SUBSET OrderId
       /\ S \in SUBSET OrderId /\ S' \in SUBSET OrderId
  BY DEF BoughtSoFar, SoldSoFar
<1>14. orders[i] \in Local BY DEF IInv, Types, TypeOK
<1> HIDE DEF B, S
<1>15. /\ Cardinality(B) \in Nat /\ Cardinality(S) \in Nat
       /\ \A j \in OrderId \ B : Cardinality(B \cup {j}) = Cardinality(B) + 1
       /\ \A j \in B : Cardinality(B \ {j}) = Cardinality(B) - 1
       /\ \A j \in OrderId \ S : Cardinality(S \cup {j}) = Cardinality(S) + 1
  BY <1>13, Counted
<1>16. pos = Cardinality(B) - Cardinality(S) BY <1>2 DEF B, S
<1>17. ASSUME B' = B, S' = S, pos' = pos PROVE pos' = Cardinality(B') - Cardinality(S')
  BY <1>16, <1>17
<1>18. CASE Buys(orders[i])
  <2>1. /\ i \in Bought(orders) /\ ~LegSold(orders[i]) /\ i \notin Sold(orders)
        /\ ~(SoldByHand(orders[i]) /\ orders[i].status = "FILLED")
    BY <1>18 DEF Buys, Bought, Sold, LegSold, SoldByHand, Terminal
  <2>2. i \notin B /\ B' = B \cup {i} BY <1>9, <1>10, <1>13, <1>18, <2>1 DEF B
  <2>3. S' = S BY <1>11, <1>12, <1>13, <2>1 DEF S
  <2>4. pos' = pos + 1 BY <1>5, <1>18
  <2>5. pos' = Cardinality(B') - Cardinality(S') BY <1>15, <1>16, <2>2, <2>3, <2>4
  <2> QED BY <1>8, <2>5 DEF B, S
<1>19. CASE orders[i].kind = "SELL" /\ orders[i].status = "FILLED"
  <2>1. /\ i \notin Bought(orders) /\ ~LegSold(orders[i]) /\ i \in Sold(orders)
        /\ ~SoldByHand(orders[i]) /\ ~Buys(orders[i]) /\ Sells(orders[i])
    BY <1>19 DEF Buys, Bought, Sold, LegSold, SoldByHand, Sells
  <2>2. B' = B BY <1>9, <1>10, <1>13, <2>1 DEF B
  <2>3. i \notin S /\ S' = S \cup {i} BY <1>11, <1>12, <1>13, <2>1 DEF S
  <2>4. pos' = pos - 1 BY <1>5, <2>1
  <2>5. pos' = Cardinality(B') - Cardinality(S') BY <1>15, <1>16, <2>2, <2>3, <2>4
  <2> QED BY <1>8, <2>5 DEF B, S
<1>20. CASE orders[i].kind = "BRACKET" /\ orders[i].status = "FILLED" /\ orders[i].sold = "LEG"
  <2>1. /\ i \notin Bought(orders) /\ LegSold(orders[i]) /\ i \notin Sold(orders)
        /\ ~SoldByHand(orders[i]) /\ ~Buys(orders[i]) /\ Sells(orders[i])
    BY <1>20 DEF Buys, Bought, Sold, LegSold, SoldByHand, Sells
  <2>2. i \in B /\ B' = B \ {i} BY <1>9, <1>10, <1>13, <2>1 DEF B
  <2>3. S' = S BY <1>11, <1>12, <1>13, <2>1 DEF S
  <2>4. pos' = pos - 1 BY <1>5, <2>1
  <2>5. pos' = Cardinality(B') - Cardinality(S') BY <1>15, <1>16, <2>2, <2>3, <2>4
  <2> QED BY <1>8, <2>5 DEF B, S
<1>21. CASE orders[i].kind = "BRACKET" /\ orders[i].status = "FILLED" /\ orders[i].sold = "MANUAL"
  <2>1. /\ i \in Bought(orders) /\ ~LegSold(orders[i]) /\ i \notin Sold(orders)
        /\ SoldByHand(orders[i]) /\ ~Buys(orders[i]) /\ Sells(orders[i])
    BY <1>21 DEF Buys, Bought, Sold, LegSold, SoldByHand, Sells, Terminal
  <2>2. orders[i].child # None /\ orders[i].child \in OrderId
    BY <1>14, <2>1 DEF Records, Sane, SoldByHand, Local
  <2>3. PICK c \in OrderId : c = orders[i].child BY <2>2
  <2>4. /\ orders[c].kind = "SELL" /\ orders[c].status = "FILLED" /\ c \notin Due
    BY <1>2, <1>3, <1>21, <2>1, <2>2, <2>3 DEF IInv, Sales, Children, OnceDue
  <2>5. B' = B BY <1>9, <1>10, <1>13, <2>1 DEF B
  <2>6. c \notin S BY <1>3, <1>21, <2>1, <2>3 DEF S, SoldSoFar
  <2>7. c \in S'
    <3>1. \A j \in Due' : orders'[j].child # c
      BY <1>3, <1>6, <2>2, <2>3 DEF Children
    <3>2. c \in Sold(orders') BY <1>7, <2>4 DEF Sold
    <3> QED BY <1>3, <2>4, <3>1, <3>2 DEF S, SoldSoFar
  <2>8. \A j \in OrderId : j # c => (j \in S' <=> j \in S)
    BY <1>11, <1>12, <2>1, <2>3 DEF S
  <2>9. S' = S \cup {c} BY <1>13, <2>7, <2>8
  <2>10. pos' = pos - 1 BY <1>5, <2>1
  <2>11. pos' = Cardinality(B') - Cardinality(S') BY <1>15, <1>16, <2>5, <2>6, <2>9, <2>10
  <2> QED BY <1>8, <2>11 DEF B, S
<1>22. CASE orders[i].kind \in {"BUY", "SELL"} /\ orders[i].status = "CANCELED"
  <2>1. /\ i \notin Bought(orders) /\ ~LegSold(orders[i]) /\ i \notin Sold(orders)
        /\ ~SoldByHand(orders[i]) /\ ~Buys(orders[i]) /\ ~Sells(orders[i])
    BY <1>22 DEF Buys, Bought, Sold, LegSold, SoldByHand, Sells
  <2>2. B' = B BY <1>9, <1>10, <1>13, <2>1 DEF B
  <2>3. S' = S BY <1>11, <1>12, <1>13, <2>1 DEF S
  <2>4. pos' = pos BY <1>5, <2>1
  <2> QED BY <1>8, <1>17, <2>2, <2>3, <2>4 DEF B, S
<1>23. /\ ~Unhandled(orders[i])
       /\ orders[i].kind = "BRACKET" /\ Sells(orders[i]) => orders[i].sold # "NONE"
  BY <1>1, <1>4 DEF Raises
<1>24. CASE orders[i].kind = "BRACKET"
  <2>1. orders[i].status \in {"FILLED", "PENDING_SALE"}
    BY <1>14, <1>23, <1>24 DEF Unhandled, Local, Status
  <2>2. CASE orders[i].status = "PENDING_SALE" BY <1>18, <1>24, <2>2 DEF Buys
  <2>3. CASE orders[i].status = "FILLED"
    <3>1. orders[i].sold \in {"LEG", "MANUAL"} BY <1>14, <1>23, <1>24, <2>3 DEF Sells, Local
    <3> QED BY <1>20, <1>21, <1>24, <2>3, <3>1
  <2> QED BY <2>1, <2>2, <2>3
<1>25. CASE orders[i].kind # "BRACKET"
  <2>1. orders[i].status # "PENDING" BY <1>23, <1>25 DEF Unhandled
  <2>2. orders[i].kind # "NONE" BY <2>1 DEF Records, Sane, NoLocal, LocalOrder
  <2>3. orders[i].kind \in {"BUY", "SELL"} BY <1>14, <1>25, <2>2 DEF Local, Kind
  <2>4. orders[i].status \in {"FILLED", "CANCELED"} BY <2>1, <2>3 DEF IInv, Settled
  <2> QED BY <1>18, <1>19, <1>22, <2>3, <2>4 DEF Buys
<1> QED BY <1>24, <1>25

(* An order that the portfolio does not know how to apply counts for       *)
(* nothing.                                                                *)
LEMMA TallyRaised ==
    ASSUME IInv, Records, Tally, NEW i \in OrderId, ApplyRaises(i)
    PROVE  Tally'
<1>1. /\ phase \in {"apply", "applySold"} /\ i \in todo /\ Raises(orders[i])
      /\ mishap' = (mishap \/ todo # {i} \/ Sells(orders[i]))
      /\ orders' = orders /\ pos' = pos /\ phase' = "idle"
  BY DEF ApplyRaises, Applying, IsFirst, Abort, bookVars
<1>2. Due' = {} BY <1>1 DEF Due
<1>3. ASSUME ~mishap'
      PROVE  /\ OnceDue'
             /\ \A j \in OrderId : /\ j \in BoughtSoFar' <=> j \in BoughtSoFar
                                   /\ j \in SoldSoFar' <=> j \in SoldSoFar
  <2>1. ~mishap /\ Due = {i} /\ ~Sells(orders[i]) BY <1>1, <1>3 DEF Due
  <2>2. Unhandled(orders[i]) BY <1>1, <2>1 DEF Raises
  <2>3. OnceDue' BY <1>2 DEF OnceDue
  <2>4. i \notin Sold(orders) /\ ~LegSold(orders[i]) /\ ~Buys(orders[i])
        /\ ~(SoldByHand(orders[i]) /\ orders[i].status = "FILLED")
    BY <2>2 DEF Unhandled, Sold, LegSold, Buys, SoldByHand
  <2>5. ASSUME NEW j \in OrderId PROVE j \in BoughtSoFar' <=> j \in BoughtSoFar
    <3>1. j \in BoughtSoFar' <=> j \in Bought(orders) BY <1>1, <1>2 DEF BoughtSoFar
    <3> QED BY <2>1, <2>4, <3>1 DEF BoughtSoFar
  <2>6. ASSUME NEW j \in OrderId PROVE j \in SoldSoFar' <=> j \in SoldSoFar
    <3>1. j \in SoldSoFar' <=> j \in Sold(orders) BY <1>1, <1>2 DEF SoldSoFar
    <3> QED BY <2>1, <2>4, <3>1 DEF SoldSoFar
  <2> QED BY <2>3, <2>5, <2>6
<1> QED BY <1>1, <1>3, TallyKept

(* The first position after a restart, and after the account was read. *)
LEMMA TallyReset ==
    ASSUME Due' = {}, \/ pos' = shares /\ mishap' = (shares # Net(orders)) /\ orders' = orders
                      \/ pos' = 0 /\ \A i \in OrderId : orders'[i] = NoLocal
    PROVE  Tally'
<1>1. CASE pos' = shares /\ mishap' = (shares # Net(orders)) /\ orders' = orders
  <2>1. Net(orders') = Net(orders) BY <1>1
  <2> QED BY <1>1, <2>1, NothingDue DEF Tally
<1>2. CASE pos' = 0 /\ \A i \in OrderId : orders'[i] = NoLocal
  <2>1. Bought(orders') = {} /\ Sold(orders') = {}
    BY <1>2 DEF Bought, Sold, NoLocal, LocalOrder
  <2>2. Net(orders') = Cardinality(Bought(orders')) - Cardinality(Sold(orders'))
    BY DEF Net, Bought, Sold
  <2>3. Cardinality({}) = 0 BY FS_EmptySet
  <2>4. Net(orders') = 0 BY <2>1, <2>2, <2>3
  <2> QED BY <1>2, <2>4, NothingDue DEF Tally
<1> QED BY <1>1, <1>2

-----------------------------------------------------------------------------
(* Every step keeps the tally. *)

LEMMA TallyStays ==
    ASSUME IInv, IInv', TallyInv, UNCHANGED <<orders, pos, mishap>>, Due' = Due,
           Grows /\ Depot', Loops'
    PROVE  TallyInv'
<1>1. Records' /\ Children' BY SameBooks DEF TallyInv, BooksInv
<1>2. Tally' BY TallyQuiet DEF TallyInv
<1> QED BY <1>1, <1>2 DEF TallyInv, BooksInv

LEMMA FetchFailsTally ==
    ASSUME IInv, IInv', TallyInv, NEW i \in OrderId, FetchFails(i)
    PROVE  TallyInv'
<1>1. /\ phase \in {"poll", "manual", "orders"} /\ i \in todo /\ selling = None
      /\ UNCHANGED <<orders, pos, mishap, phase, selling, remote, shares>>
      /\ todo' = todo \ {i}
      /\ changed' = IF \/ phase = "poll" /\ orders[i].status # orders[i].status
                       \/ phase = "manual" /\ orders[i].status = "FILLED"
                    THEN changed \cup {i} ELSE changed
  BY DEF FetchFails, Refreshing, IsFirst, Refreshed, brokerVars
<1>2. changed' = changed
  BY <1>1 DEF TallyInv, BooksInv, Loops, InSale
<1>3. Due' = Due BY <1>1, <1>2 DEF Due
<1>4. Loops' BY <1>1, <1>2, LoopsGoOn DEF TallyInv, BooksInv
<1>5. Grows /\ Depot' BY <1>1, DepotSame DEF TallyInv, BooksInv
<1> QED BY <1>1, <1>3, <1>4, <1>5, TallyStays

LEMMA CancelLegsTally ==
    ASSUME IInv, IInv', TallyInv, NEW i \in OrderId, CancelLegs(i)
    PROVE  TallyInv'
<1>1. /\ phase \in {"poll", "manual", "orders"} /\ i \in todo
      /\ InSale(orders[i]) /\ orders[i].child = None /\ selling' = i
      /\ UNCHANGED <<orders, pos, mishap, phase, todo, changed, shares>>
      /\ \E r \in {remote[i], Ended(remote[i])} : remote' = [remote EXCEPT ![i] = r]
  BY DEF CancelLegs, Refreshing, IsFirst, bookVars
<1>2. Due' = Due BY <1>1 DEF Due
<1>3. Loops' BY <1>1 DEF TallyInv, BooksInv, Loops
<1>4. Grows /\ Depot' BY <1>1, DepotCanceled DEF TallyInv, BooksInv
<1> QED BY <1>1, <1>2, <1>3, <1>4, TallyStays

LEMMA CancelTally ==
    ASSUME IInv, IInv', TallyInv, NEW i \in OrderId, Cancel(i)
    PROVE  TallyInv'
<1>1. /\ phase = "cancel"
      /\ UNCHANGED <<orders, pos, mishap, phase, selling, shares>>
      /\ \E r \in {remote[i], Ended(remote[i])} : remote' = [remote EXCEPT ![i] = r]
  BY DEF Cancel
<1>2. Due' = Due BY <1>1 DEF Due
<1>3. Loops' BY <1>1, NoLoop, LoopsOver DEF TallyInv, BooksInv
<1>4. Grows /\ Depot' BY <1>1, DepotCanceled DEF TallyInv, BooksInv
<1> QED BY <1>1, <1>2, <1>3, <1>4, TallyStays

LEMMA SaleLostTally ==
    ASSUME IInv, IInv', TallyInv, NEW n \in OrderId, SaleLost(n)
    PROVE  TallyInv'
<1>1. /\ UNCHANGED <<orders, pos, mishap, phase, changed, shares>>
      /\ selling' = None /\ todo' \subseteq todo /\ n \in FreeIds
      /\ remote' = [remote EXCEPT ![n] = [NoRemote EXCEPT !.kind = "SELL"]]
      /\ phase \in {"poll", "manual", "orders"}
  BY DEF SaleLost, SendSale, IsFirst, bookVars, TallyInv, BooksInv, Loops
<1>2. Due' = Due BY <1>1 DEF Due
<1>3. Loops' BY <1>1, LoopsGoOn DEF TallyInv, BooksInv
<1>4. "SELL" \in Kind BY DEF Kind
<1>5. Grows /\ Depot' BY <1>1, <1>4, DepotSent DEF TallyInv, BooksInv
<1> QED BY <1>1, <1>2, <1>3, <1>5, TallyStays

LEMMA SaleAcceptedTally ==
    ASSUME IInv, IInv', TallyInv, NEW n \in OrderId, SaleAccepted(n)
    PROVE  TallyInv'
<1> USE DEF TallyInv, BooksInv
<1>1. /\ UNCHANGED <<pos, mishap, phase, changed, shares>>
      /\ n \in FreeIds /\ selling # None
      /\ remote' = [remote EXCEPT ![n] = [NoRemote EXCEPT !.kind = "SELL"]]
  BY DEF SaleAccepted, SendSale, IsFirst
<1>2. phase \in {"poll", "manual", "orders"} /\ selling \in todo BY <1>1 DEF Loops
<1>3. PICK s \in OrderId : s = selling BY <1>1, <1>2 DEF IInv, Types, TypeOK
<1>4. "SELL" \in Kind BY DEF Kind
<1>5. Grows /\ Depot' BY <1>1, <1>4, DepotSent
<1>6. /\ Records' /\ Children'
      /\ n # s /\ InSale(orders[s]) /\ orders[n] = NoLocal
      /\ orders'[n].status = "PENDING" /\ orders'[n].kind = "SELL"
      /\ orders'[s].kind = "BRACKET" /\ orders'[s].status = "PENDING_SALE"
      /\ \A j \in OrderId \ {n, s} : orders'[j] = orders[j]
  BY <1>3, <1>5, SaleAcceptedBooks
<1>7. Loops' BY <1>5, SaleAcceptedLoops
<1>8. Due' = Due /\ Due \subseteq OrderId BY <1>1, <1>2 DEF Due, IInv, Types, TypeOK
<1>9. n \notin Due /\ s \notin Due
  <2>1. orders[n].status = "PENDING" BY <1>6 DEF NoLocal, LocalOrder
  <2> QED BY <1>2, <1>3, <2>1 DEF Due, Loops
<1>10. \A j \in Due : orders'[j] = orders[j] BY <1>6, <1>8, <1>9
<1>11. ASSUME NEW j \in OrderId
       PROVE  /\ j \in Bought(orders') <=> j \in Bought(orders)
              /\ j \in Sold(orders') <=> j \in Sold(orders)
  <2>1. CASE j = n BY <1>6, <2>1 DEF Bought, Sold, NoLocal, LocalOrder
  <2>2. CASE j = s BY <1>6, <2>2 DEF Bought, Sold, InSale
  <2>3. CASE j \notin {n, s} BY <1>6, <2>3 DEF Bought, Sold
  <2> QED BY <2>1, <2>2, <2>3
<1>12. Tally' BY <1>1, <1>8, <1>10, <1>11, TallySame
<1> QED BY <1>5, <1>6, <1>7, <1>12

LEMMA SubmitTally ==
    ASSUME IInv, IInv', TallyInv, NEW n \in OrderId, NEW k \in Menu, Submit(n, k)
    PROVE  TallyInv'
<1> USE DEF TallyInv, BooksInv
<1>1. /\ phase = "submit" /\ n \in FreeIds
      /\ UNCHANGED <<pos, mishap, phase, selling, shares>>
      /\ remote' = [remote EXCEPT ![n] = [NoRemote EXCEPT !.kind = k]]
  BY DEF Submit, Accept, IsFirst, loopVars
<1>2. k \in Kind BY LiveAssumption DEF Kind
<1>3. Grows /\ Depot' BY <1>1, <1>2, DepotSent
<1>4. /\ Records' /\ Children' /\ orders'[n].status = "PENDING" /\ orders[n].kind = "NONE"
      /\ \A j \in OrderId \ {n} : orders'[j] = orders[j]
  BY <1>3, SubmitBooks
<1>5. Due = {} /\ Due' = {} BY <1>1 DEF Due
<1>6. ASSUME NEW j \in OrderId
      PROVE  /\ j \in Bought(orders') <=> j \in Bought(orders)
             /\ j \in Sold(orders') <=> j \in Sold(orders)
  <2>1. CASE j = n BY <1>4, <2>1 DEF Bought, Sold, Terminal
  <2>2. CASE j # n BY <1>4, <2>2 DEF Bought, Sold
  <2> QED BY <2>1, <2>2
<1>7. Tally' BY <1>1, <1>5, <1>6, TallySame
<1>8. Loops' BY <1>1, NoLoop, LoopsOver
<1> QED BY <1>3, <1>4, <1>7, <1>8

LEMMA SubmitRaisesTally ==
    ASSUME IInv, IInv', TallyInv, SubmitRaises
    PROVE  TallyInv'
<1>1. /\ phase = "submit" /\ phase' = "idle"
      /\ UNCHANGED <<orders, pos, mishap, selling, shares>>
      /\ \/ UNCHANGED remote
         \/ \E n \in FreeIds, k \in Menu : remote' = [remote EXCEPT ![n] = [NoRemote EXCEPT !.kind = k]]
  BY DEF SubmitRaises, Abort, Accept, bookVars
<1>2. Due = {} /\ Due' = {} BY <1>1 DEF Due
<1>3. Loops' BY <1>1, NoLoop, LoopsOver DEF TallyInv, BooksInv
<1>4. Grows /\ Depot'
  <2>1. CASE UNCHANGED remote BY <1>1, <2>1, DepotSame DEF TallyInv, BooksInv
  <2>2. ASSUME NEW n \in FreeIds, NEW k \in Menu,
               remote' = [remote EXCEPT ![n] = [NoRemote EXCEPT !.kind = k]]
        PROVE  Grows /\ Depot'
    <3>1. k \in Kind BY LiveAssumption DEF Kind
    <3> QED BY <1>1, <2>2, <3>1, DepotSent DEF TallyInv, BooksInv
  <2> QED BY <1>1, <2>1, <2>2
<1> QED BY <1>1, <1>2, <1>3, <1>4, TallyStays

(* The steps from loop to loop, in which neither the orders nor the broker *)
(* change.                                                                 *)
LEMMA PassageTally ==
    ASSUME IInv, IInv', TallyInv,
           \/ Tick \/ SaleRefused \/ PollDone \/ ApplyDone \/ ListFails \/ SyncDone
           \/ ManualDone \/ SoldDone \/ CancelDone \/ TickDone \/ UNCHANGED vars
    PROVE  TallyInv'
<1>1. /\ UNCHANGED <<orders, pos, mishap, remote, shares>>
  BY DEF Tick, SaleRefused, PollDone, ApplyDone, ListFails, SyncDone, ManualDone, SoldDone,
     CancelDone, TickDone, vars, brokerVars, bookVars
<1>2. Loops BY DEF TallyInv, BooksInv
<1>3. Grows /\ Depot' BY <1>1, DepotSame DEF TallyInv, BooksInv
<1>4. CASE Tick
  <2>1. phase = "idle" /\ phase' = "poll" /\ changed' = {} /\ selling' = selling
    BY <1>4 DEF Tick
  <2>2. Due' = Due BY <2>1 DEF Due
  <2>3. selling' = None BY <1>2, <2>1, NoLoop
  <2>4. Loops' BY <2>1, <2>3 DEF Loops
  <2> QED BY <1>1, <1>3, <2>2, <2>4, TallyStays
<1>5. CASE SaleRefused
  <2>1. /\ selling' = None /\ todo' \subseteq todo
        /\ phase \in {"poll", "manual", "orders"} /\ UNCHANGED <<phase, changed>>
    BY <1>2, <1>5 DEF SaleRefused, Loops
  <2>2. Due' = Due BY <2>1 DEF Due
  <2>3. Loops' BY <1>1, <1>2, <2>1, LoopsGoOn
  <2> QED BY <1>1, <1>3, <2>2, <2>3, TallyStays
<1>6. CASE PollDone \/ ManualDone
  <2>1. /\ phase \in {"poll", "manual"} /\ phase' \in {"apply", "applySold"}
        /\ todo' = changed /\ selling' = None
    BY <1>6 DEF PollDone, ManualDone
  <2>2. Due' = Due BY <2>1 DEF Due
  <2>3. Loops' BY <2>1, LoopsOver
  <2> QED BY <1>1, <1>3, <2>2, <2>3, TallyStays
<1>7. CASE ApplyDone \/ SoldDone \/ ListFails \/ CancelDone \/ TickDone
  <2>1. /\ phase \in {"apply", "applySold"} => todo = {}
        /\ phase \in {"apply", "applySold", "list", "cancel", "submit"}
        /\ phase' \in {"account", "strategy", "cancel", "idle", "submit"}
        /\ selling' = selling
    BY <1>7 DEF ApplyDone, SoldDone, ListFails, CancelDone, TickDone, loopVars, AfterSync
  <2>2. Due' = Due BY <2>1 DEF Due
  <2>3. Loops' BY <1>2, <2>1, NoLoop, LoopsOver
  <2> QED BY <1>1, <1>3, <2>2, <2>3, TallyStays
<1>8. CASE SyncDone
  <2>1. phase = "orders" /\ phase' \in {"idle", "strategy"} /\ selling' = None
    BY <1>8 DEF SyncDone, loopVars, AfterSync
  <2>2. Due' = Due BY <2>1 DEF Due
  <2>3. Loops' BY <2>1, LoopsOver
  <2> QED BY <1>1, <1>3, <2>2, <2>3, TallyStays
<1>9. CASE UNCHANGED vars
  <2>1. UNCHANGED <<phase, todo, changed, selling>> BY <1>9 DEF vars, loopVars
  <2>2. Due' = Due BY <2>1 DEF Due
  <2>3. Loops' BY <1>1, <1>2, <2>1, LoopsGoOn
  <2> QED BY <1>1, <1>3, <2>2, <2>3, TallyStays
<1> QED BY <1>4, <1>5, <1>6, <1>7, <1>8, <1>9

LEMMA BrokerTally ==
    ASSUME IInv, IInv', TallyInv, Broker
    PROVE  TallyInv'
<1>1. UNCHANGED <<orders, pos, mishap, phase, todo, changed, selling>>
  BY DEF Broker, BrokerFills, BrokerEnds, LegFills, LegsExpire, Programs, bookVars, loopVars
<1>2. Due' = Due BY <1>1 DEF Due
<1>3. Loops' BY <1>1, LoopsGoOn DEF TallyInv, BooksInv
<1>4. Grows /\ Depot' BY DepotBroker DEF TallyInv, BooksInv
<1> QED BY <1>1, <1>2, <1>3, <1>4, TallyStays

(* Reading the account resets the position, unless it fails. *)
LEMMA SyncAccountTally ==
    ASSUME IInv, IInv', TallyInv, SyncAccount
    PROVE  TallyInv'
<1>1. /\ phase = "account" /\ phase' \in {"list", "idle", "strategy"}
      /\ UNCHANGED <<orders, remote, shares, selling>>
      /\ \/ pos' = shares /\ mishap' = (shares # Net(orders))
         \/ UNCHANGED <<pos, mishap>>
  BY DEF SyncAccount, brokerVars, bookVars, loopVars, AfterSync
<1>2. Due = {} /\ Due' = {} BY <1>1 DEF Due
<1>3. Loops' BY <1>1, NoLoop, LoopsOver DEF TallyInv, BooksInv
<1>4. Grows /\ Depot' BY <1>1, DepotSame DEF TallyInv, BooksInv
<1>5. Records' /\ Children' BY <1>1, <1>4, SameBooks DEF TallyInv, BooksInv
<1>6. Tally'
  <2>1. CASE pos' = shares /\ mishap' = (shares # Net(orders))
    BY <1>1, <1>2, <2>1, TallyReset
  <2>2. CASE UNCHANGED <<pos, mishap>>
    BY <1>1, <1>2, <2>2, TallyQuiet DEF TallyInv
  <2> QED BY <1>1, <2>1, <2>2
<1> QED BY <1>3, <1>4, <1>5, <1>6 DEF TallyInv, BooksInv

LEMMA RestartTally ==
    ASSUME IInv, TallyInv, Restart
    PROVE  TallyInv'
<1>1. /\ phase' = "account" /\ selling' = None /\ pos' = 0
      /\ \A i \in OrderId : orders'[i] = NoLocal
      /\ UNCHANGED <<remote, shares>>
  BY DEF Restart, brokerVars
<1>2. Due' = {} BY <1>1 DEF Due
<1>3. Records' /\ Children' BY RestartBooks DEF TallyInv, BooksInv
<1>4. Loops' BY <1>1, LoopsOver
<1>5. Depot' BY <1>1, DepotSame DEF TallyInv, BooksInv
<1>6. Tally' BY <1>1, <1>2, TallyReset
<1> QED BY <1>3, <1>4, <1>5, <1>6 DEF TallyInv, BooksInv

LEMMA InitTally == Init => TallyInv
<1> SUFFICES ASSUME Init PROVE TallyInv
  OBVIOUS
<1>1. /\ \A i \in OrderId : orders[i] = NoLocal
      /\ \A i \in OrderId : remote[i] = NoRemote
      /\ phase = "account" /\ selling = None /\ shares = 0 /\ pos = 0
  BY DEF Init
<1>2. \A i \in OrderId : Fit(remote[i]) BY <1>1 DEF Fit, NoRemote
<1>3. Records /\ Children BY <1>1, <1>2, NoBooks
<1>4. Loops BY <1>1 DEF Loops
<1>5. Cardinality({}) = 0 BY FS_EmptySet
<1>6. Holding = {} /\ GivenUp = {} BY <1>1 DEF Holding, GivenUp, NoRemote
<1>7. Depot BY <1>1, <1>5, <1>6 DEF Depot
<1>8. Bought(orders) = {} /\ Sold(orders) = {}
  BY <1>1 DEF Bought, Sold, NoLocal, LocalOrder
<1>9. Net(orders) = Cardinality(Bought(orders)) - Cardinality(Sold(orders))
  BY DEF Net, Bought, Sold
<1>10. Net(orders) = 0 BY <1>5, <1>8, <1>9
<1>11. Due = {} BY <1>1 DEF Due
<1>12. Tally BY <1>1, <1>10, <1>11, NothingDue DEF Tally
<1> QED BY <1>3, <1>4, <1>7, <1>12 DEF TallyInv, BooksInv

LEMMA NextTally == IInv /\ TallyInv /\ [Next]_vars => TallyInv'
<1> SUFFICES ASSUME IInv, TallyInv, [Next]_vars PROVE TallyInv'
  OBVIOUS
<1>1. IInv' BY NextIInv
<1>2. Records /\ Children /\ Loops /\ Tally /\ Depot BY DEF TallyInv, BooksInv
<1>3. ASSUME NEW i \in OrderId, Refresh(i) PROVE TallyInv'
  <2>1. orders[i].kind # "NONE" /\ Loops' BY <1>2, <1>3, RefreshLoops
  <2>2. Records' /\ Children' BY <1>1, <1>2, <1>3, <2>1, RefreshBooks
  <2>3. Depot' BY <1>2, <1>3, PolledOrders, DepotSame
  <2>4. Tally' BY <1>2, <1>3, TallyRefreshed
  <2> QED BY <2>1, <2>2, <2>3, <2>4 DEF TallyInv, BooksInv
<1>4. ASSUME NEW i \in OrderId, PollSale(i) PROVE TallyInv'
  <2>1. Records' /\ Children' BY <1>2, <1>4, PollSaleBooks
  <2>2. Loops' BY <1>2, <1>4, PollSaleLoops
  <2>3. UNCHANGED <<remote, shares>> BY <1>4 DEF PollSale, brokerVars
  <2>4. Depot' BY <1>2, <2>3, DepotSame
  <2>5. Tally' BY <1>2, <1>4, TallySale
  <2> QED BY <2>1, <2>2, <2>4, <2>5 DEF TallyInv, BooksInv
<1>5. ASSUME NEW i \in OrderId, Apply(i) PROVE TallyInv'
  <2>1. Records' /\ Children' BY <1>2, <1>5, ApplyBooks
  <2>2. /\ UNCHANGED <<remote, shares, selling, phase>> /\ phase \in {"apply", "applySold"}
    BY <1>5 DEF Apply, Applying, brokerVars
  <2>3. Loops' BY <1>2, <2>2, NoLoop, LoopsOver
  <2>4. Depot' BY <1>2, <2>2, DepotSame
  <2>5. Tally' BY <1>2, <1>5, TallyApplied
  <2> QED BY <2>1, <2>3, <2>4, <2>5 DEF TallyInv, BooksInv
<1>6. ASSUME NEW i \in OrderId, ApplyRaises(i) PROVE TallyInv'
  <2>1. /\ UNCHANGED <<remote, shares, orders, selling>>
        /\ phase \in {"apply", "applySold"} /\ phase' = "idle"
    BY <1>6 DEF ApplyRaises, Applying, Abort, brokerVars, bookVars
  <2>2. Loops' BY <1>2, <2>1, NoLoop, LoopsOver
  <2>3. Grows /\ Depot' BY <1>2, <2>1, DepotSame
  <2>4. Records' /\ Children' BY <1>1, <1>2, <2>1, <2>3, SameBooks
  <2>5. Tally' BY <1>2, <1>6, TallyRaised
  <2> QED BY <2>2, <2>3, <2>4, <2>5 DEF TallyInv, BooksInv
<1>7. ASSUME ListOrders PROVE TallyInv'
  <2>1. Records' /\ Children' BY <1>2, <1>7, ListOrdersBooks
  <2>2. Loops' BY <1>2, <1>7, ListOrdersLoops
  <2>3. /\ UNCHANGED <<remote, shares, pos>> /\ phase = "list" /\ phase' = "orders"
        /\ mishap' = (mishap \/ Net(orders') # Net(orders))
    BY <1>7 DEF ListOrders, brokerVars
  <2>4. Depot' BY <1>2, <2>3, DepotSame
  <2>5. Due = {} /\ Due' = {} BY <2>3 DEF Due
  <2>6. Tally' BY <1>2, <2>3, <2>5, TallySynced
  <2> QED BY <2>1, <2>2, <2>4, <2>6 DEF TallyInv, BooksInv
<1>8. ASSUME Strategy PROVE TallyInv'
  <2>1. /\ Records' /\ Children'
        /\ \A j \in OrderId : /\ orders'[j].kind = orders[j].kind
                              /\ orders'[j].status = orders[j].status
                              /\ orders'[j].sold = orders[j].sold
    BY <1>2, <1>8, StrategyBooks
  <2>2. Loops' BY <1>2, <1>8, StrategyLoops
  <2>3. /\ UNCHANGED <<remote, shares, pos, mishap>>
        /\ phase = "strategy" /\ phase' = "manual" /\ changed' = {}
    BY <1>8 DEF Strategy, brokerVars
  <2>4. Depot' BY <1>2, <2>3, DepotSame
  <2>5. Due = {} /\ Due' = {} BY <2>3 DEF Due
  <2>6. \A j \in OrderId : /\ j \in Bought(orders') <=> j \in Bought(orders)
                           /\ j \in Sold(orders') <=> j \in Sold(orders)
    BY <2>1 DEF Bought, Sold
  <2>7. Tally' BY <1>2, <2>3, <2>5, <2>6, TallySame
  <2> QED BY <2>1, <2>2, <2>4, <2>7 DEF TallyInv, BooksInv
<1>9. ASSUME Step PROVE TallyInv'
  <2>1. CASE \/ SaleRefused \/ PollDone \/ ApplyDone \/ ListFails \/ SyncDone
             \/ ManualDone \/ SoldDone \/ CancelDone \/ TickDone
    BY <1>1, <2>1, PassageTally
  <2>2. CASE ListOrders \/ Strategy BY <1>7, <1>8, <2>2
  <2>3. CASE SyncAccount \/ SubmitRaises
    BY <1>1, <2>3, SyncAccountTally, SubmitRaisesTally
  <2>4. CASE \E i \in OrderId : \/ Refresh(i) \/ PollSale(i) \/ Apply(i) \/ ApplyRaises(i)
    BY <1>3, <1>4, <1>5, <1>6, <2>4
  <2>5. CASE \E i \in OrderId : \/ FetchFails(i) \/ CancelLegs(i) \/ SaleAccepted(i)
                                \/ SaleLost(i) \/ Cancel(i)
    BY <1>1, <2>5, FetchFailsTally, CancelLegsTally, SaleAcceptedTally, SaleLostTally, CancelTally
  <2>6. CASE \E i \in OrderId, k \in Menu : Submit(i, k)
    BY <1>1, <2>6, SubmitTally
  <2> QED BY <1>9, <2>1, <2>2, <2>3, <2>4, <2>5, <2>6 DEF Step
<1> QED BY <1>1, <1>9, PassageTally, RestartTally, BrokerTally DEF Next

(* All orders seen in their last state: what counts as bought is what the  *)
(* broker holds or has sold by hand.                                       *)
LEMMA TallySettles ==
    ASSUME IInv, TallyInv, \A i \in OrderId : UpToDate(i)
    PROVE  Net(orders) = shares
<1>1. ASSUME NEW i \in OrderId
      PROVE  /\ i \in Bought(orders) <=> i \in Holding
             /\ i \in Sold(orders) <=> i \in GivenUp
  <2> DEFINE o == orders[i]
             r == remote[i]
  <2>1. /\ o \in Local /\ r \in Remote /\ Sane(o, r) /\ Fit(r) /\ o.kind = r.kind
        /\ ~ClosedUnsold(o) /\ r.status # "partial"
        /\ o.kind # "NONE" => IF ~InSale(o) THEN Polled(o, r) = o
                              ELSE /\ r.legs # "filled"
                                   /\ o.child # None =>
                                        PolledMarket(orders[o.child], remote[o.child]) = orders[o.child]
    BY DEF IInv, Types, TypeOK, TallyInv, BooksInv, Records, UpToDate
  <2>2. CASE o.kind = "NONE"
    BY <2>1, <2>2 DEF Bought, Sold, Holding, GivenUp
  <2>3. CASE o.kind \in {"BUY", "SELL"}
    <3>1. PolledMarket(o, r) = o BY <2>1, <2>3 DEF InSale, Polled
    <3>2. o.status = "FILLED" <=> r.status = "filled" BY <2>1, <3>1, PolledMarketIs
    <3>3. r.legs # "filled" BY <2>1, <2>3 DEF Fit
    <3> QED BY <2>1, <2>3, <3>2, <3>3 DEF Bought, Sold, Holding, GivenUp
  <2>4. CASE o.kind = "BRACKET"
    <3>1. i \notin Sold(orders) /\ i \notin GivenUp BY <2>1, <2>4 DEF Sold, GivenUp
    <3>2. i \in Holding <=> r.status = "filled" /\ r.legs # "filled"
      BY <2>1, <2>4 DEF Holding
    <3>3. i \in Bought(orders) <=> o.status = "PENDING_SALE" \/ SoldByHand(o)
      BY <2>4 DEF Bought, SoldByHand
    <3>4. CASE InSale(o) BY <2>1, <2>4, <3>1, <3>2, <3>3, <3>4 DEF InSale, Sane
    <3>5. CASE ~InSale(o)
      <4>1. PolledBracket(o, r) = o BY <2>1, <2>4, <3>5 DEF Polled
      <4>2. CASE r.legs = "filled"
        <5>1. o = [o EXCEPT !.status = "FILLED", !.sold = "LEG"]
          BY <4>1, <4>2 DEF PolledBracket
        <5>2. o.status = "FILLED" /\ o.sold = "LEG" BY <2>1, <5>1 DEF Local
        <5> QED BY <3>1, <3>2, <3>3, <4>2, <5>2 DEF SoldByHand
      <4>3. CASE r.legs # "filled"
        <5>1. o.status \in {"PENDING", "PENDING_SALE", "FILLED", "CANCELED"}
          BY <2>1 DEF Local, Status
        <5>2. CASE o.status = "PENDING"
          <6>1. r.status # "filled"
            BY <2>1, <4>1, <4>3, <5>2 DEF PolledBracket, Local
          <6> QED BY <3>1, <3>2, <3>3, <5>2, <6>1 DEF SoldByHand, Terminal
        <5>3. CASE o.status = "PENDING_SALE"
          BY <2>1, <3>1, <3>2, <3>3, <4>3, <5>3 DEF Sane
        <5>4. CASE o.status = "FILLED"
          <6>1. o.sold = "MANUAL"
            BY <2>1, <2>4, <4>3, <5>4 DEF ClosedUnsold, Sane, Local
          <6> QED BY <2>1, <2>4, <3>1, <3>2, <3>3, <4>3, <5>4, <6>1 DEF Sane, SoldByHand, Terminal
        <5>5. CASE o.status = "CANCELED"
          <6>1. o.sold \in {"NONE", "MANUAL"} BY <2>1, <5>5 DEF Sane, Local
          <6> QED BY <2>1, <2>4, <3>1, <3>2, <3>3, <4>3, <5>5, <6>1 DEF Sane, SoldByHand, Terminal
        <5> QED BY <5>1, <5>2, <5>3, <5>4, <5>5
      <4> QED BY <4>2, <4>3
    <3> QED BY <3>4, <3>5
  <2> QED BY <2>1, <2>2, <2>3, <2>4 DEF Local, Kind
<1>2. /\ Bought(orders) \subseteq OrderId /\ Sold(orders) \subseteq OrderId
      /\ Holding \subseteq OrderId /\ GivenUp \subseteq OrderId
  BY DEF Bought, Sold, Holding, GivenUp
<1>3. Bought(orders) = Holding /\ Sold(orders) = GivenUp BY <1>1, <1>2
<1>4. Net(orders) = Cardinality(Bought(orders)) - Cardinality(Sold(orders))
  BY DEF Net, Bought, Sold
<1> QED BY <1>3, <1>4 DEF TallyInv, Depot

(* Between two ticks the portfolio holds what its orders add up to, and    *)
(* what the broker holds once all of them are up to date: over lost        *)
(* answers, refusals, cancellations that race fills, and restarts.         *)
THEOREM PositionCorrect == Spec => []PositionAgrees
<1>1. IInv /\ TallyInv => PositionAgrees
  <2> SUFFICES ASSUME IInv, TallyInv, phase = "idle", ~mishap
               PROVE  /\ pos = Net(orders)
                      /\ (\A i \in OrderId : UpToDate(i)) => pos = shares
    BY DEF PositionAgrees
  <2>1. Due = {} BY DEF Due
  <2>2. pos = Net(orders) BY <2>1, NothingDue DEF TallyInv, Tally
  <2> QED BY <2>2, TallySettles
<1> QED BY Invariant, InitTally, NextTally, <1>1, PTL DEF Spec

=============================================================================
