----------------------- MODULE AggregatingEngineProofs -----------------------
(***************************************************************************)
(* The aggregating engine for any set of symbols, any period, any gaps and *)
(* a stream of any length: it is the engine of AsyncEngine, whose theorems *)
(* hold of it, and every bar that is folded is in exactly one aggregate.   *)
(***************************************************************************)
EXTENDS AggregatingEngine, AsyncEngineProofs

(* What the aggregator's variables may hold: AggTypeOK without the engine. *)
Types ==
    /\ batching \in BOOLEAN /\ expected \subseteq Symbols
    /\ open \in [Symbols -> [end : Window \cup {0}, minutes : SUBSET Minute]]
    /\ buffer \subseteq Aggregates /\ fed \subseteq Aggregates
    /\ passed \in Seq(Aggregates)
    /\ since \in [Window -> Nat] /\ expired \in 0..Len(handled)
    /\ arrived \subseteq Bar /\ dropped \subseteq arrived
    /\ raised \subseteq Window
    /\ outcome \in {"ok", "raised", "refused"}

(* The window of an open aggregate ends after all its symbol's bars, *)
Ahead ==
    \A s \in Symbols : open[s] # NoAggregate =>
        \A c \in Folded : c.sym = s => c.minute < open[s].end

(* and every other window has been reached by one of them.                 *)
Behind ==
    \A a \in buffer \cup fed : \E c \in Folded : c.sym = a.sym /\ a.end <= c.minute

AggInv ==
    Types /\ ExactWindows /\ Ahead /\ Behind /\ MissingOnlyIfRaised /\ InWindowOrder

-----------------------------------------------------------------------------
(* Windows *)

LEMMA MinutesAreNumbers == Minute \subseteq Nat \ {0}
BY EngineAssumption, AggregationAssumption DEF Minute

(* A window ends at or after its bars, and less than a period later. *)
LEMMA WindowBounds ==
    ASSUME NEW m \in Nat
    PROVE  /\ WindowEnd(m) \in Nat
           /\ m <= WindowEnd(m) /\ WindowEnd(m) < m + Period
<1> DEFINE n == m + Period - 1
           k == n \div Period
<1>1. Period \in Nat /\ Period > 0 /\ n \in Nat BY AggregationAssumption
<1>2. k \in Nat /\ n = Period * k + (n % Period) /\ n % Period \in 0..(Period - 1)
  BY <1>1
<1>3. Period * k \in Nat BY <1>1, <1>2
<1>4. WindowEnd(m) = Period * k BY DEF WindowEnd
<1> HIDE DEF k
<1> QED BY <1>1, <1>2, <1>3, <1>4

(* A later bar that is not after the window's end belongs to the window. *)
LEMMA SameWindow ==
    ASSUME NEW m \in Nat, NEW n \in Nat, m <= n, n <= WindowEnd(m)
    PROVE  WindowEnd(n) = WindowEnd(m)
<1> DEFINE j == (m + Period - 1) \div Period
           k == (n + Period - 1) \div Period
<1>1. Period \in Nat /\ Period > 0 BY AggregationAssumption
<1>2. j \in Nat /\ k \in Nat BY <1>1
<1>3. WindowEnd(m) = Period * j /\ WindowEnd(n) = Period * k BY DEF WindowEnd
<1> HIDE DEF j, k
<1>4. Period * j < Period * k + Period
  BY <1>1, <1>2, <1>3, WindowBounds
<1>5. Period * k < Period * j + Period
  BY <1>1, <1>2, <1>3, WindowBounds
<1>6. ~(j >= k + 1)
  <2> SUFFICES ASSUME j >= k + 1 PROVE FALSE OBVIOUS
  <2>1. Period * j >= Period * (k + 1) BY <1>1, <1>2
  <2>2. Period * (k + 1) = Period * k + Period BY <1>1, <1>2
  <2> QED BY <1>1, <1>2, <1>4, <2>1, <2>2
<1>7. ~(k >= j + 1)
  <2> SUFFICES ASSUME k >= j + 1 PROVE FALSE OBVIOUS
  <2>1. Period * k >= Period * (j + 1) BY <1>1, <1>2
  <2>2. Period * (j + 1) = Period * j + Period BY <1>1, <1>2
  <2> QED BY <1>1, <1>2, <1>5, <2>1, <2>2
<1>8. j = k BY <1>2, <1>6, <1>7
<1> QED BY <1>3, <1>8

-----------------------------------------------------------------------------
(* The engine *)

(* Aggregation changes nothing about the engine: its theorems hold.        *)
THEOREM Implements == AggregatingSpec => Spec
<1>1. AggregatingInit => Init BY DEF AggregatingInit
<1>2. [AggregatingNext]_<<vars, aggVars>> => [Next]_vars
  BY DEF AggregatingNext, Elsewhere, Next
<1> QED BY <1>1, <1>2, PTL DEF AggregatingSpec, Spec

LEMMA HandledGrows ==
    ASSUME TypeOK, OnTickEnds
    PROVE  Len(handled) \in Nat /\ Len(handled') \in Nat /\ Len(handled) <= Len(handled')
<1>1. handled \in Seq(Tick) /\ thread \in Seq(Tick)
  <2>1. <<>> \in Seq(Tick) /\ \A t \in Tick : <<t>> \in Seq(Tick) BY EmptySeq
  <2> QED BY <2>1 DEF TypeOK, Tick
<1>2. handled' = handled \o thread BY DEF OnTickEnds
<1>3. Len(handled \o thread) = Len(handled) + Len(thread) BY <1>1, ConcatProperties
<1> QED BY <1>1, <1>2, <1>3, LenProperties

LEMMA HandledStays ==
    ASSUME Elsewhere
    PROVE  handled' = handled
BY DEF Elsewhere, Start, OnlyStream, StreamConnects, StreamFails, StreamEnds,
       SubmitTick, WorkerTakes, PromptEnds, WorkerQuits, DebugQuit, StartReturns,
       StartRaises, Stop, JoinReturns, StopReturns

-----------------------------------------------------------------------------
(* Folding a bar *)

LEMMA BarType ==
    ASSUME NEW b \in Bar
    PROVE  /\ b.sym \in Symbols /\ b.minute \in Minute
           /\ b.minute \in Nat /\ 0 < b.minute
           /\ WindowEnd(b.minute) \in Window /\ WindowEnd(b.minute) \in Nat
           /\ b.minute <= WindowEnd(b.minute)
BY MinutesAreNumbers, WindowBounds DEF Bar, Window

LEMMA WindowsAreNumbers == Window \subseteq Nat \ {0}
BY MinutesAreNumbers, WindowBounds DEF Window

(* A bar that arrives is new and later than all bars of its symbol. *)
LEMMA Latest ==
    ASSUME Types, NEW b \in Bar, Arrives(b)
    PROVE  /\ b \notin arrived
           /\ \A c \in arrived : c.sym = b.sym => c.minute < b.minute
<1>1. \A c \in arrived : c \in Bar /\ c.minute \in Nat BY BarType DEF Types
<1> QED BY <1>1, BarType DEF Arrives

(* Every aggregate is what Whole says of some bar. *)
LEMMA EachIsWhole ==
    ASSUME Types, ExactWindows, NEW a \in OpenAggregates \cup buffer \cup fed
    PROVE  \E c \in Folded : /\ c \in Bar /\ a = Whole(c)
                             /\ a.sym = c.sym /\ a.end = WindowEnd(c.minute)
<1>1. PICK c \in Folded : a = Whole(c) BY DEF ExactWindows
<1> QED BY <1>1 DEF Whole, Types, Folded

LEMMA OpenIsNamed ==
    ASSUME NEW a \in OpenAggregates
    PROVE  /\ a.sym \in Symbols /\ open[a.sym] # NoAggregate
           /\ a = Named(a.sym, open[a.sym])
BY DEF OpenAggregates, Named

(* What folding b makes of the aggregates: it completes some, all of b's   *)
(* symbol, opens or closes at most that symbol's, and no bar is lost.      *)
Mine(b) == Named(b.sym, open[b.sym])
New(b) == Named(b.sym, Joined(b))

LEMMA JoinedType ==
    ASSUME Types, NEW b \in Bar
    PROVE  /\ Joined(b).end \in Window /\ Joined(b).minutes \subseteq Minute
           /\ Joined(b) = [end |-> Joined(b).end, minutes |-> Joined(b).minutes]
           /\ b.minute \in Joined(b).minutes /\ b.minute <= Joined(b).end
           /\ Joined(b).end \in Nat \ {0} /\ Joined(b) # NoAggregate
           /\ open[b.sym].end \in Nat
<1>1. open[b.sym] \in [end : Window \cup {0}, minutes : SUBSET Minute]
  BY BarType DEF Types
<1>2. open[b.sym].end \in Nat
  <2>1. open[b.sym].end \in Window \cup {0} BY <1>1
  <2>2. \A w \in Window \cup {0} : w \in Nat BY WindowsAreNumbers
  <2> QED BY <2>1, <2>2
<1>3. CASE b.minute <= open[b.sym].end
  <2>1. Joined(b) = [end |-> open[b.sym].end,
                     minutes |-> open[b.sym].minutes \cup {b.minute}]
    BY <1>1, <1>3 DEF Joined
  <2>2. open[b.sym].end # 0 BY <1>2, <1>3, BarType
  <2>3. open[b.sym].end \in Window BY <1>1, <2>2
  <2> QED BY <1>1, <1>2, <1>3, <2>1, <2>2, <2>3, BarType DEF NoAggregate
<1>4. CASE ~(b.minute <= open[b.sym].end)
  <2>1. Joined(b) = [end |-> WindowEnd(b.minute), minutes |-> {b.minute}]
    BY <1>4 DEF Joined
  <2>2. WindowEnd(b.minute) # 0 BY BarType, WindowsAreNumbers
  <2> QED BY <1>2, <2>1, <2>2, BarType DEF NoAggregate
<1> QED BY <1>3, <1>4

LEMMA CompletedIs ==
    ASSUME Types, NEW b \in Bar
    PROVE  LET over == 0 < open[b.sym].end /\ open[b.sym].end < b.minute
               ends == Joined(b).end = b.minute
           IN Completed(b) = CASE over /\ ends   -> <<Mine(b), New(b)>>
                               [] over /\ ~ends  -> <<Mine(b)>>
                               [] ~over /\ ends  -> <<New(b)>>
                               [] ~over /\ ~ends -> <<>>
<1> DEFINE over == 0 < open[b.sym].end /\ open[b.sym].end < b.minute
           ends == Joined(b).end = b.minute
<1>1. Past(b) = IF over THEN <<Mine(b)>> ELSE <<>> BY DEF Past, Mine
<1>2. Own(b) = IF ends THEN <<New(b)>> ELSE <<>> BY DEF Own, New
<1>3. ASSUME NEW x, NEW y
      PROVE  <<x>> \o <<y>> = <<x, y>> /\ <<x>> \o <<>> = <<x>> /\ <<>> \o <<y>> = <<y>>
  <2>1. <<x>> \in Seq({x, y}) /\ <<y>> \in Seq({x, y}) OBVIOUS
  <2>2. Append(<<x>>, y) = <<x>> \o <<y>> BY <2>1, AppendIsConcat
  <2>3. Append(<<x>>, y) = <<x, y>>
    <3>1. <<x, y>> \in Seq({x, y}) /\ Len(<<x, y>>) = 2
          /\ <<x, y>>[1] = x /\ <<x, y>>[2] = y
      OBVIOUS
    <3>2. Append(<<x>>, y) \in Seq({x, y}) /\ Len(Append(<<x>>, y)) = 2
          /\ Append(<<x>>, y)[1] = x /\ Append(<<x>>, y)[2] = y
      BY <2>1, AppendProperties
    <3>3. \A i \in 1..2 : i = 1 \/ i = 2 OBVIOUS
    <3> QED BY <3>1, <3>2, <3>3, SeqEqual
  <2> QED BY <2>1, <2>2, <2>3, ConcatEmptySeq
<1>4. <<>> \o <<>> = <<>> OBVIOUS
<1> HIDE DEF over, ends
<1>5. Completed(b) = Past(b) \o Own(b) BY DEF Completed
<1>6. Completed(b) = CASE over /\ ends   -> <<Mine(b), New(b)>>
                       [] over /\ ~ends  -> <<Mine(b)>>
                       [] ~over /\ ends  -> <<New(b)>>
                       [] ~over /\ ~ends -> <<>>
  <2>1. CASE over /\ ends BY <1>1, <1>2, <1>3, <1>5, <2>1
  <2>2. CASE over /\ ~ends BY <1>1, <1>2, <1>3, <1>5, <2>2
  <2>3. CASE ~over /\ ends BY <1>1, <1>2, <1>3, <1>5, <2>3
  <2>4. CASE ~over /\ ~ends BY <1>1, <1>2, <1>4, <1>5, <2>4
  <2> QED BY <2>1, <2>2, <2>3, <2>4
<1> QED BY <1>6 DEF over, ends

LEMMA ClosedIs ==
    ASSUME Types, NEW b \in Bar
    PROVE  Closed(b) = (IF 0 < open[b.sym].end /\ open[b.sym].end < b.minute
                        THEN {Mine(b)} ELSE {})
                       \cup (IF Joined(b).end = b.minute THEN {New(b)} ELSE {})
<1> DEFINE over == 0 < open[b.sym].end /\ open[b.sym].end < b.minute
           ends == Joined(b).end = b.minute
<1>1. Completed(b) = CASE over /\ ends   -> <<Mine(b), New(b)>>
                       [] over /\ ~ends  -> <<Mine(b)>>
                       [] ~over /\ ends  -> <<New(b)>>
                       [] ~over /\ ~ends -> <<>>
  BY CompletedIs
<1> HIDE DEF over, ends
<1>2. \A x, y : /\ {<<x, y>>[i] : i \in DOMAIN <<x, y>>} = {x, y}
                /\ {<<x>>[i] : i \in DOMAIN <<x>>} = {x}
  OBVIOUS
<1>3. {<<>>[i] : i \in DOMAIN <<>>} = {} OBVIOUS
<1>4. Closed(b) = (IF over THEN {Mine(b)} ELSE {}) \cup (IF ends THEN {New(b)} ELSE {})
  <2>1. CASE over /\ ends BY <1>1, <1>2, <2>1 DEF Closed
  <2>2. CASE over /\ ~ends BY <1>1, <1>2, <2>2 DEF Closed
  <2>3. CASE ~over /\ ends BY <1>1, <1>2, <2>3 DEF Closed
  <2>4. CASE ~over /\ ~ends BY <1>1, <1>3, <2>4 DEF Closed
  <2> QED BY <2>1, <2>2, <2>3, <2>4
<1> QED BY <1>4 DEF over, ends

LEMMA OpenAfter ==
    ASSUME Types, NEW b \in Bar, Fold(b)
    PROVE  /\ OpenAggregates' = {a \in OpenAggregates : a.sym # b.sym}
                    \cup (IF Joined(b).end = b.minute THEN {} ELSE {New(b)})
           /\ open' \in [Symbols -> [end : Window \cup {0}, minutes : SUBSET Minute]]
           /\ \A s \in Symbols \ {b.sym} : open'[s] = open[s]
           /\ open'[b.sym] = IF Joined(b).end = b.minute THEN NoAggregate ELSE Joined(b)
<1> DEFINE now == IF Joined(b).end = b.minute THEN NoAggregate ELSE Joined(b)
<1>1. now \in [end : Window \cup {0}, minutes : SUBSET Minute]
  BY JoinedType DEF NoAggregate
<1>2. open' = [open EXCEPT ![b.sym] = now] BY DEF Fold
<1> HIDE DEF now
<1>3. /\ open' \in [Symbols -> [end : Window \cup {0}, minutes : SUBSET Minute]]
      /\ \A s \in Symbols \ {b.sym} : open'[s] = open[s]
      /\ open'[b.sym] = now
  BY <1>1, <1>2, BarType DEF Types
<1>4. OpenAggregates' = {Named(s, open'[s]) : s \in {t \in Symbols : open'[t] # NoAggregate}}
  BY DEF OpenAggregates, Named
<1>5. ASSUME NEW a PROVE a \in OpenAggregates' <=>
          \/ a \in OpenAggregates /\ a.sym # b.sym
          \/ Joined(b).end # b.minute /\ a = New(b)
  <2>1. a \in OpenAggregates' <=>
           \E s \in Symbols : open'[s] # NoAggregate /\ a = Named(s, open'[s])
    BY <1>4
  <2>2. a \in OpenAggregates <=>
           \E s \in Symbols : open[s] # NoAggregate /\ a = Named(s, open[s])
    BY DEF OpenAggregates
  <2>3. \A s, o : Named(s, o).sym = s BY DEF Named
  <2>4. now # NoAggregate <=> Joined(b).end # b.minute BY JoinedType DEF now
  <2>5. now # NoAggregate => Named(b.sym, now) = New(b) BY DEF now, New
  <2> QED BY <1>3, <2>1, <2>2, <2>3, <2>4, <2>5, BarType
<1>6. OpenAggregates' = {a \in OpenAggregates : a.sym # b.sym}
                    \cup (IF Joined(b).end = b.minute THEN {} ELSE {New(b)})
  BY <1>5
<1> QED BY <1>3, <1>6 DEF now

-----------------------------------------------------------------------------
(* Folding a bar into the aggregates *)

LEMMA FoldedAfter ==
    ASSUME Types, NEW b \in Bar, Arrives(b), dropped' = dropped
    PROVE  /\ Folded' = Folded \cup {b} /\ b \notin Folded /\ Folded \subseteq Bar
           /\ \A c \in Folded : c.sym = b.sym => c.minute < b.minute
BY Latest DEF Arrives, Folded, Types

(* The open aggregate of b's symbol, if there is one. *)
LEMMA MineIsOpen ==
    ASSUME AggInv, NEW b \in Bar
    PROVE  /\ open[b.sym].end \in Nat
           /\ open[b.sym].end > 0 <=> open[b.sym] # NoAggregate
           /\ open[b.sym].end > 0 <=> Mine(b) \in OpenAggregates
           /\ \A a \in OpenAggregates : a.sym = b.sym => a = Mine(b)
<1>1. open[b.sym].end \in Nat BY JoinedType DEF AggInv
<1>2. open[b.sym] # NoAggregate <=> Mine(b) \in OpenAggregates
  <2>1. ASSUME Mine(b) \in OpenAggregates PROVE open[b.sym] # NoAggregate
    <3>1. Mine(b).sym = b.sym BY DEF Mine, Named
    <3> QED BY <2>1, <3>1, OpenIsNamed
  <2> QED BY <2>1, BarType DEF OpenAggregates, Mine
<1>3. ASSUME open[b.sym] # NoAggregate PROVE open[b.sym].end > 0
  <2>1. PICK c \in Folded : c \in Bar /\ Mine(b).end = WindowEnd(c.minute)
    BY <1>2, <1>3, EachIsWhole DEF AggInv
  <2>2. WindowEnd(c.minute) \in Nat \ {0} BY <2>1, BarType, WindowsAreNumbers
  <2> QED BY <1>1, <2>1, <2>2 DEF Mine, Named
<1>4. open[b.sym] = NoAggregate => ~(open[b.sym].end > 0) BY DEF NoAggregate
<1>5. \A a \in OpenAggregates : a.sym = b.sym => a = Mine(b)
  BY OpenIsNamed DEF Mine
<1> QED BY <1>1, <1>2, <1>3, <1>4, <1>5

(* The bars folded before that share b's window make up the open aggregate *)
(* that b joins.                                                           *)
Shares(b, c) == c.sym = b.sym /\ WindowEnd(c.minute) = WindowEnd(b.minute)

LEMMA SharesMine ==
    ASSUME AggInv, NEW b \in Bar, Arrives(b), dropped' = dropped, NEW c \in Folded
    PROVE  Shares(b, c) <=> b.minute <= open[b.sym].end /\ Whole(c) = Mine(b)
<1>1. c \in Bar /\ (c.sym = b.sym => c.minute < b.minute)
  BY FoldedAfter DEF AggInv
<1>2. open[b.sym].end \in Nat /\ b.minute \in Nat /\ 0 < b.minute
      /\ b.minute <= WindowEnd(b.minute) /\ WindowEnd(b.minute) \in Nat
      /\ c.minute \in Nat /\ WindowEnd(c.minute) \in Nat
  BY <1>1, MineIsOpen, BarType
<1>3. ASSUME Shares(b, c) PROVE b.minute <= open[b.sym].end /\ Whole(c) = Mine(b)
  <2>1. Whole(c) \in OpenAggregates \cup buffer \cup fed BY DEF AggInv, ExactWindows
  <2>2. Whole(c).sym = b.sym /\ Whole(c).end = WindowEnd(b.minute)
    BY <1>3 DEF Shares, Whole
  <2>3. Whole(c) \notin buffer \cup fed
    <3> SUFFICES ASSUME Whole(c) \in buffer \cup fed PROVE FALSE OBVIOUS
    <3>1. PICK d \in Folded : d.sym = b.sym /\ WindowEnd(b.minute) <= d.minute
      BY <2>2 DEF AggInv, Behind
    <3>2. d \in Bar /\ d.minute < b.minute BY <3>1, FoldedAfter DEF AggInv
    <3> QED BY <1>2, <3>1, <3>2, BarType
  <2>4. Whole(c) = Mine(b) BY <2>1, <2>2, <2>3, MineIsOpen
  <2>5. open[b.sym].end = WindowEnd(b.minute) BY <2>2, <2>4 DEF Mine, Named
  <2> QED BY <1>2, <2>4, <2>5
<1>4. ASSUME b.minute <= open[b.sym].end, Whole(c) = Mine(b) PROVE Shares(b, c)
  <2>1. c.sym = b.sym /\ WindowEnd(c.minute) = open[b.sym].end
    BY <1>4 DEF Whole, Mine, Named
  <2>2. WindowEnd(b.minute) = WindowEnd(c.minute)
    BY <1>1, <1>2, <1>4, <2>1, SameWindow
  <2> QED BY <2>1, <2>2 DEF Shares
<1> QED BY <1>3, <1>4

(* With b, the bars of its window are what b is folded into, *)
LEMMA NewIsWhole ==
    ASSUME AggInv, NEW b \in Bar, Arrives(b), dropped' = dropped
    PROVE  /\ Whole(b)' = New(b)
           /\ \A c \in Folded : Whole(c)' = IF Shares(b, c) THEN New(b) ELSE Whole(c)
<1> DEFINE before == {c.minute : c \in {c \in Folded : Shares(b, c)}}
<1>1. Folded' = Folded \cup {b} BY FoldedAfter DEF AggInv
<1>2. Whole(b)' = [sym |-> b.sym, end |-> WindowEnd(b.minute),
                   minutes |-> before \cup {b.minute}]
  BY <1>1 DEF Whole, Shares
<1>3. \A c \in Folded : Shares(b, c) => Whole(c)' = Whole(b)' BY DEF Shares, Whole
<1>4. ASSUME NEW c \in Folded, ~Shares(b, c) PROVE Whole(c)' = Whole(c)
  BY <1>1, <1>4 DEF Shares, Whole
<1>5. CASE b.minute <= open[b.sym].end
  <2>1. Mine(b) \in OpenAggregates BY <1>5, MineIsOpen, BarType
  <2>2. PICK c \in Folded : Mine(b) = Whole(c) BY <2>1, EachIsWhole DEF AggInv
  <2>3. Shares(b, c) BY <1>5, <2>2, SharesMine
  <2>4. Whole(c).minutes = before /\ Whole(c).end = WindowEnd(b.minute)
    BY <2>3 DEF Shares, Whole
  <2>5. open[b.sym].minutes = before /\ open[b.sym].end = WindowEnd(b.minute)
    BY <2>2, <2>4 DEF Mine, Named
  <2>6. New(b).sym = b.sym /\ New(b).end = WindowEnd(b.minute)
        /\ New(b).minutes = before \cup {b.minute}
    <3>1. open[b.sym] \in [end : Window \cup {0}, minutes : SUBSET Minute]
      BY BarType DEF AggInv, Types
    <3>2. Joined(b) = [open[b.sym] EXCEPT !.minutes = @ \cup {b.minute}]
      BY <1>5 DEF Joined
    <3>3. Joined(b).end = open[b.sym].end
          /\ Joined(b).minutes = open[b.sym].minutes \cup {b.minute}
      BY <3>1, <3>2
    <3> HIDE DEF before
    <3> QED BY <2>5, <3>3 DEF New, Named
  <2>7. New(b) = [sym |-> b.sym, end |-> WindowEnd(b.minute),
                  minutes |-> before \cup {b.minute}]
    BY <2>6 DEF New, Named
  <2> QED BY <1>2, <1>3, <1>4, <2>7
<1>6. CASE ~(b.minute <= open[b.sym].end)
  <2>1. \A c \in Folded : ~Shares(b, c) BY <1>6, SharesMine
  <2>2. before = {} BY <2>1
  <2>3. New(b) = [sym |-> b.sym, end |-> WindowEnd(b.minute), minutes |-> {b.minute}]
    BY <1>6 DEF New, Named, Joined
  <2> QED BY <1>2, <1>3, <1>4, <2>2, <2>3
<1> QED BY <1>5, <1>6

(* which is an aggregate there was not before; *)
LEMMA NewIsNew ==
    ASSUME AggInv, NEW b \in Bar, Arrives(b), dropped' = dropped
    PROVE  New(b) \notin OpenAggregates \cup buffer \cup fed
<1> SUFFICES ASSUME New(b) \in OpenAggregates \cup buffer \cup fed PROVE FALSE
  OBVIOUS
<1>1. PICK c \in Folded : New(b) = Whole(c) BY EachIsWhole DEF AggInv
<1>2. b.minute \in New(b).minutes BY JoinedType DEF AggInv, New, Named
<1>3. PICK d \in Folded : d.sym = c.sym /\ d.minute = b.minute
  BY <1>1, <1>2 DEF Whole
<1>4. c.sym = b.sym BY <1>1 DEF Whole, New, Named
<1>5. d.minute < b.minute BY <1>3, <1>4, FoldedAfter DEF AggInv
<1> QED BY <1>3, <1>5, BarType

(* all others stay. *)
LEMMA WholesAfter ==
    ASSUME AggInv, NEW b \in Bar, Arrives(b), dropped' = dropped
    PROVE  {Whole(c) : c \in Folded}' =
             ({Whole(c) : c \in Folded}
                \ (IF b.minute <= open[b.sym].end THEN {Mine(b)} ELSE {}))
             \cup {New(b)}
<1>1. Folded' = Folded \cup {b} BY FoldedAfter DEF AggInv
<1>2. {Whole(c) : c \in Folded}' = {Whole(c)' : c \in Folded \cup {b}} BY <1>1
<1>3. {Whole(c)' : c \in Folded \cup {b}}
        = {Whole(c) : c \in {c \in Folded : ~Shares(b, c)}} \cup {New(b)}
  BY NewIsWhole
<1>4. {Whole(c) : c \in {c \in Folded : ~Shares(b, c)}}
        = {Whole(c) : c \in Folded}
            \ (IF b.minute <= open[b.sym].end THEN {Mine(b)} ELSE {})
  BY SharesMine
<1> QED BY <1>2, <1>3, <1>4

(* Folding b keeps every bar in one aggregate, when what b completes goes  *)
(* to those that are not open any more.                                    *)
LEMMA FoldKeeps ==
    ASSUME AggInv, NEW b \in Bar, Arrives(b), Fold(b), dropped' = dropped
    PROVE  /\ OpenAggregates' \cup Closed(b) \cup buffer \cup fed
                = {Whole(c) : c \in Folded}'
           /\ OpenAggregates' \cap (Closed(b) \cup buffer \cup fed) = {}
           /\ Closed(b) \cap (buffer \cup fed) = {}
<1> DEFINE given == buffer \cup fed
           mine == IF open[b.sym].end > 0 THEN {Mine(b)} ELSE {}
           joins == b.minute <= open[b.sym].end
           ends == Joined(b).end = b.minute
           others == {a \in OpenAggregates : a.sym # b.sym}
<1>1. /\ open[b.sym].end \in Nat /\ b.minute \in Nat /\ 0 < b.minute
      /\ Joined(b).end \in Nat /\ b.minute <= Joined(b).end
  BY MineIsOpen, BarType, JoinedType DEF AggInv
<1>2. OpenAggregates = others \cup mine /\ others \cap mine = {}
  <2>1. Mine(b).sym = b.sym BY DEF Mine, Named
  <2> QED BY <2>1, MineIsOpen
<1>3. OpenAggregates' = others \cup (IF ends THEN {} ELSE {New(b)})
  BY OpenAfter DEF AggInv
<1>4. joins => Joined(b).end = open[b.sym].end
  <2>1. open[b.sym] \in [end : Window \cup {0}, minutes : SUBSET Minute]
    BY BarType DEF AggInv, Types
  <2> QED BY <2>1 DEF Joined
<1>5. Closed(b) = (IF joins THEN {} ELSE mine) \cup (IF ends THEN {New(b)} ELSE {})
  <2>1. 0 < open[b.sym].end /\ open[b.sym].end < b.minute
          <=> open[b.sym].end > 0 /\ ~joins
    BY <1>1
  <2> QED BY <2>1, ClosedIs DEF AggInv
<1>6. {Whole(c) : c \in Folded}'
        = ((OpenAggregates \cup given) \ (IF joins THEN {Mine(b)} ELSE {})) \cup {New(b)}
  <2>1. OpenAggregates \cup given = {Whole(c) : c \in Folded}
    BY DEF AggInv, ExactWindows
  <2> QED BY <2>1, WholesAfter
<1>7. New(b) \notin others \cup mine \cup given BY <1>2, NewIsNew
<1>8. (others \cup mine) \cap given = {} BY <1>2 DEF AggInv, ExactWindows
<1>9. joins => mine = {Mine(b)} BY <1>1
<1> HIDE DEF given, mine, joins, ends, others
<1>10. others \cup (IF ends THEN {} ELSE {New(b)})
         \cup ((IF joins THEN {} ELSE mine) \cup (IF ends THEN {New(b)} ELSE {})) \cup given
       = ((others \cup mine \cup given) \ (IF joins THEN mine ELSE {})) \cup {New(b)}
  BY <1>2, <1>7, <1>8
<1>11. OpenAggregates' \cup Closed(b) \cup given = {Whole(c) : c \in Folded}'
  BY <1>2, <1>3, <1>5, <1>6, <1>9, <1>10
<1>12. OpenAggregates' \cap (Closed(b) \cup given) = {}
  BY <1>2, <1>3, <1>5, <1>7, <1>8
<1>13. Closed(b) \cap given = {} BY <1>5, <1>7, <1>8
<1> QED BY <1>11, <1>12, <1>13 DEF given

(* The open windows stay ahead of their bars, and what b completes ends    *)
(* no later than b and after all that was given of its symbol.             *)
LEMMA FoldOrders ==
    ASSUME AggInv, NEW b \in Bar, Arrives(b), Fold(b), dropped' = dropped
    PROVE  /\ Ahead'
           /\ Closed(b) \subseteq Aggregates
           /\ \A a \in Closed(b) : a.sym = b.sym /\ a.end <= b.minute
           /\ \A a \in Closed(b), c \in buffer \cup fed :
                 a.sym = c.sym => c.end < a.end
<1>1. /\ open[b.sym].end \in Nat /\ b.minute \in Nat /\ 0 < b.minute
      /\ Joined(b).end \in Nat /\ b.minute <= Joined(b).end
      /\ open[b.sym] \in [end : Window \cup {0}, minutes : SUBSET Minute]
  BY MineIsOpen, BarType, JoinedType DEF AggInv, Types
<1>2. /\ Folded' = Folded \cup {b} /\ Folded \subseteq Bar
      /\ \A c \in Folded : c.sym = b.sym => c.minute < b.minute
      /\ \A c \in Folded : c.minute \in Nat
  BY FoldedAfter, BarType DEF AggInv
<1>3. Ahead'
  <2> SUFFICES ASSUME NEW s \in Symbols, open'[s] # NoAggregate,
                      NEW c \in Folded', c.sym = s
               PROVE  c.minute < open'[s].end
    BY DEF Ahead, NoAggregate
  <2>1. CASE s # b.sym
    <3>1. open'[s] = open[s] /\ c \in Folded BY <1>2, <2>1, OpenAfter DEF AggInv
    <3> QED BY <3>1 DEF AggInv, Ahead
  <2>2. CASE s = b.sym
    <3>1. open'[s] = Joined(b) /\ b.minute < Joined(b).end
      BY <1>1, <2>2, OpenAfter DEF AggInv
    <3> QED BY <1>1, <1>2, <2>2, <3>1
  <2> QED BY <2>1, <2>2
<1>4. ASSUME NEW a \in Closed(b)
      PROVE  /\ a \in Aggregates /\ a.sym = b.sym /\ a.end <= b.minute
             /\ \A c \in buffer \cup fed : a.sym = c.sym => c.end < a.end
  <2>1. ASSUME NEW c \in buffer \cup fed, c.sym = b.sym
        PROVE  \E d \in Folded : /\ d.sym = b.sym /\ c.end \in Nat /\ c.end <= d.minute
                                 /\ d.minute < b.minute /\ d.minute \in Nat
    <3>1. PICK d \in Folded : d.sym = c.sym /\ c.end <= d.minute
      BY DEF AggInv, Behind
    <3>2. c.end \in Nat BY WindowsAreNumbers DEF AggInv, Types, Aggregates
    <3> QED BY <1>2, <2>1, <3>1, <3>2
  <2>2. CASE a = Mine(b) /\ 0 < open[b.sym].end /\ open[b.sym].end < b.minute
    <3>1. a.sym = b.sym /\ a.end = open[b.sym].end BY <2>2 DEF Mine, Named
    <3>2. open[b.sym].end \in Window BY <1>1, <2>2
    <3>3. a \in Aggregates BY <1>1, <2>2, <3>2, BarType DEF Mine, Named, Aggregates
    <3>4. open[b.sym] # NoAggregate BY <2>2, MineIsOpen
    <3>5. \A d \in Folded : d.sym = b.sym => d.minute < a.end
      BY <3>1, <3>4, BarType DEF AggInv, Ahead
    <3> QED BY <1>1, <2>1, <2>2, <3>1, <3>3, <3>5
  <2>3. CASE a = New(b) /\ Joined(b).end = b.minute
    <3>1. a.sym = b.sym /\ a.end = b.minute BY <2>3 DEF New, Named
    <3>2. a \in Aggregates BY <2>3, JoinedType, BarType DEF New, Named, Aggregates, AggInv
    <3> QED BY <1>1, <2>1, <3>1, <3>2
  <2> QED BY <2>2, <2>3, ClosedIs DEF AggInv
<1> QED BY <1>3, <1>4

(* Within one call the older window comes first. *)
Sorted(seq) ==
    \A i, j \in DOMAIN seq :
       i < j /\ seq[i].sym = seq[j].sym => seq[i].end < seq[j].end

LEMMA CompletedSorted ==
    ASSUME AggInv, NEW b \in Bar, Arrives(b), Fold(b), dropped' = dropped
    PROVE  Completed(b) \in Seq(Aggregates) /\ Sorted(Completed(b))
<1> DEFINE over == 0 < open[b.sym].end /\ open[b.sym].end < b.minute
           ends == Joined(b).end = b.minute
<1>1. Completed(b) = CASE over /\ ends   -> <<Mine(b), New(b)>>
                       [] over /\ ~ends  -> <<Mine(b)>>
                       [] ~over /\ ends  -> <<New(b)>>
                       [] ~over /\ ~ends -> <<>>
  BY CompletedIs DEF AggInv
<1>2. (over => Mine(b) \in Aggregates) /\ (ends => New(b) \in Aggregates)
  <2>1. over => Mine(b) \in Closed(b) BY ClosedIs DEF AggInv
  <2>2. ends => New(b) \in Closed(b) BY ClosedIs DEF AggInv
  <2> HIDE DEF over, ends
  <2> QED BY <2>1, <2>2, FoldOrders
<1>3. over /\ ends => Mine(b).end < New(b).end BY DEF Mine, New, Named
<1> HIDE DEF over, ends
<1>4. CASE over /\ ends
  <2>1. Completed(b) = <<Mine(b), New(b)>> BY <1>1, <1>4
  <2> QED BY <1>2, <1>3, <1>4, <2>1 DEF Sorted
<1>5. CASE over /\ ~ends
  <2>1. Completed(b) = <<Mine(b)>> BY <1>1, <1>5
  <2> QED BY <1>2, <1>5, <2>1 DEF Sorted
<1>6. CASE ~over /\ ends
  <2>1. Completed(b) = <<New(b)>> BY <1>1, <1>6
  <2> QED BY <1>2, <1>6, <2>1 DEF Sorted
<1>7. CASE ~over /\ ~ends
  <2>1. Completed(b) = <<>> BY <1>1, <1>7
  <2> QED BY <2>1, EmptySeq DEF Sorted
<1> QED BY <1>4, <1>5, <1>6, <1>7

(* What ends later may follow. *)
LEMMA SortedAppend ==
    ASSUME NEW s \in Seq(Aggregates), NEW t \in Seq(Aggregates), Sorted(s), Sorted(t),
           \A a \in {t[i] : i \in DOMAIN t}, c \in {s[i] : i \in DOMAIN s} :
              a.sym = c.sym => c.end < a.end
    PROVE  /\ s \o t \in Seq(Aggregates) /\ Sorted(s \o t)
           /\ {(s \o t)[i] : i \in DOMAIN (s \o t)}
                = {s[i] : i \in DOMAIN s} \cup {t[i] : i \in DOMAIN t}
<1>1. /\ s \o t \in Seq(Aggregates) /\ Len(s \o t) = Len(s) + Len(t)
      /\ Len(s) \in Nat /\ Len(t) \in Nat
      /\ DOMAIN s = 1..Len(s) /\ DOMAIN t = 1..Len(t)
      /\ DOMAIN (s \o t) = 1..(Len(s) + Len(t))
      /\ \A i \in 1..(Len(s) + Len(t)) :
            (s \o t)[i] = IF i <= Len(s) THEN s[i] ELSE t[i - Len(s)]
  BY ConcatProperties, LenProperties
<1> DEFINE u == s \o t
           k == Len(s)
           n == Len(t)
<1>2. k \in Nat /\ n \in Nat /\ DOMAIN s = 1..k /\ DOMAIN t = 1..n /\ DOMAIN u = 1..(k + n)
      /\ \A i \in 1..(k + n) : u[i] = IF i <= k THEN s[i] ELSE t[i - k]
  BY <1>1
<1> HIDE DEF u, k, n
<1>3. \A i \in 1..k : i \in 1..(k + n) /\ u[i] = s[i] BY <1>2
<1>4. \A i \in 1..n : k + i \in 1..(k + n) /\ u[k + i] = t[i] BY <1>2
<1>5. \A i \in 1..(k + n) : i \in 1..k \/ (i - k \in 1..n /\ u[i] = t[i - k])
  BY <1>2
<1>6. {u[i] : i \in DOMAIN u} = {s[i] : i \in DOMAIN s} \cup {t[i] : i \in DOMAIN t}
  <2>1. ASSUME NEW i \in DOMAIN u
        PROVE  u[i] \in {s[j] : j \in DOMAIN s} \cup {t[j] : j \in DOMAIN t}
    BY <1>2, <1>3, <1>5
  <2>2. ASSUME NEW i \in DOMAIN s PROVE s[i] \in {u[j] : j \in DOMAIN u} BY <1>2, <1>3
  <2>3. ASSUME NEW i \in DOMAIN t PROVE t[i] \in {u[j] : j \in DOMAIN u} BY <1>2, <1>4
  <2> QED BY <2>1, <2>2, <2>3
<1>7. Sorted(u)
  <2> SUFFICES ASSUME NEW i \in 1..(k + n), NEW j \in 1..(k + n), i < j,
                      u[i].sym = u[j].sym
               PROVE  u[i].end < u[j].end
    BY <1>2 DEF Sorted
  <2>1. CASE j \in 1..k
    <3>1. i \in 1..k BY <1>2, <2>1
    <3>2. u[i] = s[i] /\ u[j] = s[j] BY <1>3, <2>1, <3>1
    <3> QED BY <1>2, <2>1, <3>1, <3>2 DEF Sorted
  <2>2. CASE i \in 1..k /\ j \notin 1..k
    <3>1. u[i] = s[i] /\ j - k \in 1..n /\ u[j] = t[j - k] BY <1>3, <1>5, <2>2
    <3> QED BY <1>2, <2>2, <3>1
  <2>3. CASE i \notin 1..k
    <3>1. j \notin 1..k BY <1>2, <2>3
    <3>2. i - k \in 1..n /\ u[i] = t[i - k] /\ j - k \in 1..n /\ u[j] = t[j - k]
      BY <1>5, <2>3, <3>1
    <3>3. i - k < j - k BY <1>2
    <3> QED BY <1>2, <3>2, <3>3 DEF Sorted
  <2> QED BY <2>1, <2>2, <2>3
<1> QED BY <1>1, <1>6, <1>7 DEF u

(* So does a step that gives what b completes to a batch or the pipeline,  *)
(* whatever it moves from the batches to the pipeline besides.             *)
LEMMA FoldStep ==
    ASSUME AggInv, NEW b \in Bar, Arrives(b), Fold(b), dropped' = dropped,
           buffer' \cup fed' = buffer \cup fed \cup Closed(b), buffer' \cap fed' = {}
    PROVE  ExactWindows' /\ Ahead' /\ Behind'
<1>1. ExactWindows' BY FoldKeeps DEF ExactWindows
<1>2. Ahead' BY FoldOrders
<1>3. Behind'
  <2>1. Folded' = Folded \cup {b} BY FoldedAfter DEF AggInv
  <2> SUFFICES ASSUME NEW a \in buffer \cup fed \cup Closed(b)
               PROVE  \E c \in Folded \cup {b} : c.sym = a.sym /\ a.end <= c.minute
    BY <2>1 DEF Behind
  <2>2. CASE a \in buffer \cup fed BY <2>2 DEF AggInv, Behind
  <2>3. CASE a \in Closed(b) BY <2>3, FoldOrders
  <2> QED BY <2>2, <2>3
<1> QED BY <1>1, <1>2, <1>3

-----------------------------------------------------------------------------
(* Handing over batches *)

LEMMA HandedOverIs ==
    ASSUME NEW due, NEW stop, NEW buf
    PROVE  /\ HandedOver(due, stop, buf) \subseteq buf
           /\ \A a \in buf : a \in HandedOver(due, stop, buf)
                                <=> a.end \in due /\ (stop = 0 \/ a.end <= stop)
BY DEF HandedOver, Batch

(* A batch that is gone afterwards but whose time is kept was gone before, *)
(* or the pipeline raised on it.                                           *)
LEMMA LostByRaise ==
    ASSUME NEW due \in SUBSET Window, NEW stop \in due \cup {0}, NEW buf,
           NEW w \in Window, w \notin Done(due, stop), Batch(w, buf) # {},
           Batch(w, buf \ HandedOver(due, stop, buf)) = {}
    PROVE  w \in RaisedOn(stop, buf)
<1>1. PICK a \in buf : a.end = w BY DEF Batch
<1>2. a \in HandedOver(due, stop, buf) BY <1>1 DEF Batch
<1>3. w \in due /\ (stop = 0 \/ w <= stop) BY <1>1, <1>2, HandedOverIs
<1>4. w \in Nat /\ stop \in Nat
  <2>1. \A v \in Window \cup {0} : v \in Nat BY WindowsAreNumbers
  <2> QED BY <2>1
<1>5. stop # 0 /\ w = stop BY <1>3, <1>4 DEF Done
<1> QED BY <1>5 DEF RaisedOn

-----------------------------------------------------------------------------
(* The steps *)

LEMMA PassThroughInv ==
    ASSUME AggInv, TypeOK, OnTickEnds, NEW b \in Bar, Arrives(b), PassThrough(b),
           UNCHANGED <<batching, expected>>
    PROVE  AggInv'
<1>1. /\ Fold(b) /\ dropped' = dropped /\ fed' = fed \cup Closed(b)
      /\ ~batching /\ passed' = passed \o Completed(b)
      /\ buffer' = buffer /\ since' = since /\ expired' = expired /\ raised' = raised
  BY DEF PassThrough
<1>2. Closed(b) \cap buffer = {} /\ buffer \cap fed = {}
  BY <1>1, FoldKeeps DEF AggInv, ExactWindows
<1>3. ExactWindows' /\ Ahead' /\ Behind' BY <1>1, <1>2, FoldStep
<1>6. passed' \in Seq(Aggregates) /\ InWindowOrder'
  <2>1. passed \in Seq(Aggregates) /\ Sorted(passed)
        /\ fed = {passed[i] : i \in DOMAIN passed}
    BY <1>1 DEF AggInv, Types, InWindowOrder, Sorted
  <2>2. Completed(b) \in Seq(Aggregates) /\ Sorted(Completed(b))
    BY <1>1, CompletedSorted
  <2>3. \A a \in Closed(b), c \in fed : a.sym = c.sym => c.end < a.end
    BY <1>1, FoldOrders
  <2>4. /\ passed \o Completed(b) \in Seq(Aggregates) /\ Sorted(passed \o Completed(b))
        /\ {(passed \o Completed(b))[i] : i \in DOMAIN (passed \o Completed(b))}
              = fed \cup Closed(b)
    <3>1. Closed(b) = {Completed(b)[i] : i \in DOMAIN Completed(b)} BY DEF Closed
    <3> QED BY <2>1, <2>2, <2>3, <3>1, SortedAppend
  <2> QED BY <1>1, <2>4 DEF InWindowOrder, Sorted
<1>4. Types'
  <2>1. fed' \subseteq Aggregates BY <1>1, FoldOrders DEF AggInv, Types
  <2>2. expired' \in 0..Len(handled') BY <1>1, HandledGrows DEF AggInv, Types
  <2>3. outcome' \in {"ok", "raised", "refused"} BY DEF PassThrough
  <2>4. open' \in [Symbols -> [end : Window \cup {0}, minutes : SUBSET Minute]]
    BY <1>1, OpenAfter DEF AggInv
  <2>5. arrived' \subseteq Bar /\ dropped' \subseteq arrived'
    BY <1>1 DEF AggInv, Types, Arrives
  <2> QED BY <1>1, <1>6, <2>1, <2>2, <2>3, <2>4, <2>5 DEF AggInv, Types, Aggregates
<1>5. MissingOnlyIfRaised' BY <1>1 DEF AggInv, MissingOnlyIfRaised, Batch
<1> QED BY <1>3, <1>4, <1>5, <1>6 DEF AggInv

LEMMA FlushFailsInv ==
    ASSUME AggInv, TypeOK, OnTickEnds, NEW b \in Bar, Arrives(b), FlushFails(b),
           UNCHANGED <<batching, expected>>
    PROVE  AggInv'
<1>1. PICK t \in expired..Len(handled) : \E stop \in TimedOut(t) :
         /\ expired' = t
         /\ buffer' = buffer \ HandedOver(TimedOut(t), stop, buffer)
         /\ fed' = fed \cup HandedOver(TimedOut(t), stop, buffer)
         /\ since' = [w \in Window |->
                         IF w \in Done(TimedOut(t), stop) THEN 0 ELSE since[w]]
         /\ raised' = raised \cup RaisedOn(stop, buffer)
         /\ outcome' = IF Batch(stop, buffer) = {} THEN "refused" ELSE "raised"
  BY DEF FlushFails
<1>2. PICK stop \in TimedOut(t) :
         /\ buffer' = buffer \ HandedOver(TimedOut(t), stop, buffer)
         /\ fed' = fed \cup HandedOver(TimedOut(t), stop, buffer)
         /\ since' = [w \in Window |->
                         IF w \in Done(TimedOut(t), stop) THEN 0 ELSE since[w]]
         /\ raised' = raised \cup RaisedOn(stop, buffer)
         /\ outcome' = IF Batch(stop, buffer) = {} THEN "refused" ELSE "raised"
  BY <1>1
<1> DEFINE due == TimedOut(t)
           out == HandedOver(due, stop, buffer)
<1>3. due \subseteq Window /\ stop \in Window BY DEF TimedOut
<1>4. out \subseteq buffer BY HandedOverIs
<1>5. open' = open /\ dropped' = dropped \cup {b} /\ arrived' = arrived \cup {b}
      /\ passed' = passed /\ batching /\ batching' = batching
  BY DEF FlushFails, Arrives
<1>6. Folded' = Folded BY <1>5, Latest DEF Folded, AggInv, Types
<1>7. buffer' \cup fed' = buffer \cup fed /\ buffer' \cap fed' = {}
  BY <1>2, <1>4 DEF AggInv, ExactWindows
<1>8. ExactWindows' /\ Ahead' /\ Behind'
  <2>1. OpenAggregates' = OpenAggregates BY <1>5 DEF OpenAggregates, Named
  <2>2. {Whole(c) : c \in Folded}' = {Whole(c) : c \in Folded} BY <1>6 DEF Whole
  <2>3. OpenAggregates \cup buffer \cup fed = {Whole(c) : c \in Folded}
        /\ OpenAggregates \cap (buffer \cup fed) = {}
    BY DEF AggInv, ExactWindows
  <2>4. ExactWindows' BY <1>7, <2>1, <2>2, <2>3 DEF ExactWindows
  <2>5. Ahead' BY <1>5, <1>6 DEF AggInv, Ahead, NoAggregate
  <2>6. Behind' BY <1>6, <1>7 DEF AggInv, Behind
  <2> QED BY <2>4, <2>5, <2>6
<1>9. Types'
  <2>1. buffer' \subseteq Aggregates /\ fed' \subseteq Aggregates
    BY <1>2, <1>4 DEF AggInv, Types
  <2>2. expired' \in 0..Len(handled') BY <1>1, HandledGrows DEF AggInv, Types
  <2>3. since' \in [Window -> Nat] BY <1>2 DEF AggInv, Types
  <2>4. raised' \subseteq Window BY <1>2, <1>3 DEF AggInv, Types, RaisedOn
  <2>5. outcome' \in {"ok", "raised", "refused"} BY <1>2
  <2> QED BY <1>5, <2>1, <2>2, <2>3, <2>4, <2>5 DEF AggInv, Types, Aggregates
<1>10. MissingOnlyIfRaised'
  <2> SUFFICES ASSUME NEW w \in Window, since'[w] # 0, Batch(w, buffer') = {}
               PROVE  w \in raised'
    BY DEF MissingOnlyIfRaised, Batch
  <2>1. since[w] # 0 /\ w \notin Done(due, stop) BY <1>2
  <2>2. CASE Batch(w, buffer) = {}
    BY <1>2, <2>1, <2>2 DEF AggInv, MissingOnlyIfRaised
  <2>3. CASE Batch(w, buffer) # {}
    BY <1>2, <1>3, <2>1, <2>3, LostByRaise
  <2> QED BY <2>2, <2>3
<1>11. InWindowOrder' BY <1>5 DEF InWindowOrder
<1> QED BY <1>8, <1>9, <1>10, <1>11 DEF AggInv

LEMMA CollectInv ==
    ASSUME AggInv, TypeOK, OnTickEnds, NEW b \in Bar, Arrives(b), CollectAndFlush(b),
           UNCHANGED <<batching, expected>>
    PROVE  AggInv'
<1>1. PICK t \in expired..Len(handled) :
         LET due  == TimedOut(t)
             rest == buffer \ HandedOver(due, 0, buffer)
             kept == rest \cup Closed(b)
             full == Complete(b, kept)
             seen == [w \in Window |->
                        IF Batch(w, rest) = {} /\ Batch(w, kept) # {}
                        THEN Len(handled) + 1
                        ELSE IF w \in Done(due, 0) THEN 0 ELSE since[w]]
         IN /\ expired' = t
            /\ \E stop \in full \cup {0} :
                 /\ buffer' = kept \ HandedOver(full, stop, kept)
                 /\ fed' = fed \cup HandedOver(due, 0, buffer)
                               \cup HandedOver(full, stop, kept)
                 /\ since' = [w \in Window |->
                                 IF w \in Done(full, stop) THEN 0 ELSE seen[w]]
                 /\ raised' = raised \cup RaisedOn(stop, kept)
                 /\ outcome' = IF stop = 0 THEN "ok" ELSE "raised"
  BY DEF CollectAndFlush
<1> DEFINE due  == TimedOut(t)
           rest == buffer \ HandedOver(due, 0, buffer)
           kept == rest \cup Closed(b)
           full == Complete(b, kept)
           seen == [w \in Window |->
                        IF Batch(w, rest) = {} /\ Batch(w, kept) # {}
                        THEN Len(handled) + 1
                        ELSE IF w \in Done(due, 0) THEN 0 ELSE since[w]]
<1>2. PICK stop \in full \cup {0} :
         /\ buffer' = kept \ HandedOver(full, stop, kept)
         /\ fed' = fed \cup HandedOver(due, 0, buffer) \cup HandedOver(full, stop, kept)
         /\ since' = [w \in Window |-> IF w \in Done(full, stop) THEN 0 ELSE seen[w]]
         /\ raised' = raised \cup RaisedOn(stop, kept)
         /\ outcome' = IF stop = 0 THEN "ok" ELSE "raised"
  BY <1>1
<1>3. full \in SUBSET Window BY DEF Complete
<1>4. HandedOver(due, 0, buffer) \subseteq buffer
      /\ HandedOver(full, stop, kept) \subseteq kept
  BY HandedOverIs
<1>5. Fold(b) /\ dropped' = dropped /\ arrived' = arrived \cup {b}
      /\ passed' = passed /\ batching /\ batching' = batching
  BY DEF CollectAndFlush, Arrives
<1>6. Closed(b) \cap (buffer \cup fed) = {} /\ buffer \cap fed = {}
  BY <1>5, FoldKeeps DEF AggInv, ExactWindows
<1>7. buffer' \cup fed' = buffer \cup fed \cup Closed(b) /\ buffer' \cap fed' = {}
  <2> HIDE DEF due, full
  <2> QED BY <1>2, <1>4, <1>6
<1>8. ExactWindows' /\ Ahead' /\ Behind' BY <1>5, <1>7, FoldStep
<1>9. Types'
  <2>1. buffer' \subseteq Aggregates /\ fed' \subseteq Aggregates
    BY <1>5, <1>7, FoldOrders DEF AggInv, Types
  <2>2. expired' \in 0..Len(handled') BY <1>1, HandledGrows DEF AggInv, Types
  <2>3. since' \in [Window -> Nat]
    <3>1. Len(handled) + 1 \in Nat BY HandledGrows
    <3>2. \A w \in Window : seen[w] \in Nat BY <3>1 DEF AggInv, Types
    <3> HIDE DEF seen, full, due
    <3> QED BY <1>2, <3>2
  <2>4. raised' \subseteq Window BY <1>2, <1>3 DEF AggInv, Types, RaisedOn
  <2>5. outcome' \in {"ok", "raised", "refused"} BY <1>2
  <2>6. open' \in [Symbols -> [end : Window \cup {0}, minutes : SUBSET Minute]]
    BY <1>5, OpenAfter DEF AggInv
  <2> QED BY <1>5, <2>1, <2>2, <2>3, <2>4, <2>5, <2>6 DEF AggInv, Types, Aggregates
<1>10. MissingOnlyIfRaised'
  <2> SUFFICES ASSUME NEW w \in Window, since'[w] # 0, Batch(w, buffer') = {}
               PROVE  w \in raised'
    BY DEF MissingOnlyIfRaised, Batch
  <2>1. seen[w] # 0 /\ w \notin Done(full, stop) BY <1>2
  <2>2. CASE Batch(w, kept) # {}
    BY <1>2, <1>3, <2>1, <2>2, LostByRaise
  <2>3. CASE Batch(w, kept) = {}
    <3>1. since[w] # 0 /\ w \notin Done(due, 0) BY <2>1, <2>3
    <3>2. w \notin due BY <3>1 DEF Done
    <3>3. Batch(w, buffer) = {}
      <4> SUFFICES ASSUME NEW a \in buffer, a.end = w PROVE FALSE BY DEF Batch
      <4>1. a \notin HandedOver(due, 0, buffer) BY <3>2, HandedOverIs
      <4> QED BY <2>3, <4>1 DEF Batch
    <3> QED BY <1>2, <3>1, <3>3 DEF AggInv, MissingOnlyIfRaised
  <2> QED BY <2>2, <2>3
<1>11. InWindowOrder' BY <1>5 DEF InWindowOrder
<1> QED BY <1>8, <1>9, <1>10, <1>11 DEF AggInv

-----------------------------------------------------------------------------
(* The invariant *)

LEMMA AggregatingInitInv == AggregatingInit => AggInv
<1> SUFFICES ASSUME AggregatingInit PROVE AggInv OBVIOUS
<1>1. open = [s \in Symbols |-> NoAggregate] /\ buffer = {} /\ fed = {} /\ passed = <<>>
      /\ arrived = {} /\ dropped = {} /\ since = [w \in Window |-> 0]
  BY DEF AggregatingInit
<1>2. Types
  <2>1. handled = <<>> BY DEF AggregatingInit, Init
  <2>2. 0 \in 0..Len(handled) BY <2>1, EmptySeq
  <2> QED BY <1>1, <2>2, EmptySeq DEF AggregatingInit, Types, NoAggregate
<1>3. Folded = {} /\ OpenAggregates = {} BY <1>1 DEF Folded, OpenAggregates
<1> QED BY <1>1, <1>2, <1>3
     DEF AggInv, ExactWindows, Ahead, Behind, MissingOnlyIfRaised, InWindowOrder

LEMMA AggregatingStepInv ==
    AggInv /\ TypeOK /\ [AggregatingNext]_<<vars, aggVars>> => AggInv'
<1> SUFFICES ASSUME AggInv, TypeOK, [AggregatingNext]_<<vars, aggVars>> PROVE AggInv'
  OBVIOUS
<1>1. CASE OnTickEnds /\ Aggregate
  BY <1>1, PassThroughInv, FlushFailsInv, CollectInv DEF Aggregate
<1>2. CASE UNCHANGED aggVars /\ handled' = handled
  <2> USE <1>2 DEF aggVars, AggInv
  <2>1. Types' BY DEF Types, NoAggregate, Aggregates
  <2>2. ExactWindows' BY DEF ExactWindows, OpenAggregates, Folded, Whole, Named,
                             NoAggregate
  <2>3. Ahead' /\ Behind' BY DEF Ahead, Behind, Folded, NoAggregate
  <2>4. MissingOnlyIfRaised' /\ InWindowOrder' BY DEF MissingOnlyIfRaised, Batch, InWindowOrder
  <2> QED BY <2>1, <2>2, <2>3, <2>4
<1>3. CASE Elsewhere /\ UNCHANGED aggVars BY <1>2, <1>3, HandledStays
<1>4. CASE UNCHANGED <<vars, aggVars>> BY <1>2, <1>4 DEF vars
<1> QED BY <1>1, <1>3, <1>4 DEF AggregatingNext

(* Whatever the stream, the timeouts and the pipeline do, the types hold   *)
(* and the bars are accounted for.                                         *)
THEOREM AggregatingInvariant == AggregatingSpec => [](AggInv /\ TypeOK)
<1>1. AggregatingSpec => []TypeOK BY Implements, TypeCorrect, PTL
<1> QED BY <1>1, AggregatingInitInv, AggregatingStepInv, PTL DEF AggregatingSpec

(* The engine's and the aggregator's variables keep their types. *)
THEOREM AggregatingTypes == AggregatingSpec => []AggTypeOK
<1>1. AggInv /\ TypeOK => AggTypeOK BY DEF AggInv, Types, AggTypeOK
<1> QED BY <1>1, AggregatingInvariant, PTL

(* No window of a symbol is split, given to the pipeline twice or lost.    *)
THEOREM WindowsExact == AggregatingSpec => []ExactWindows
<1>1. AggInv => ExactWindows BY DEF AggInv
<1> QED BY <1>1, AggregatingInvariant, PTL

(* A batch whose time outlives it is one the pipeline raised on. *)
THEOREM MissingAreRaised == AggregatingSpec => []MissingOnlyIfRaised
<1>1. AggInv => MissingOnlyIfRaised BY DEF AggInv
<1> QED BY <1>1, AggregatingInvariant, PTL

(* Without batching a symbol's windows reach the pipeline in order, from   *)
(* call to call and within the list of a call.                             *)
THEOREM WindowsInOrder == AggregatingSpec => []InWindowOrder
<1>1. AggInv => InWindowOrder BY DEF AggInv
<1> QED BY <1>1, AggregatingInvariant, PTL
=============================================================================
