-------------------------- MODULE AggregatingEngine --------------------------
(***************************************************************************)
(* The live engine with aggregation enabled: on_tick hands every bar to a  *)
(* TickAggregationPassthroughEngine, which folds the bars of a symbol into *)
(* one aggregate per window and gives finished aggregates to the pipeline. *)
(* Without batching it does so at once.  With batching it collects the     *)
(* aggregates of a window until every expected symbol is there or a        *)
(* timeout, looked at only when a bar arrives, has expired.                *)
(*                                                                         *)
(* One thread at a time runs on_tick, so that its whole effect is part of  *)
(* the step that ends it.  A bar is its symbol and minute: what a bar says *)
(* is abstracted, and an aggregate is the set of minutes folded into it.   *)
(***************************************************************************)
EXTENDS AsyncEngine

CONSTANTS Symbols,
          Period, \* aggregation_period_minutes
          Gap     \* minutes without any bar; bounds the run

ASSUME AggregationAssumption == Period \in Nat \ {0} /\ Gap \in Nat

VARIABLES
    batching, \* batch_symbols; never changes
    expected, \* expected_symbols; never changes
    open,     \* _agg_by_symbol and _window_end_by_symbol
    buffer,   \* _batch_buffer: the aggregates of all batches
    since,    \* _batch_first_seen: number of the tick, 0 without an entry
    expired,  \* ticks up to this one are batch_timeout_seconds old
    fed,      \* aggregates the pipeline was called with
    passed,   \* without batching: the same, in the order of its calls' lists
    arrived,  \* bars on_tick was called with
    dropped,  \* those of them whose on_tick failed before it folded them
    raised,   \* windows whose batch the pipeline failed on
    outcome   \* of the last on_tick

aggVars == <<batching, expected, open, buffer, since, expired, fed, passed,
             arrived, dropped, raised, outcome>>

-----------------------------------------------------------------------------
(* Windows end at the multiples of the period, counted from the anchor; a  *)
(* bar that falls on one belongs to the window that ends there.            *)
WindowEnd(minute) == Period * ((minute + Period - 1) \div Period)

Minute == 1..(MaxTicks + Gap)
Window == {WindowEnd(minute) : minute \in Minute}
Bar == [sym : Symbols, minute : Minute]
NoAggregate == [end |-> 0, minutes |-> {}]

AggregatingInit ==
    /\ Init
    /\ batching \in BOOLEAN /\ expected \in {{}, Symbols}
    /\ open = [s \in Symbols |-> NoAggregate]
    /\ buffer = {} /\ since = [w \in Window |-> 0] /\ expired = 0
    /\ fed = {} /\ passed = <<>> /\ arrived = {} /\ dropped = {} /\ raised = {}
    /\ outcome = "ok"

(* Bars come minute by minute, and once for a symbol and minute. *)
Arrives(b) ==
    /\ b.minute <= Len(handled) + 1 + Gap
    /\ \A c \in arrived : \/ c.minute < b.minute
                          \/ c.minute = b.minute /\ c.sym # b.sym
    /\ arrived' = arrived \cup {b}

-----------------------------------------------------------------------------
(* The bars of a symbol *)

BugRollingWindow(b) ==
    IF b.minute <= open[b.sym].end
    THEN [open[b.sym] EXCEPT !.minutes = @ \cup {b.minute}]
    ELSE [end |-> b.minute + Period, minutes |-> {b.minute}]

(* The aggregate that b is folded into: the open one, or a new one when    *)
(* there is none or its window is over.                                    *)
Joined(b) ==
    IF b.minute <= open[b.sym].end
    THEN [open[b.sym] EXCEPT !.minutes = @ \cup {b.minute}]
    ELSE [end |-> WindowEnd(b.minute), minutes |-> {b.minute}]

Named(s, o) == [sym |-> s, end |-> o.end, minutes |-> o.minutes]

(* What b completes: the aggregate it found open when that window is over, *)
Past(b) ==
    IF 0 < open[b.sym].end /\ open[b.sym].end < b.minute
    THEN <<Named(b.sym, open[b.sym])>> ELSE <<>>

(* and its own when it falls on the boundary. *)
Own(b) == IF Joined(b).end = b.minute THEN <<Named(b.sym, Joined(b))>> ELSE <<>>

BugOwnFirst(b) == Own(b) \o Past(b)

Completed(b) == Past(b) \o Own(b)

Closed(b) == {Completed(b)[i] : i \in DOMAIN Completed(b)}

BugKeepOpen(b) == open' = [open EXCEPT ![b.sym] = Joined(b)]

Fold(b) ==
    open' = [open EXCEPT ![b.sym] =
                IF Joined(b).end = b.minute THEN NoAggregate ELSE Joined(b)]

-----------------------------------------------------------------------------
(* The batches.  Those that are due are handed over in the order of their  *)
(* windows, until one is missing or the pipeline raises on it: stop, or 0  *)
(* when all goes well.  The time of that one is not forgotten.             *)

Batch(w, buf) == {a \in buf : a.end = w}

BugKeepTimes(due, stop) == {}

Done(due, stop) == {w \in due : stop = 0 \/ w < stop}

HandedOver(due, stop, buf) ==
    UNION {Batch(w, buf) : w \in {w \in due : stop = 0 \/ w <= stop}}

MayStop(due, stop, buf) == \A w \in Done(due, stop) : Batch(w, buf) # {}

RaisedOn(stop, buf) == IF stop # 0 /\ Batch(stop, buf) # {} THEN {stop} ELSE {}

(* Those first seen up to tick t have timed out. *)
TimedOut(t) == {w \in Window : since[w] # 0 /\ since[w] <= t}

(* The symbols a batch waits for. *)
Awaited(b) ==
    IF expected # {} THEN expected
    ELSE {b.sym} \cup {c.sym : c \in arrived \ dropped}

Complete(b, buf) ==
    {w \in Window : /\ Batch(w, buf) # {}
                    /\ Awaited(b) \subseteq {a.sym : a \in Batch(w, buf)}}

-----------------------------------------------------------------------------
(* on_tick without batching: the pipeline gets what b completes. *)
PassThrough(b) ==
    /\ ~batching
    /\ Fold(b)
    /\ fed' = fed \cup Closed(b) /\ passed' = passed \o Completed(b)
    /\ outcome' \in IF Closed(b) = {} THEN {"ok"} ELSE {"ok", "raised"}
    /\ UNCHANGED <<buffer, since, expired, dropped, raised>>

(* on_tick with batching: _flush_timed_out_batches fails, on an exception  *)
(* of the pipeline or because a batch it has a time for is gone.           *)
FlushFails(b) ==
    /\ batching
    /\ \E t \in expired..Len(handled) : \E stop \in TimedOut(t) :
         /\ MayStop(TimedOut(t), stop, buffer)
         /\ expired' = t
         /\ buffer' = buffer \ HandedOver(TimedOut(t), stop, buffer)
         /\ fed' = fed \cup HandedOver(TimedOut(t), stop, buffer)
         /\ since' = [w \in Window |->
                         IF w \in Done(TimedOut(t), stop) THEN 0 ELSE since[w]]
         /\ raised' = raised \cup RaisedOn(stop, buffer)
         /\ outcome' = IF Batch(stop, buffer) = {} THEN "refused" ELSE "raised"
    /\ dropped' = dropped \cup {b}
    /\ UNCHANGED <<open, passed>>

(* The timed-out batches go, b is folded and what it completes joins the   *)
(* batch of its window, then the complete batches go.                      *)
CollectAndFlush(b) ==
    /\ batching
    /\ \E t \in expired..Len(handled) :
         LET due  == TimedOut(t)
             rest == buffer \ HandedOver(due, 0, buffer)
             kept == rest \cup Closed(b)
             full == Complete(b, kept)
             seen == [w \in Window |->
                        IF Batch(w, rest) = {} /\ Batch(w, kept) # {}
                        THEN Len(handled) + 1
                        ELSE IF w \in Done(due, 0) THEN 0 ELSE since[w]]
         IN /\ MayStop(due, 0, buffer)
            /\ expired' = t
            /\ \E stop \in full \cup {0} :
                 /\ buffer' = kept \ HandedOver(full, stop, kept)
                 /\ fed' = fed \cup HandedOver(due, 0, buffer)
                               \cup HandedOver(full, stop, kept)
                 /\ since' = [w \in Window |->
                                 IF w \in Done(full, stop) THEN 0 ELSE seen[w]]
                 /\ raised' = raised \cup RaisedOn(stop, kept)
                 /\ outcome' = IF stop = 0 THEN "ok" ELSE "raised"
    /\ Fold(b)
    /\ UNCHANGED <<dropped, passed>>

Aggregate ==
    /\ \E b \in Bar : /\ Arrives(b)
                      /\ PassThrough(b) \/ FlushFails(b) \/ CollectAndFlush(b)
    /\ UNCHANGED <<batching, expected>>

-----------------------------------------------------------------------------
(* What the engine does besides running on_tick. *)
Elsewhere ==
    \/ Start \/ StreamConnects \/ StreamFails \/ StreamEnds \/ SubmitTick
    \/ WorkerTakes \/ PromptEnds \/ WorkerQuits \/ DebugQuit \/ StartReturns
    \/ StartRaises \/ Stop \/ JoinReturns \/ StopReturns

AggregatingNext ==
    \/ OnTickEnds /\ Aggregate
    \/ Elsewhere /\ UNCHANGED aggVars

AggregatingSpec ==
    AggregatingInit /\ [][AggregatingNext]_<<vars, aggVars>> /\ Fairness

-----------------------------------------------------------------------------
(* Properties, beside those of the engine *)

Aggregates == [sym : Symbols, end : Window, minutes : SUBSET Minute]

OpenAggregates ==
    {Named(s, open[s]) : s \in {s \in Symbols : open[s] # NoAggregate}}

(* The variables of the engine and of the aggregator have their types. *)
AggTypeOK ==
    /\ TypeOK
    /\ batching \in BOOLEAN /\ expected \subseteq Symbols
    /\ open \in [Symbols -> [end : Window \cup {0}, minutes : SUBSET Minute]]
    /\ buffer \subseteq Aggregates /\ fed \subseteq Aggregates
    /\ passed \in Seq(Aggregates)
    /\ since \in [Window -> Nat] /\ expired \in 0..Len(handled)
    /\ arrived \subseteq Bar /\ dropped \subseteq arrived
    /\ raised \subseteq Window
    /\ outcome \in {"ok", "raised", "refused"}

Folded == arrived \ dropped

(* All bars of b's symbol and window. *)
Whole(b) ==
    [sym |-> b.sym, end |-> WindowEnd(b.minute),
     minutes |-> {c.minute : c \in {c \in Folded :
                    c.sym = b.sym /\ WindowEnd(c.minute) = WindowEnd(b.minute)}}]

(* Whatever timed out, raised or was refused: the bars of a symbol and     *)
(* window that were folded are together in one aggregate, which is either  *)
(* open, or waits in a batch, or was given to the pipeline - so that no    *)
(* window is split, given twice or forgotten.                              *)
ExactWindows ==
    /\ OpenAggregates \cup buffer \cup fed = {Whole(b) : b \in Folded}
    /\ OpenAggregates \cap buffer = {}
    /\ (OpenAggregates \cup buffer) \cap fed = {}

(* The aggregator keeps the time of a batch it no longer has - and refuses *)
(* every bar once that time is up - only after the pipeline raised on that *)
(* very batch.                                                             *)
MissingOnlyIfRaised ==
    \A w \in Window : since[w] # 0 /\ Batch(w, buffer) = {} => w \in raised

(* Without batching everything the pipeline gets stands in the order of    *)
(* its symbol's windows, from call to call and, when a bar completes two   *)
(* of them, within the one list it hands over.                             *)
InWindowOrder ==
    ~batching =>
        /\ fed = {passed[i] : i \in DOMAIN passed}
        /\ \A i, j \in DOMAIN passed :
              i < j /\ passed[i].sym = passed[j].sym => passed[i].end < passed[j].end

(* "Exceptions in on_tick() are logged but don't crash the worker,         *)
(* allowing the engine to continue processing subsequent ticks"            *)
(* (base_engine.py:402-403): no tick fails of itself.                      *)
KeepsProcessing == outcome # "refused"
=============================================================================
