-------------------------- MODULE AsyncEngineProofs --------------------------
(***************************************************************************)
(* The asynchronous engine for a stream of any length: one inductive       *)
(* invariant that says who may still be touching a tick, and from it the   *)
(* order of the ticks, the count join() waits for, and the promise of      *)
(* stop().                                                                 *)
(***************************************************************************)
EXTENDS AsyncEngine, SequenceTheorems, TLAPS

Tick == 1..MaxTicks

(* A thread that runs on_tick has a worker that awaits it, or its worker   *)
(* was canceled; and it takes a stop, or the end of the event loop, to     *)
(* cancel a worker.                                                        *)
Ended == main \in {"returned", "raised"}

Custody ==
    /\ worker = "none" <=> main = "new"
    /\ worker = "running" => thread # <<>>
    /\ thread # <<>> => worker \in {"running", "gone"}
    /\ worker = "gone" => stopping = "done" \/ torn \/ (owner = "run" /\ Ended)
    /\ torn => worker = "gone"
    /\ stopping # "no" => main # "new"
    /\ (owner = "run" /\ stopping # "no") => Ended /\ thread = <<>>
    /\ (owner = "run" /\ Ended) => worker = "gone"

Drained ==
    /\ atStop <= sent
    /\ stopping \in {"drained", "done"} =>
          \/ Len(handled) >= atStop
          \/ torn /\ Len(handled) + Len(thread) >= atStop

IInv == TypeOK /\ CountIsExact /\ InOrder /\ Custody /\ Drained

-----------------------------------------------------------------------------
(* Adding a tick to the end of the queue adds it to the end of the whole:  *)
(* what submit_tick does to the order of the ticks.                        *)
LEMMA ArrivesLast ==
    ASSUME NEW S, NEW h \in Seq(S), NEW t \in Seq(S), NEW q \in Seq(S), NEW x \in S
    PROVE  h \o t \o Append(q, x) = (h \o t \o q) \o <<x>>
<1>1. h \o t \in Seq(S) /\ <<x>> \in Seq(S) BY ConcatProperties
<1>2. Append(q, x) = q \o <<x>> BY AppendIsConcat
<1> QED BY <1>1, <1>2, ConcatAssociative

(* The first n + 1 ticks are the first n and one more. *)
LEMMA OneMore ==
    ASSUME NEW n \in Nat
    PROVE  [k \in 1..n |-> k] \o <<n + 1>> = [k \in 1..(n + 1) |-> k]
<1> DEFINE all == [k \in 1..n |-> k]
           more == [k \in 1..(n + 1) |-> k]
<1>1. all \in Seq(Nat) /\ Len(all) = n
  <2>1. all \in [1..n -> Nat] OBVIOUS
  <2> QED BY <2>1
<1>2. more \in Seq(Nat) /\ Len(more) = n + 1
  <2>1. more \in [1..(n + 1) -> Nat] OBVIOUS
  <2> QED BY <2>1
<1>3. /\ all \o <<n + 1>> \in Seq(Nat)
      /\ Len(all \o <<n + 1>>) = n + 1
      /\ \A i \in 1..(n + 1) : (all \o <<n + 1>>)[i] = more[i]
  <2>1. Len(<<n + 1>>) = 1 /\ <<n + 1>>[1] = n + 1 OBVIOUS
  <2> QED BY <1>1, <2>1, ConcatProperties
<1> HIDE DEF all, more
<1>4. all \o <<n + 1>> = more BY <1>2, <1>3, SeqEqual
<1> QED BY <1>4 DEF all, more

(* Taking the head of the queue into an idle thread leaves the whole as it *)
(* was.                                                                    *)
LEMMA TakenFirst ==
    ASSUME NEW S, NEW h \in Seq(S), NEW q \in Seq(S), q # <<>>
    PROVE  h \o <<Head(q)>> \o Tail(q) = h \o <<>> \o q
<1>1. Head(q) \in S /\ Tail(q) \in Seq(S) /\ <<Head(q)>> \in Seq(S)
  BY HeadTailProperties
<1>2. q = <<Head(q)>> \o Tail(q)
  <2>1. Len(q) \in Nat /\ Len(Tail(q)) = Len(q) - 1
    BY HeadTailProperties, LenProperties
  <2>2. Len(<<Head(q)>>) = 1 /\ <<Head(q)>>[1] = q[1] OBVIOUS
  <2>3. /\ <<Head(q)>> \o Tail(q) \in Seq(S)
        /\ Len(<<Head(q)>> \o Tail(q)) = Len(q)
        /\ \A i \in 1..Len(q) : (<<Head(q)>> \o Tail(q))[i] = q[i]
    BY <1>1, <2>1, <2>2, ConcatProperties, HeadTailProperties
  <2> QED BY <2>3, SeqEqual
<1>3. (h \o <<Head(q)>>) \o Tail(q) = h \o (<<Head(q)>> \o Tail(q))
  BY <1>1, ConcatAssociative
<1> QED BY <1>2, <1>3, ConcatEmptySeq

-----------------------------------------------------------------------------
(* The engine starts in the invariant. *)
LEMMA InitInv == Init => IInv
<1> SUFFICES ASSUME Init PROVE IInv OBVIOUS
<1> USE EngineAssumption DEF Init
<1>1. TypeOK
  <2>1. told \in BOOLEAN /\ exit \in BOOLEAN /\ torn \in BOOLEAN BY Zenon
  <2> QED BY <2>1, EmptySeq DEF TypeOK
<1>2. CountIsExact BY DEF CountIsExact
<1>3. InOrder
  <2>1. <<>> \o <<>> \o <<>> = <<>> BY ConcatEmptySeq, EmptySeq
  <2>2. [n \in 1..0 |-> n] = <<>> OBVIOUS
  <2> QED BY <2>1, <2>2 DEF InOrder
<1>4. Custody /\ Drained BY DEF Custody, Ended, Drained
<1> QED BY <1>1, <1>2, <1>3, <1>4 DEF IInv

(* Every step of the engine keeps it. *)
LEMMA StepInv == IInv /\ [Next]_vars => IInv'
<1> SUFFICES ASSUME IInv, [Next]_vars PROVE IInv' OBVIOUS
<1> USE EngineAssumption
<1> USE DEF IInv
<1>t. /\ queue \in Seq(Tick) /\ handled \in Seq(Tick) /\ thread \in Seq(Tick)
      /\ Len(queue) \in Nat /\ Len(handled) \in Nat /\ unfinished \in Nat
      /\ sent \in 0..MaxTicks /\ atStop \in 0..MaxTicks
  <2>1. thread \in Seq(Tick)
    <3>1. <<>> \in Seq(Tick) /\ \A t \in Tick : <<t>> \in Seq(Tick) BY EmptySeq
    <3> QED BY <3>1 DEF TypeOK, Tick
  <2>2. queue \in Seq(Tick) /\ handled \in Seq(Tick) BY DEF TypeOK, Tick
  <2>3. Len(queue) \in Nat /\ Len(handled) \in Nat BY <2>2, LenProperties
  <2> QED BY <2>1, <2>2, <2>3 DEF TypeOK
<1>1. CASE Start
  BY <1>1 DEF Start, TypeOK, CountIsExact, InOrder, Custody, Ended, Drained
<1>2. CASE SubmitTick
  <2> USE <1>2 DEF SubmitTick
  <2>1. queue' \in Seq(Tick) /\ Len(queue') = Len(queue) + 1
    BY <1>t, AppendProperties DEF Tick
  <2>2. TypeOK' BY <1>t, <2>1 DEF TypeOK, Tick
  <2>3. CountIsExact' BY <1>t, <2>1 DEF CountIsExact
  <2>4. InOrder'
    <3>1. sent + 1 \in Tick /\ sent \in Nat BY <1>t DEF Tick
    <3>2. handled \o thread \o Append(queue, sent + 1)
            = (handled \o thread \o queue) \o <<sent + 1>>
      BY <1>t, <3>1, ArrivesLast
    <3>3. [k \in 1..sent |-> k] \o <<sent + 1>> = [k \in 1..(sent + 1) |-> k]
      BY <3>1, OneMore
    <3> QED BY <3>2, <3>3 DEF InOrder
  <2>5. Custody' /\ Drained' BY <1>t DEF Custody, Ended, Drained
  <2> QED BY <2>2, <2>3, <2>4, <2>5
<1>3. CASE WorkerTakes
  <2> USE <1>3 DEF WorkerTakes
  <2>1. thread = <<>> BY DEF Custody, Ended
  <2>2. Head(queue) \in Tick /\ queue' \in Seq(Tick) /\ Len(queue') = Len(queue) - 1
    BY <1>t, HeadTailProperties
  <2>3. TypeOK' BY <1>t, <2>2 DEF TypeOK, Tick
  <2>4. CountIsExact' BY <1>t, <2>2 DEF CountIsExact
  <2>5. InOrder'
    <3>1. handled \o <<Head(queue)>> \o Tail(queue) = handled \o <<>> \o queue
      BY <1>t, TakenFirst, Zenon
    <3> QED BY <2>1, <3>1 DEF InOrder
  <2>6. Custody' /\ Drained' BY <2>1 DEF Custody, Ended, Drained
  <2> QED BY <2>3, <2>4, <2>5, <2>6
<1>4. CASE OnTickEnds
  <2> USE <1>4 DEF OnTickEnds
  <2>1. handled' \in Seq(Tick) /\ Len(handled') = Len(handled) + Len(thread)
        /\ Len(thread) \in Nat
    BY <1>t, ConcatProperties, LenProperties
  <2>2. CountIsExact' BY <1>t DEF CountIsExact
  <2>3. TypeOK' BY <1>t, <2>1, <2>2 DEF TypeOK, Tick, CountIsExact
  <2>4. InOrder' BY <1>t, <2>1, ConcatEmptySeq DEF InOrder
  <2>5. Custody' BY DEF Custody, Ended
  <2>6. Drained' BY <1>t, <2>1 DEF Drained, TypeOK
  <2> QED BY <2>2, <2>3, <2>4, <2>5, <2>6
<1>5. CASE StreamConnects \/ StreamFails \/ StreamEnds
  BY <1>5 DEF StreamConnects, StreamFails, StreamEnds, OnlyStream, TypeOK, CountIsExact,
       InOrder, Custody, Ended, Drained
<1>6. CASE DebugQuit
  BY <1>6 DEF DebugQuit, TypeOK, CountIsExact, InOrder, Custody, Ended, Drained
<1>7. CASE PromptEnds
  BY <1>7 DEF PromptEnds, TypeOK, CountIsExact, InOrder, Custody, Ended, Drained
<1>8. CASE WorkerQuits
  <2> USE <1>8 DEF WorkerQuits, TearDown, CancelWorker
  <2>1. CountIsExact' /\ TypeOK' BY <1>t DEF CountIsExact, TypeOK
  <2>2. InOrder' /\ Custody' BY DEF InOrder, Custody, Ended
  <2>3. Drained' BY <1>t DEF Drained
  <2> QED BY <2>1, <2>2, <2>3
<1>9. CASE StartReturns
  <2> USE <1>9 DEF StartReturns, CancelWorker
  <2>1. CountIsExact' BY <1>t DEF CountIsExact
  <2>2. TypeOK' BY <1>t, <2>1 DEF TypeOK, CountIsExact
  <2>3. InOrder' /\ Custody' /\ Drained' BY DEF InOrder, Custody, Ended, Drained
  <2> QED BY <2>1, <2>2, <2>3
<1>10. CASE StartRaises
  <2> USE <1>10 DEF StartRaises, TearDown, CancelWorker
  <2>1. CountIsExact' BY <1>t DEF CountIsExact
  <2>2. TypeOK'
    <3>1. told' \in BOOLEAN /\ exit' \in BOOLEAN /\ torn' \in BOOLEAN
      BY Zenon DEF TypeOK
    <3> QED BY <1>t, <2>1, <3>1 DEF TypeOK, CountIsExact
  <2>3. InOrder' /\ Custody' BY DEF InOrder, Custody, Ended
  <2>4. Drained' BY <1>t DEF Drained
  <2> QED BY <2>1, <2>2, <2>3, <2>4
<1>12. CASE Stop
  <2> USE <1>12 DEF Stop
  <2>1. TypeOK' /\ CountIsExact' BY DEF TypeOK, CountIsExact
  <2>2. InOrder' /\ Custody' BY DEF InOrder, Custody, Ended
  <2>3. Drained' BY <1>t DEF Drained
  <2> QED BY <2>1, <2>2, <2>3
<1>13. CASE JoinReturns
  <2> USE <1>13 DEF JoinReturns
  <2>1. TypeOK' /\ CountIsExact' /\ InOrder' /\ Custody'
    BY DEF TypeOK, CountIsExact, InOrder, Custody, Ended
  <2>2. queue = <<>> /\ worker # "running"
    BY <1>t, EmptySeq DEF CountIsExact
  <2>3. handled \o thread = [n \in 1..sent |-> n]
    <3>1. handled \o thread \in Seq(Tick) BY <1>t, ConcatProperties
    <3> QED BY <2>2, <3>1, ConcatEmptySeq DEF InOrder
  <2>4. Len(handled) + Len(thread) = sent
    <3>1. Len(handled \o thread) = Len(handled) + Len(thread) BY <1>t, ConcatProperties
    <3>2. Len([n \in 1..sent |-> n]) = sent BY <1>t
    <3> QED BY <2>3, <3>1, <3>2
  <2>5. thread = <<>> => Len(handled) = sent
    BY <1>t, <2>4, EmptySeq
  <2>6. thread # <<>> => torn BY <2>2 DEF Custody, Ended
  <2>7. Drained' BY <1>t, <2>4, <2>5, <2>6 DEF Drained
  <2> QED BY <2>1, <2>7
<1>14. CASE StopReturns
  <2> USE <1>14 DEF StopReturns, CancelWorker
  <2>1. CountIsExact' BY <1>t DEF CountIsExact
  <2>2. TypeOK' BY <1>t, <2>1 DEF TypeOK, CountIsExact
  <2>3. InOrder' /\ Custody' /\ Drained' BY DEF InOrder, Custody, Ended, Drained
  <2> QED BY <2>1, <2>2, <2>3
<1>11. CASE UNCHANGED vars
  BY <1>11 DEF vars, TypeOK, CountIsExact, InOrder, Custody, Ended, Drained
<1> QED BY <1>1, <1>2, <1>3, <1>4, <1>5, <1>6, <1>7, <1>8, <1>9, <1>10, <1>11,
       <1>12, <1>13, <1>14 DEF Next

-----------------------------------------------------------------------------
(* The invariant holds for a stream of any length, in both settings. *)
THEOREM Invariant == Spec => []IInv
<1> QED BY InitInv, StepInv, PTL DEF Spec

(* Every variable keeps its type, and the count of unfinished ticks never  *)
(* becomes negative (Queue.task_done would raise).                         *)
THEOREM TypeCorrect == Spec => []TypeOK
<1>1. IInv => TypeOK BY DEF IInv
<1> QED BY <1>1, Invariant, PTL

(* join() waits for exactly the ticks that are queued or being handled.    *)
THEOREM CountCorrect == Spec => []CountIsExact
<1>1. IInv => CountIsExact BY DEF IInv
<1> QED BY <1>1, Invariant, PTL

(* No tick is lost, handled twice or overtaken by a later one.             *)
THEOREM OrderCorrect == Spec => []InOrder
<1>1. IInv => InOrder BY DEF IInv
<1> QED BY <1>1, Invariant, PTL

(* stop() keeps its promise: when it returns, every tick submitted before  *)
(* it was called has been handled, or is in the thread of a loop that was  *)
(* torn down.                                                              *)
THEOREM StopCorrect == Spec => []StopDrains
<1>1. IInv => StopDrains BY DEF IInv, Drained, StopDrains
<1> QED BY <1>1, Invariant, PTL
=============================================================================
