------------------------ MODULE LiveReoptimizationProofs ------------------------
(***************************************************************************)
(* The engines that search while they trade, for any number of searches:   *)
(* which thread is where, who holds the lock, which searches may have left *)
(* parameters behind, and in which order.                                  *)
(***************************************************************************)
EXTENDS LiveReoptimization, FiniteSetTheorems, TLAPS

Types ==
    /\ mode \in Modes /\ al \in Versions /\ pf \in Versions /\ torn \in BOOLEAN
    /\ pendAl \in Versions /\ pendPf \in Versions /\ pendEv \in Versions
    /\ optimizing \in BOOLEAN /\ due \in BOOLEAN /\ flat \in BOOLEAN
    /\ lock \in {Free} \cup Thread /\ pc \in [Thread -> PC]
    /\ event \in [Runs -> {"none", "pending_activation", "evaluated",
                           "activated", "rejected"}]

Exclusive == \A t \in Thread : lock = t <=> Inside(t)

(* The flag is up as long as a search is active, so no second one starts.  *)
Active(n) == pc[n] \notin {"idle", "reschedule", "done"}
Single == \A n \in Runs : Active(n) => /\ optimizing
                                       /\ \A m \in Runs : Active(m) => m = n

(* The two engines use disjoint parts of the program. *)
SelfPlaces == {"idle", "schedule", "enter", "process", "search", "take", "setAl",
               "setPf", "finish", "reschedule", "done"}
Apart ==
    /\ mode = "self" => /\ \A t \in Thread : pc[t] \in SelfPlaces
                        /\ pendAl = None /\ pendPf = None /\ pendEv = None
    /\ mode # "self" => \A t \in Thread : pc[t] \notin {"take", "setAl", "setPf"}

(* Between the two halves of a reconfiguration the lock is held. *)
Halves ==
    mode = "self" => /\ \A n \in Runs : pc[n] = "setPf" => al = n
                     /\ al = pf \/ torn \/ \E n \in Runs : pc[n] = "setPf"

(* A search is published after its approval, and rejected unpublished. *)
Left == {al, pf, pendAl, pendPf, pendEv}
Approved(n) == event[n] \in {"pending_activation", "activated"}
Approval ==
    mode # "self" =>
        \A n \in Runs :
            /\ n \in Left => Approved(n) /\ pc[n] \notin {"idle", "search", "reject"}
            /\ pc[n] \in {"publishAl", "publishPf", "publishEv"} => Approved(n)

(* Searches start in order, the active one is the last, and what is        *)
(* pending is not older than what is in use.                               *)
Started(n) == pc[n] # "idle"
Ordered ==
    /\ \A n, k \in Runs : Active(n) /\ Started(k) => k <= n
    /\ \A n, k \in Runs : ~Started(n) /\ Started(k) => k < n
Latest ==
    /\ \A x \in {al, pf, pendAl, pendPf} : x # 0 => Started(x)
    /\ pendAl # None => al <= pendAl
    /\ pendPf # None => pf <= pendPf

IInv == /\ Types /\ Exclusive /\ Single /\ Apart
        /\ Halves /\ Approval /\ Ordered /\ Latest

-----------------------------------------------------------------------------
(* A step is one of the tick thread, of the clock or of a search. *)
LEMMA Steps ==
    ASSUME [Next]_vars
    PROVE  \/ Tick \/ StartOptimization \/ EnterTick \/ LeaveTick \/ TimeComes
           \/ \E t \in Thread : Apply(t)
           \/ \E n \in Runs : Search(n)
           \/ UNCHANGED vars
BY DEF Next, OnTick, Run, Thread

(* Every step leaves every variable in its type. *)
LEMMA TypesKept ==
    ASSUME Types, [Next]_vars
    PROVE  Types'
<1> USE ReoptAssumption DEF Thread, TickThread, Free, None, params, pend, sched, Types,
        Versions, PC, Applying
<1>1. CASE Tick
  BY <1>1 DEF Tick, Moves, GoTo
<1>2. CASE StartOptimization
  BY <1>2 DEF StartOptimization, GoTo, NextRun
<1>3. CASE EnterTick
  BY <1>3 DEF EnterTick, Moves, GoTo
<1>4. CASE LeaveTick
  BY <1>4 DEF LeaveTick, Moves, GoTo
<1>5. CASE TimeComes
  BY <1>5 DEF TimeComes
<1>6. ASSUME NEW t \in Thread, Apply(t) PROVE Types'
  <2>1. CASE Check(t)
    BY <2>1 DEF Check, Moves, GoTo, After
  <2>2. CASE Acquire(t)
    BY <2>2 DEF Acquire, Moves, GoTo
  <2>3. CASE TestAl(t)
    BY <2>3 DEF TestAl, Moves, GoTo
  <2>4. CASE UseAl(t)
    BY <2>4 DEF UseAl, GoTo, Raise, Handler
  <2>5. CASE NoteAl(t)
    BY <2>5 DEF NoteAl, GoTo, Raise, Handler
  <2>6. CASE TestPf(t)
    BY <2>6 DEF TestPf, Moves, GoTo
  <2>7. CASE UsePf(t)
    BY <2>7 DEF UsePf, GoTo, Raise, Handler
  <2>8. CASE NotePf(t)
    BY <2>8 DEF NotePf, GoTo, Raise, Handler
  <2>9. CASE Mark(t)
    BY <2>9 DEF Mark, Moves, GoTo
  <2>10. CASE TestEv(t)
    BY <2>10 DEF TestEv, Moves, GoTo
  <2>11. CASE ApplyRaises(t)
    BY <2>11 DEF ApplyRaises, GoTo, Handler
  <2>12. CASE MarkFails(t)
    BY <2>12 DEF MarkFails, Moves, GoTo, Handler
  <2>13. CASE ClearAl(t)
    BY <2>13 DEF ClearAl, Moves, GoTo
  <2>14. CASE ClearPf(t)
    BY <2>14 DEF ClearPf, Moves, GoTo
  <2>15. CASE ClearEv(t)
    BY <2>15 DEF ClearEv, Moves, GoTo, After
  <2> QED BY <1>6, <2>1, <2>2, <2>3, <2>4, <2>5, <2>6, <2>7, <2>8, <2>9, <2>10, <2>11,
             <2>12, <2>13, <2>14, <2>15 DEF Apply
<1>7. ASSUME NEW n \in Runs, Search(n) PROVE Types'
  <2>1. CASE SearchFails(n)
    BY <2>1 DEF SearchFails, Moves, GoTo
  <2>2. CASE Adopted(n)
    BY <2>2 DEF Adopted, Moves, GoTo
  <2>3. CASE NotAdopted(n)
    BY <2>3 DEF NotAdopted, Moves, GoTo
  <2>4. CASE PublishAl(n)
    BY <2>4 DEF PublishAl, Moves, GoTo
  <2>5. CASE PublishPf(n)
    BY <2>5 DEF PublishPf, Moves, GoTo
  <2>6. CASE PublishEv(n)
    BY <2>6 DEF PublishEv, Moves, GoTo
  <2>7. CASE Reject(n)
    BY <2>7 DEF Reject, Moves, GoTo
  <2>8. CASE Take(n)
    BY <2>8 DEF Take, Moves, GoTo
  <2>9. CASE SetAl(n)
    BY <2>9 DEF SetAl, Moves, GoTo
  <2>10. CASE SetPf(n)
    BY <2>10 DEF SetPf, Moves, GoTo
  <2>11. CASE TakeRaises(n)
    BY <2>11 DEF TakeRaises, GoTo
  <2>12. CASE Finish(n)
    BY <2>12 DEF Finish, Moves, GoTo
  <2>13. CASE Reschedule(n)
    BY <2>13 DEF Reschedule, Moves, GoTo
  <2> QED BY <1>7, <2>1, <2>2, <2>3, <2>4, <2>5, <2>6, <2>7, <2>8, <2>9, <2>10, <2>11,
             <2>12, <2>13 DEF Search
<1>8. CASE UNCHANGED vars BY <1>8 DEF vars
<1> QED BY <1>1, <1>2, <1>3, <1>4, <1>5, <1>6, <1>7, <1>8, Steps

(* A thread is inside the lock exactly as long as it holds it. *)
LEMMA ExclusiveKept ==
    ASSUME Types, Exclusive, [Next]_vars
    PROVE  Exclusive'
<1> USE ReoptAssumption DEF Thread, TickThread, Free, None, params, pend, sched, Types,
        Exclusive, Inside, Applying, PC
<1>1. CASE Tick
  BY <1>1 DEF Tick, Moves, GoTo
<1>2. CASE StartOptimization
  BY <1>2 DEF StartOptimization, GoTo, NextRun
<1>3. CASE EnterTick
  BY <1>3 DEF EnterTick, Moves, GoTo
<1>4. CASE LeaveTick
  BY <1>4 DEF LeaveTick, Moves, GoTo
<1>5. CASE TimeComes
  BY <1>5 DEF TimeComes
<1>6. ASSUME NEW t \in Thread, Apply(t) PROVE Exclusive'
  <2>1. CASE Check(t)
    BY <2>1 DEF Check, Moves, GoTo, After
  <2>2. CASE Acquire(t)
    BY <2>2 DEF Acquire, Moves, GoTo
  <2>3. CASE TestAl(t)
    BY <2>3 DEF TestAl, Moves, GoTo
  <2>4. CASE UseAl(t)
    BY <2>4 DEF UseAl, GoTo, Raise, Handler
  <2>5. CASE NoteAl(t)
    BY <2>5 DEF NoteAl, GoTo, Raise, Handler
  <2>6. CASE TestPf(t)
    BY <2>6 DEF TestPf, Moves, GoTo
  <2>7. CASE UsePf(t)
    BY <2>7 DEF UsePf, GoTo, Raise, Handler
  <2>8. CASE NotePf(t)
    BY <2>8 DEF NotePf, GoTo, Raise, Handler
  <2>9. CASE Mark(t)
    BY <2>9 DEF Mark, Moves, GoTo
  <2>10. CASE TestEv(t)
    BY <2>10 DEF TestEv, Moves, GoTo
  <2>11. CASE ApplyRaises(t)
    BY <2>11 DEF ApplyRaises, GoTo, Handler
  <2>12. CASE MarkFails(t)
    BY <2>12 DEF MarkFails, Moves, GoTo, Handler
  <2>13. CASE ClearAl(t)
    BY <2>13 DEF ClearAl, Moves, GoTo
  <2>14. CASE ClearPf(t)
    BY <2>14 DEF ClearPf, Moves, GoTo
  <2>15. CASE ClearEv(t)
    BY <2>15 DEF ClearEv, Moves, GoTo, After
  <2> QED BY <1>6, <2>1, <2>2, <2>3, <2>4, <2>5, <2>6, <2>7, <2>8, <2>9, <2>10, <2>11,
             <2>12, <2>13, <2>14, <2>15 DEF Apply
<1>7. ASSUME NEW n \in Runs, Search(n) PROVE Exclusive'
  <2>1. CASE SearchFails(n)
    BY <2>1 DEF SearchFails, Moves, GoTo
  <2>2. CASE Adopted(n)
    BY <2>2 DEF Adopted, Moves, GoTo
  <2>3. CASE NotAdopted(n)
    BY <2>3 DEF NotAdopted, Moves, GoTo
  <2>4. CASE PublishAl(n)
    BY <2>4 DEF PublishAl, Moves, GoTo
  <2>5. CASE PublishPf(n)
    BY <2>5 DEF PublishPf, Moves, GoTo
  <2>6. CASE PublishEv(n)
    BY <2>6 DEF PublishEv, Moves, GoTo
  <2>7. CASE Reject(n)
    BY <2>7 DEF Reject, Moves, GoTo
  <2>8. CASE Take(n)
    BY <2>8 DEF Take, Moves, GoTo
  <2>9. CASE SetAl(n)
    BY <2>9 DEF SetAl, Moves, GoTo
  <2>10. CASE SetPf(n)
    BY <2>10 DEF SetPf, Moves, GoTo
  <2>11. CASE TakeRaises(n)
    BY <2>11 DEF TakeRaises, GoTo
  <2>12. CASE Finish(n)
    BY <2>12 DEF Finish, Moves, GoTo
  <2>13. CASE Reschedule(n)
    BY <2>13 DEF Reschedule, Moves, GoTo
  <2> QED BY <1>7, <2>1, <2>2, <2>3, <2>4, <2>5, <2>6, <2>7, <2>8, <2>9, <2>10, <2>11,
             <2>12, <2>13 DEF Search
<1>8. CASE UNCHANGED vars BY <1>8 DEF vars
<1> QED BY <1>1, <1>2, <1>3, <1>4, <1>5, <1>6, <1>7, <1>8, Steps

(* No second search becomes active. *)
LEMMA SingleKept ==
    ASSUME Types, Single, [Next]_vars
    PROVE  Single'
<1> USE ReoptAssumption DEF Thread, TickThread, Free, None, params, pend, sched, Types,
        Single, Active
<1>1. CASE Tick
  BY <1>1 DEF Tick, Moves, GoTo
<1>2. CASE StartOptimization
  BY <1>2 DEF StartOptimization, GoTo, NextRun
<1>3. CASE EnterTick
  BY <1>3 DEF EnterTick, Moves, GoTo
<1>4. CASE LeaveTick
  BY <1>4 DEF LeaveTick, Moves, GoTo
<1>5. CASE TimeComes
  BY <1>5 DEF TimeComes
<1>6. ASSUME NEW t \in Thread, Apply(t) PROVE Single'
  <2>1. CASE Check(t)
    BY <2>1 DEF Check, Moves, GoTo, After
  <2>2. CASE Acquire(t)
    BY <2>2 DEF Acquire, Moves, GoTo
  <2>3. CASE TestAl(t)
    BY <2>3 DEF TestAl, Moves, GoTo
  <2>4. CASE UseAl(t)
    BY <2>4 DEF UseAl, GoTo, Raise, Handler
  <2>5. CASE NoteAl(t)
    BY <2>5 DEF NoteAl, GoTo, Raise, Handler
  <2>6. CASE TestPf(t)
    BY <2>6 DEF TestPf, Moves, GoTo
  <2>7. CASE UsePf(t)
    BY <2>7 DEF UsePf, GoTo, Raise, Handler
  <2>8. CASE NotePf(t)
    BY <2>8 DEF NotePf, GoTo, Raise, Handler
  <2>9. CASE Mark(t)
    BY <2>9 DEF Mark, Moves, GoTo
  <2>10. CASE TestEv(t)
    BY <2>10 DEF TestEv, Moves, GoTo
  <2>11. CASE ApplyRaises(t)
    BY <2>11 DEF ApplyRaises, GoTo, Handler
  <2>12. CASE MarkFails(t)
    BY <2>12 DEF MarkFails, Moves, GoTo, Handler
  <2>13. CASE ClearAl(t)
    BY <2>13 DEF ClearAl, Moves, GoTo
  <2>14. CASE ClearPf(t)
    BY <2>14 DEF ClearPf, Moves, GoTo
  <2>15. CASE ClearEv(t)
    BY <2>15 DEF ClearEv, Moves, GoTo, After
  <2> QED BY <1>6, <2>1, <2>2, <2>3, <2>4, <2>5, <2>6, <2>7, <2>8, <2>9, <2>10, <2>11,
             <2>12, <2>13, <2>14, <2>15 DEF Apply
<1>7. ASSUME NEW n \in Runs, Search(n) PROVE Single'
  <2>1. CASE SearchFails(n)
    BY <2>1 DEF SearchFails, Moves, GoTo
  <2>2. CASE Adopted(n)
    BY <2>2 DEF Adopted, Moves, GoTo
  <2>3. CASE NotAdopted(n)
    BY <2>3 DEF NotAdopted, Moves, GoTo
  <2>4. CASE PublishAl(n)
    BY <2>4 DEF PublishAl, Moves, GoTo
  <2>5. CASE PublishPf(n)
    BY <2>5 DEF PublishPf, Moves, GoTo
  <2>6. CASE PublishEv(n)
    BY <2>6 DEF PublishEv, Moves, GoTo
  <2>7. CASE Reject(n)
    BY <2>7 DEF Reject, Moves, GoTo
  <2>8. CASE Take(n)
    BY <2>8 DEF Take, Moves, GoTo
  <2>9. CASE SetAl(n)
    BY <2>9 DEF SetAl, Moves, GoTo
  <2>10. CASE SetPf(n)
    BY <2>10 DEF SetPf, Moves, GoTo
  <2>11. CASE TakeRaises(n)
    BY <2>11 DEF TakeRaises, GoTo
  <2>12. CASE Finish(n)
    BY <2>12 DEF Finish, Moves, GoTo
  <2>13. CASE Reschedule(n)
    BY <2>13 DEF Reschedule, Moves, GoTo
  <2> QED BY <1>7, <2>1, <2>2, <2>3, <2>4, <2>5, <2>6, <2>7, <2>8, <2>9, <2>10, <2>11,
             <2>12, <2>13 DEF Search
<1>8. CASE UNCHANGED vars BY <1>8 DEF vars
<1> QED BY <1>1, <1>2, <1>3, <1>4, <1>5, <1>6, <1>7, <1>8, Steps

(* Neither engine enters the other's part. *)
LEMMA ApartKept ==
    ASSUME Types, Apart, [Next]_vars
    PROVE  Apart'
<1> USE ReoptAssumption DEF Thread, TickThread, Free, None, params, pend, sched, Types,
        Apart, SelfPlaces
<1>1. CASE Tick
  BY <1>1 DEF Tick, Moves, GoTo
<1>2. CASE StartOptimization
  BY <1>2 DEF StartOptimization, GoTo, NextRun
<1>3. CASE EnterTick
  BY <1>3 DEF EnterTick, Moves, GoTo
<1>4. CASE LeaveTick
  BY <1>4 DEF LeaveTick, Moves, GoTo
<1>5. CASE TimeComes
  BY <1>5 DEF TimeComes
<1>6. ASSUME NEW t \in Thread, Apply(t) PROVE Apart'
  <2>1. CASE Check(t)
    BY <2>1 DEF Check, Moves, GoTo, After
  <2>2. CASE Acquire(t)
    BY <2>2 DEF Acquire, Moves, GoTo
  <2>3. CASE TestAl(t)
    BY <2>3 DEF TestAl, Moves, GoTo
  <2>4. CASE UseAl(t)
    BY <2>4 DEF UseAl, GoTo, Raise, Handler
  <2>5. CASE NoteAl(t)
    BY <2>5 DEF NoteAl, GoTo, Raise, Handler
  <2>6. CASE TestPf(t)
    BY <2>6 DEF TestPf, Moves, GoTo
  <2>7. CASE UsePf(t)
    BY <2>7 DEF UsePf, GoTo, Raise, Handler
  <2>8. CASE NotePf(t)
    BY <2>8 DEF NotePf, GoTo, Raise, Handler
  <2>9. CASE Mark(t)
    BY <2>9 DEF Mark, Moves, GoTo
  <2>10. CASE TestEv(t)
    BY <2>10 DEF TestEv, Moves, GoTo
  <2>11. CASE ApplyRaises(t)
    BY <2>11 DEF ApplyRaises, GoTo, Handler
  <2>12. CASE MarkFails(t)
    BY <2>12 DEF MarkFails, Moves, GoTo, Handler
  <2>13. CASE ClearAl(t)
    BY <2>13 DEF ClearAl, Moves, GoTo
  <2>14. CASE ClearPf(t)
    BY <2>14 DEF ClearPf, Moves, GoTo
  <2>15. CASE ClearEv(t)
    BY <2>15 DEF ClearEv, Moves, GoTo, After
  <2> QED BY <1>6, <2>1, <2>2, <2>3, <2>4, <2>5, <2>6, <2>7, <2>8, <2>9, <2>10, <2>11,
             <2>12, <2>13, <2>14, <2>15 DEF Apply
<1>7. ASSUME NEW n \in Runs, Search(n) PROVE Apart'
  <2>1. CASE SearchFails(n)
    BY <2>1 DEF SearchFails, Moves, GoTo
  <2>2. CASE Adopted(n)
    BY <2>2 DEF Adopted, Moves, GoTo
  <2>3. CASE NotAdopted(n)
    BY <2>3 DEF NotAdopted, Moves, GoTo
  <2>4. CASE PublishAl(n)
    BY <2>4 DEF PublishAl, Moves, GoTo
  <2>5. CASE PublishPf(n)
    BY <2>5 DEF PublishPf, Moves, GoTo
  <2>6. CASE PublishEv(n)
    BY <2>6 DEF PublishEv, Moves, GoTo
  <2>7. CASE Reject(n)
    BY <2>7 DEF Reject, Moves, GoTo
  <2>8. CASE Take(n)
    BY <2>8 DEF Take, Moves, GoTo
  <2>9. CASE SetAl(n)
    BY <2>9 DEF SetAl, Moves, GoTo
  <2>10. CASE SetPf(n)
    BY <2>10 DEF SetPf, Moves, GoTo
  <2>11. CASE TakeRaises(n)
    BY <2>11 DEF TakeRaises, GoTo
  <2>12. CASE Finish(n)
    BY <2>12 DEF Finish, Moves, GoTo
  <2>13. CASE Reschedule(n)
    BY <2>13 DEF Reschedule, Moves, GoTo
  <2> QED BY <1>7, <2>1, <2>2, <2>3, <2>4, <2>5, <2>6, <2>7, <2>8, <2>9, <2>10, <2>11,
             <2>12, <2>13 DEF Search
<1>8. CASE UNCHANGED vars BY <1>8 DEF vars
<1> QED BY <1>1, <1>2, <1>3, <1>4, <1>5, <1>6, <1>7, <1>8, Steps

(* The pair is whole, or its search is about to make it so. *)
LEMMA HalvesKept ==
    ASSUME Types, Exclusive, Apart, Halves, [Next]_vars
    PROVE  Halves'
<1> USE ReoptAssumption DEF Thread, TickThread, Free, None, params, pend, sched, Types,
        Apart, Halves, SelfPlaces, Exclusive, Inside, Applying
<1>1. CASE Tick
  BY <1>1 DEF Tick, Moves, GoTo
<1>2. CASE StartOptimization
  BY <1>2 DEF StartOptimization, GoTo, NextRun
<1>3. CASE EnterTick
  BY <1>3 DEF EnterTick, Moves, GoTo
<1>4. CASE LeaveTick
  BY <1>4 DEF LeaveTick, Moves, GoTo
<1>5. CASE TimeComes
  BY <1>5 DEF TimeComes
<1>6. ASSUME NEW t \in Thread, Apply(t) PROVE Halves'
  <2>1. CASE Check(t)
    BY <2>1 DEF Check, Moves, GoTo, After
  <2>2. CASE Acquire(t)
    BY <2>2 DEF Acquire, Moves, GoTo
  <2>3. CASE TestAl(t)
    BY <2>3 DEF TestAl, Moves, GoTo
  <2>4. CASE UseAl(t)
    BY <2>4 DEF UseAl, GoTo, Raise, Handler
  <2>5. CASE NoteAl(t)
    BY <2>5 DEF NoteAl, GoTo, Raise, Handler
  <2>6. CASE TestPf(t)
    BY <2>6 DEF TestPf, Moves, GoTo
  <2>7. CASE UsePf(t)
    BY <2>7 DEF UsePf, GoTo, Raise, Handler
  <2>8. CASE NotePf(t)
    BY <2>8 DEF NotePf, GoTo, Raise, Handler
  <2>9. CASE Mark(t)
    BY <2>9 DEF Mark, Moves, GoTo
  <2>10. CASE TestEv(t)
    BY <2>10 DEF TestEv, Moves, GoTo
  <2>11. CASE ApplyRaises(t)
    BY <2>11 DEF ApplyRaises, GoTo, Handler
  <2>12. CASE MarkFails(t)
    BY <2>12 DEF MarkFails, Moves, GoTo, Handler
  <2>13. CASE ClearAl(t)
    BY <2>13 DEF ClearAl, Moves, GoTo
  <2>14. CASE ClearPf(t)
    BY <2>14 DEF ClearPf, Moves, GoTo
  <2>15. CASE ClearEv(t)
    BY <2>15 DEF ClearEv, Moves, GoTo, After
  <2> QED BY <1>6, <2>1, <2>2, <2>3, <2>4, <2>5, <2>6, <2>7, <2>8, <2>9, <2>10, <2>11,
             <2>12, <2>13, <2>14, <2>15 DEF Apply
<1>7. ASSUME NEW n \in Runs, Search(n) PROVE Halves'
  <2>1. CASE SearchFails(n)
    BY <2>1 DEF SearchFails, Moves, GoTo
  <2>2. CASE Adopted(n)
    BY <2>2 DEF Adopted, Moves, GoTo
  <2>3. CASE NotAdopted(n)
    BY <2>3 DEF NotAdopted, Moves, GoTo
  <2>4. CASE PublishAl(n)
    BY <2>4 DEF PublishAl, Moves, GoTo
  <2>5. CASE PublishPf(n)
    BY <2>5 DEF PublishPf, Moves, GoTo
  <2>6. CASE PublishEv(n)
    BY <2>6 DEF PublishEv, Moves, GoTo
  <2>7. CASE Reject(n)
    BY <2>7 DEF Reject, Moves, GoTo
  <2>8. CASE Take(n)
    BY <2>8 DEF Take, Moves, GoTo
  <2>9. CASE SetAl(n)
    BY <2>9 DEF SetAl, Moves, GoTo
  <2>10. CASE SetPf(n)
    BY <2>10 DEF SetPf, Moves, GoTo
  <2>11. CASE TakeRaises(n)
    BY <2>11 DEF TakeRaises, GoTo
  <2>12. CASE Finish(n)
    BY <2>12 DEF Finish, Moves, GoTo
  <2>13. CASE Reschedule(n)
    BY <2>13 DEF Reschedule, Moves, GoTo
  <2> QED BY <1>7, <2>1, <2>2, <2>3, <2>4, <2>5, <2>6, <2>7, <2>8, <2>9, <2>10, <2>11,
             <2>12, <2>13 DEF Search
<1>8. CASE UNCHANGED vars BY <1>8 DEF vars
<1> QED BY <1>1, <1>2, <1>3, <1>4, <1>5, <1>6, <1>7, <1>8, Steps

(* Nothing unapproved is published. *)
LEMMA ApprovalKept ==
    ASSUME Types, Apart, Approval, [Next]_vars
    PROVE  Approval'
<1> USE ReoptAssumption DEF Thread, TickThread, Free, None, params, pend, sched, Types,
        Versions, Apart, Approval, Approved, Left
<1>1. CASE Tick
  BY <1>1 DEF Tick, Moves, GoTo
<1>2. CASE StartOptimization
  BY <1>2 DEF StartOptimization, GoTo, NextRun
<1>3. CASE EnterTick
  BY <1>3 DEF EnterTick, Moves, GoTo
<1>4. CASE LeaveTick
  BY <1>4 DEF LeaveTick, Moves, GoTo
<1>5. CASE TimeComes
  BY <1>5 DEF TimeComes
<1>6. ASSUME NEW t \in Thread, Apply(t) PROVE Approval'
  <2>1. CASE Check(t)
    BY <2>1 DEF Check, Moves, GoTo, After
  <2>2. CASE Acquire(t)
    BY <2>2 DEF Acquire, Moves, GoTo
  <2>3. CASE TestAl(t)
    BY <2>3 DEF TestAl, Moves, GoTo
  <2>4. CASE UseAl(t)
    BY <2>4 DEF UseAl, GoTo, Raise, Handler
  <2>5. CASE NoteAl(t)
    BY <2>5 DEF NoteAl, GoTo, Raise, Handler
  <2>6. CASE TestPf(t)
    BY <2>6 DEF TestPf, Moves, GoTo
  <2>7. CASE UsePf(t)
    BY <2>7 DEF UsePf, GoTo, Raise, Handler
  <2>8. CASE NotePf(t)
    BY <2>8 DEF NotePf, GoTo, Raise, Handler
  <2>9. CASE Mark(t)
    BY <2>9 DEF Mark, Moves, GoTo
  <2>10. CASE TestEv(t)
    BY <2>10 DEF TestEv, Moves, GoTo
  <2>11. CASE ApplyRaises(t)
    BY <2>11 DEF ApplyRaises, GoTo, Handler
  <2>12. CASE MarkFails(t)
    BY <2>12 DEF MarkFails, Moves, GoTo, Handler
  <2>13. CASE ClearAl(t)
    BY <2>13 DEF ClearAl, Moves, GoTo
  <2>14. CASE ClearPf(t)
    BY <2>14 DEF ClearPf, Moves, GoTo
  <2>15. CASE ClearEv(t)
    BY <2>15 DEF ClearEv, Moves, GoTo, After
  <2> QED BY <1>6, <2>1, <2>2, <2>3, <2>4, <2>5, <2>6, <2>7, <2>8, <2>9, <2>10, <2>11,
             <2>12, <2>13, <2>14, <2>15 DEF Apply
<1>7. ASSUME NEW n \in Runs, Search(n) PROVE Approval'
  <2>1. CASE SearchFails(n)
    BY <2>1 DEF SearchFails, Moves, GoTo
  <2>2. CASE Adopted(n)
    BY <2>2 DEF Adopted, Moves, GoTo
  <2>3. CASE NotAdopted(n)
    BY <2>3 DEF NotAdopted, Moves, GoTo
  <2>4. CASE PublishAl(n)
    BY <2>4 DEF PublishAl, Moves, GoTo
  <2>5. CASE PublishPf(n)
    BY <2>5 DEF PublishPf, Moves, GoTo
  <2>6. CASE PublishEv(n)
    BY <2>6 DEF PublishEv, Moves, GoTo
  <2>7. CASE Reject(n)
    BY <2>7 DEF Reject, Moves, GoTo
  <2>8. CASE Take(n)
    BY <2>8 DEF Take, Moves, GoTo
  <2>9. CASE SetAl(n)
    BY <2>9 DEF SetAl, Moves, GoTo
  <2>10. CASE SetPf(n)
    BY <2>10 DEF SetPf, Moves, GoTo
  <2>11. CASE TakeRaises(n)
    BY <2>11 DEF TakeRaises, GoTo
  <2>12. CASE Finish(n)
    BY <2>12 DEF Finish, Moves, GoTo
  <2>13. CASE Reschedule(n)
    BY <2>13 DEF Reschedule, Moves, GoTo
  <2> QED BY <1>7, <2>1, <2>2, <2>3, <2>4, <2>5, <2>6, <2>7, <2>8, <2>9, <2>10, <2>11,
             <2>12, <2>13 DEF Search
<1>8. CASE UNCHANGED vars BY <1>8 DEF vars
<1> QED BY <1>1, <1>2, <1>3, <1>4, <1>5, <1>6, <1>7, <1>8, Steps

(* The searches start in order. *)
LEMMA OrderedKept ==
    ASSUME Types, Single, Ordered, [Next]_vars
    PROVE  Ordered'
<1> USE ReoptAssumption DEF Thread, TickThread, Free, None, params, pend, sched, Types,
        Single, Ordered, Active, Started
<1>1. CASE Tick
  BY <1>1 DEF Tick, Moves, GoTo
<1>2. CASE StartOptimization
  BY <1>2 DEF StartOptimization, GoTo, NextRun
<1>3. CASE EnterTick
  BY <1>3 DEF EnterTick, Moves, GoTo
<1>4. CASE LeaveTick
  BY <1>4 DEF LeaveTick, Moves, GoTo
<1>5. CASE TimeComes
  BY <1>5 DEF TimeComes
<1>6. ASSUME NEW t \in Thread, Apply(t) PROVE Ordered'
  <2>1. CASE Check(t)
    BY <2>1 DEF Check, Moves, GoTo, After
  <2>2. CASE Acquire(t)
    BY <2>2 DEF Acquire, Moves, GoTo
  <2>3. CASE TestAl(t)
    BY <2>3 DEF TestAl, Moves, GoTo
  <2>4. CASE UseAl(t)
    BY <2>4 DEF UseAl, GoTo, Raise, Handler
  <2>5. CASE NoteAl(t)
    BY <2>5 DEF NoteAl, GoTo, Raise, Handler
  <2>6. CASE TestPf(t)
    BY <2>6 DEF TestPf, Moves, GoTo
  <2>7. CASE UsePf(t)
    BY <2>7 DEF UsePf, GoTo, Raise, Handler
  <2>8. CASE NotePf(t)
    BY <2>8 DEF NotePf, GoTo, Raise, Handler
  <2>9. CASE Mark(t)
    BY <2>9 DEF Mark, Moves, GoTo
  <2>10. CASE TestEv(t)
    BY <2>10 DEF TestEv, Moves, GoTo
  <2>11. CASE ApplyRaises(t)
    BY <2>11 DEF ApplyRaises, GoTo, Handler
  <2>12. CASE MarkFails(t)
    BY <2>12 DEF MarkFails, Moves, GoTo, Handler
  <2>13. CASE ClearAl(t)
    BY <2>13 DEF ClearAl, Moves, GoTo
  <2>14. CASE ClearPf(t)
    BY <2>14 DEF ClearPf, Moves, GoTo
  <2>15. CASE ClearEv(t)
    BY <2>15 DEF ClearEv, Moves, GoTo, After
  <2> QED BY <1>6, <2>1, <2>2, <2>3, <2>4, <2>5, <2>6, <2>7, <2>8, <2>9, <2>10, <2>11,
             <2>12, <2>13, <2>14, <2>15 DEF Apply
<1>7. ASSUME NEW n \in Runs, Search(n) PROVE Ordered'
  <2>1. CASE SearchFails(n)
    BY <2>1 DEF SearchFails, Moves, GoTo
  <2>2. CASE Adopted(n)
    BY <2>2 DEF Adopted, Moves, GoTo
  <2>3. CASE NotAdopted(n)
    BY <2>3 DEF NotAdopted, Moves, GoTo
  <2>4. CASE PublishAl(n)
    BY <2>4 DEF PublishAl, Moves, GoTo
  <2>5. CASE PublishPf(n)
    BY <2>5 DEF PublishPf, Moves, GoTo
  <2>6. CASE PublishEv(n)
    BY <2>6 DEF PublishEv, Moves, GoTo
  <2>7. CASE Reject(n)
    BY <2>7 DEF Reject, Moves, GoTo
  <2>8. CASE Take(n)
    BY <2>8 DEF Take, Moves, GoTo
  <2>9. CASE SetAl(n)
    BY <2>9 DEF SetAl, Moves, GoTo
  <2>10. CASE SetPf(n)
    BY <2>10 DEF SetPf, Moves, GoTo
  <2>11. CASE TakeRaises(n)
    BY <2>11 DEF TakeRaises, GoTo
  <2>12. CASE Finish(n)
    BY <2>12 DEF Finish, Moves, GoTo
  <2>13. CASE Reschedule(n)
    BY <2>13 DEF Reschedule, Moves, GoTo
  <2> QED BY <1>7, <2>1, <2>2, <2>3, <2>4, <2>5, <2>6, <2>7, <2>8, <2>9, <2>10, <2>11,
             <2>12, <2>13 DEF Search
<1>8. CASE UNCHANGED vars BY <1>8 DEF vars
<1> QED BY <1>1, <1>2, <1>3, <1>4, <1>5, <1>6, <1>7, <1>8, Steps

(* What is adopted next is not older than what is in use. *)
LEMMA LatestKept ==
    ASSUME Types, Apart, Single, Ordered, Latest, [Next]_vars
    PROVE  Latest'
<1> USE ReoptAssumption DEF Thread, TickThread, Free, None, params, pend, sched, Types,
        Versions, Apart, SelfPlaces, Single, Ordered, Latest, Active, Started
<1>1. CASE Tick
  BY <1>1 DEF Tick, Moves, GoTo
<1>2. CASE StartOptimization
  BY <1>2 DEF StartOptimization, GoTo, NextRun
<1>3. CASE EnterTick
  BY <1>3 DEF EnterTick, Moves, GoTo
<1>4. CASE LeaveTick
  BY <1>4 DEF LeaveTick, Moves, GoTo
<1>5. CASE TimeComes
  BY <1>5 DEF TimeComes
<1>6. ASSUME NEW t \in Thread, Apply(t) PROVE Latest'
  <2>1. CASE Check(t)
    BY <2>1 DEF Check, Moves, GoTo, After
  <2>2. CASE Acquire(t)
    BY <2>2 DEF Acquire, Moves, GoTo
  <2>3. CASE TestAl(t)
    BY <2>3 DEF TestAl, Moves, GoTo
  <2>4. CASE UseAl(t)
    BY <2>4 DEF UseAl, GoTo, Raise, Handler
  <2>5. CASE NoteAl(t)
    BY <2>5 DEF NoteAl, GoTo, Raise, Handler
  <2>6. CASE TestPf(t)
    BY <2>6 DEF TestPf, Moves, GoTo
  <2>7. CASE UsePf(t)
    BY <2>7 DEF UsePf, GoTo, Raise, Handler
  <2>8. CASE NotePf(t)
    BY <2>8 DEF NotePf, GoTo, Raise, Handler
  <2>9. CASE Mark(t)
    BY <2>9 DEF Mark, Moves, GoTo
  <2>10. CASE TestEv(t)
    BY <2>10 DEF TestEv, Moves, GoTo
  <2>11. CASE ApplyRaises(t)
    BY <2>11 DEF ApplyRaises, GoTo, Handler
  <2>12. CASE MarkFails(t)
    BY <2>12 DEF MarkFails, Moves, GoTo, Handler
  <2>13. CASE ClearAl(t)
    BY <2>13 DEF ClearAl, Moves, GoTo
  <2>14. CASE ClearPf(t)
    BY <2>14 DEF ClearPf, Moves, GoTo
  <2>15. CASE ClearEv(t)
    BY <2>15 DEF ClearEv, Moves, GoTo, After
  <2> QED BY <1>6, <2>1, <2>2, <2>3, <2>4, <2>5, <2>6, <2>7, <2>8, <2>9, <2>10, <2>11,
             <2>12, <2>13, <2>14, <2>15 DEF Apply
<1>7. ASSUME NEW n \in Runs, Search(n) PROVE Latest'
  <2>1. CASE SearchFails(n)
    BY <2>1 DEF SearchFails, Moves, GoTo
  <2>2. CASE Adopted(n)
    BY <2>2 DEF Adopted, Moves, GoTo
  <2>3. CASE NotAdopted(n)
    BY <2>3 DEF NotAdopted, Moves, GoTo
  <2>4. CASE PublishAl(n)
    BY <2>4 DEF PublishAl, Moves, GoTo
  <2>5. CASE PublishPf(n)
    BY <2>5 DEF PublishPf, Moves, GoTo
  <2>6. CASE PublishEv(n)
    BY <2>6 DEF PublishEv, Moves, GoTo
  <2>7. CASE Reject(n)
    BY <2>7 DEF Reject, Moves, GoTo
  <2>8. CASE Take(n)
    BY <2>8 DEF Take, Moves, GoTo
  <2>9. CASE SetAl(n)
    BY <2>9 DEF SetAl, Moves, GoTo
  <2>10. CASE SetPf(n)
    BY <2>10 DEF SetPf, Moves, GoTo
  <2>11. CASE TakeRaises(n)
    BY <2>11 DEF TakeRaises, GoTo
  <2>12. CASE Finish(n)
    BY <2>12 DEF Finish, Moves, GoTo
  <2>13. CASE Reschedule(n)
    BY <2>13 DEF Reschedule, Moves, GoTo
  <2> QED BY <1>7, <2>1, <2>2, <2>3, <2>4, <2>5, <2>6, <2>7, <2>8, <2>9, <2>10, <2>11,
             <2>12, <2>13 DEF Search
<1>8. CASE UNCHANGED vars BY <1>8 DEF vars
<1> QED BY <1>1, <1>2, <1>3, <1>4, <1>5, <1>6, <1>7, <1>8, Steps
-----------------------------------------------------------------------------
LEMMA InitIInv == Init => IInv
<1> SUFFICES ASSUME Init PROVE IInv OBVIOUS
<1> USE ReoptAssumption DEF Init, Thread, TickThread, Free, None
<1>1. Types BY DEF Types, Versions, PC
<1>2. Exclusive BY DEF Exclusive, Inside, Applying
<1>3. Single BY DEF Single, Active
<1>4. Apart BY DEF Apart, SelfPlaces
<1>5. Halves BY DEF Halves
<1>6. Approval BY DEF Approval, Left
<1>7. Ordered BY DEF Ordered, Active, Started
<1>8. Latest BY DEF Latest
<1> QED BY <1>1, <1>2, <1>3, <1>4, <1>5, <1>6, <1>7, <1>8 DEF IInv

LEMMA NextIInv == IInv /\ [Next]_vars => IInv'
<1> SUFFICES ASSUME IInv, [Next]_vars PROVE IInv' OBVIOUS
<1> USE DEF IInv
<1>1. Types' BY TypesKept
<1>2. Exclusive' BY ExclusiveKept
<1>3. Single' BY SingleKept
<1>4. Apart' BY ApartKept
<1>5. Halves' BY HalvesKept
<1>6. Approval' BY ApprovalKept
<1>7. Ordered' BY OrderedKept
<1>8. Latest' BY LatestKept
<1> QED BY <1>1, <1>2, <1>3, <1>4, <1>5, <1>6, <1>7, <1>8

LEMMA Invariance == Spec => []IInv
BY InitIInv, NextIInv, PTL DEF Spec

(* The state of the engines has its type, and the lock's holder is inside. *)
THEOREM Typed == Spec => []TypeOK
<1>1. IInv => TypeOK BY DEF IInv, Types, Exclusive, TypeOK
<1> QED BY <1>1, Invariance, PTL

(* _is_optimizing is tested and set without the lock, yet no two searches  *)
(* are ever under way.                                                     *)
THEOREM OneSearchHolds == Spec => []OneSearch
<1>1. ASSUME IInv PROVE OneSearch
  <2> DEFINE active == {n \in Runs : Active(n)}
  <2>1. CASE active = {}
    BY <2>1, FS_EmptySet DEF OneSearch, Active
  <2>2. ASSUME NEW n \in active PROVE OneSearch
    <3>1. active = {n} BY <1>1, <2>2 DEF IInv, Single
    <3>2. Cardinality(active) = 1 BY <3>1, FS_Singleton
    <3> QED BY <3>2 DEF OneSearch, Active
  <2> QED BY <2>1, <2>2
<1> QED BY <1>1, Invariance, PTL

(* What the self-optimizing engine trades with was found by one search:    *)
(* the lock covers both reconfigurations.                                  *)
THEOREM WholePairHolds == Spec => []WholePair
<1>1. ASSUME IInv PROVE WholePair
  <2> SUFFICES ASSUME mode = "self", pc[TickThread] = "process", al # pf, ~torn
                  PROVE  FALSE
    BY DEF WholePair
  <2>1. PICK n \in Runs : pc[n] = "setPf" BY <1>1 DEF IInv, Halves
  <2>2. lock = n /\ lock = TickThread
    BY <1>1, <2>1 DEF IInv, Exclusive, Inside, Thread
  <2> QED BY <2>2, ReoptAssumption DEF TickThread
<1> QED BY <1>1, Invariance, PTL

(* The walk-forward engine trades on approved parameters only, although it *)
(* publishes them without the lock.                                        *)
THEOREM OnlyApprovedHolds == Spec => []OnlyApproved
<1>1. IInv => OnlyApproved BY DEF IInv, Approval, Approved, Left, OnlyApproved
<1> QED BY <1>1, Invariance, PTL

(* Whoever changes a parameter holds the lock, which a tick has. *)
LEMMA StillStep ==
    ASSUME Types, Exclusive, pc[TickThread] = "process", [Next]_vars
    PROVE  UNCHANGED <<al, pf>>
<1> USE ReoptAssumption DEF Thread, TickThread, Free, None, params, pend, sched, Types,
        Exclusive, Inside, Applying
<1>1. CASE Tick
  BY <1>1 DEF Tick, Moves, GoTo
<1>2. CASE StartOptimization
  BY <1>2 DEF StartOptimization, GoTo, NextRun
<1>3. CASE EnterTick
  BY <1>3 DEF EnterTick, Moves, GoTo
<1>4. CASE LeaveTick
  BY <1>4 DEF LeaveTick, Moves, GoTo
<1>5. CASE TimeComes
  BY <1>5 DEF TimeComes
<1>6. ASSUME NEW t \in Thread, Apply(t) PROVE UNCHANGED <<al, pf>>
  <2>1. CASE Check(t)
    BY <2>1 DEF Check, Moves, GoTo, After
  <2>2. CASE Acquire(t)
    BY <2>2 DEF Acquire, Moves, GoTo
  <2>3. CASE TestAl(t)
    BY <2>3 DEF TestAl, Moves, GoTo
  <2>4. CASE UseAl(t)
    BY <2>4 DEF UseAl, GoTo, Raise, Handler
  <2>5. CASE NoteAl(t)
    BY <2>5 DEF NoteAl, GoTo, Raise, Handler
  <2>6. CASE TestPf(t)
    BY <2>6 DEF TestPf, Moves, GoTo
  <2>7. CASE UsePf(t)
    BY <2>7 DEF UsePf, GoTo, Raise, Handler
  <2>8. CASE NotePf(t)
    BY <2>8 DEF NotePf, GoTo, Raise, Handler
  <2>9. CASE Mark(t)
    BY <2>9 DEF Mark, Moves, GoTo
  <2>10. CASE TestEv(t)
    BY <2>10 DEF TestEv, Moves, GoTo
  <2>11. CASE ApplyRaises(t)
    BY <2>11 DEF ApplyRaises, GoTo, Handler
  <2>12. CASE MarkFails(t)
    BY <2>12 DEF MarkFails, Moves, GoTo, Handler
  <2>13. CASE ClearAl(t)
    BY <2>13 DEF ClearAl, Moves, GoTo
  <2>14. CASE ClearPf(t)
    BY <2>14 DEF ClearPf, Moves, GoTo
  <2>15. CASE ClearEv(t)
    BY <2>15 DEF ClearEv, Moves, GoTo, After
  <2> QED BY <1>6, <2>1, <2>2, <2>3, <2>4, <2>5, <2>6, <2>7, <2>8, <2>9, <2>10, <2>11,
             <2>12, <2>13, <2>14, <2>15 DEF Apply
<1>7. ASSUME NEW n \in Runs, Search(n) PROVE UNCHANGED <<al, pf>>
  <2>1. CASE SearchFails(n)
    BY <2>1 DEF SearchFails, Moves, GoTo
  <2>2. CASE Adopted(n)
    BY <2>2 DEF Adopted, Moves, GoTo
  <2>3. CASE NotAdopted(n)
    BY <2>3 DEF NotAdopted, Moves, GoTo
  <2>4. CASE PublishAl(n)
    BY <2>4 DEF PublishAl, Moves, GoTo
  <2>5. CASE PublishPf(n)
    BY <2>5 DEF PublishPf, Moves, GoTo
  <2>6. CASE PublishEv(n)
    BY <2>6 DEF PublishEv, Moves, GoTo
  <2>7. CASE Reject(n)
    BY <2>7 DEF Reject, Moves, GoTo
  <2>8. CASE Take(n)
    BY <2>8 DEF Take, Moves, GoTo
  <2>9. CASE SetAl(n)
    BY <2>9 DEF SetAl, Moves, GoTo
  <2>10. CASE SetPf(n)
    BY <2>10 DEF SetPf, Moves, GoTo
  <2>11. CASE TakeRaises(n)
    BY <2>11 DEF TakeRaises, GoTo
  <2>12. CASE Finish(n)
    BY <2>12 DEF Finish, Moves, GoTo
  <2>13. CASE Reschedule(n)
    BY <2>13 DEF Reschedule, Moves, GoTo
  <2> QED BY <1>7, <2>1, <2>2, <2>3, <2>4, <2>5, <2>6, <2>7, <2>8, <2>9, <2>10, <2>11,
             <2>12, <2>13 DEF Search
<1>8. CASE UNCHANGED vars BY <1>8 DEF vars
<1> QED BY <1>1, <1>2, <1>3, <1>4, <1>5, <1>6, <1>7, <1>8, Steps

(* No parameter changes while a tick is being processed. *)
THEOREM StillDuringTickHolds == Spec => StillDuringTick
<1>1. IInv /\ [Next]_vars => [pc[TickThread] = "process" => UNCHANGED <<al, pf>>]_vars
  BY StillStep DEF IInv
<1> QED BY <1>1, Invariance, PTL DEF Spec, StillDuringTick

(* A parameter is replaced by a pending one or by the last search's. *)
LEMMA ForwardStep ==
    ASSUME Types, Single, Ordered, Latest, [Next]_vars
    PROVE  al' >= al /\ pf' >= pf
<1> USE ReoptAssumption DEF Thread, TickThread, Free, None, params, pend, sched, Types,
        Versions, Single, Ordered, Latest, Active, Started
<1>1. CASE Tick
  BY <1>1 DEF Tick, Moves, GoTo
<1>2. CASE StartOptimization
  BY <1>2 DEF StartOptimization, GoTo, NextRun
<1>3. CASE EnterTick
  BY <1>3 DEF EnterTick, Moves, GoTo
<1>4. CASE LeaveTick
  BY <1>4 DEF LeaveTick, Moves, GoTo
<1>5. CASE TimeComes
  BY <1>5 DEF TimeComes
<1>6. ASSUME NEW t \in Thread, Apply(t) PROVE al' >= al /\ pf' >= pf
  <2>1. CASE Check(t)
    BY <2>1 DEF Check, Moves, GoTo, After
  <2>2. CASE Acquire(t)
    BY <2>2 DEF Acquire, Moves, GoTo
  <2>3. CASE TestAl(t)
    BY <2>3 DEF TestAl, Moves, GoTo
  <2>4. CASE UseAl(t)
    BY <2>4 DEF UseAl, GoTo, Raise, Handler
  <2>5. CASE NoteAl(t)
    BY <2>5 DEF NoteAl, GoTo, Raise, Handler
  <2>6. CASE TestPf(t)
    BY <2>6 DEF TestPf, Moves, GoTo
  <2>7. CASE UsePf(t)
    BY <2>7 DEF UsePf, GoTo, Raise, Handler
  <2>8. CASE NotePf(t)
    BY <2>8 DEF NotePf, GoTo, Raise, Handler
  <2>9. CASE Mark(t)
    BY <2>9 DEF Mark, Moves, GoTo
  <2>10. CASE TestEv(t)
    BY <2>10 DEF TestEv, Moves, GoTo
  <2>11. CASE ApplyRaises(t)
    BY <2>11 DEF ApplyRaises, GoTo, Handler
  <2>12. CASE MarkFails(t)
    BY <2>12 DEF MarkFails, Moves, GoTo, Handler
  <2>13. CASE ClearAl(t)
    BY <2>13 DEF ClearAl, Moves, GoTo
  <2>14. CASE ClearPf(t)
    BY <2>14 DEF ClearPf, Moves, GoTo
  <2>15. CASE ClearEv(t)
    BY <2>15 DEF ClearEv, Moves, GoTo, After
  <2> QED BY <1>6, <2>1, <2>2, <2>3, <2>4, <2>5, <2>6, <2>7, <2>8, <2>9, <2>10, <2>11,
             <2>12, <2>13, <2>14, <2>15 DEF Apply
<1>7. ASSUME NEW n \in Runs, Search(n) PROVE al' >= al /\ pf' >= pf
  <2>1. CASE SearchFails(n)
    BY <2>1 DEF SearchFails, Moves, GoTo
  <2>2. CASE Adopted(n)
    BY <2>2 DEF Adopted, Moves, GoTo
  <2>3. CASE NotAdopted(n)
    BY <2>3 DEF NotAdopted, Moves, GoTo
  <2>4. CASE PublishAl(n)
    BY <2>4 DEF PublishAl, Moves, GoTo
  <2>5. CASE PublishPf(n)
    BY <2>5 DEF PublishPf, Moves, GoTo
  <2>6. CASE PublishEv(n)
    BY <2>6 DEF PublishEv, Moves, GoTo
  <2>7. CASE Reject(n)
    BY <2>7 DEF Reject, Moves, GoTo
  <2>8. CASE Take(n)
    BY <2>8 DEF Take, Moves, GoTo
  <2>9. CASE SetAl(n)
    BY <2>9 DEF SetAl, Moves, GoTo
  <2>10. CASE SetPf(n)
    BY <2>10 DEF SetPf, Moves, GoTo
  <2>11. CASE TakeRaises(n)
    BY <2>11 DEF TakeRaises, GoTo
  <2>12. CASE Finish(n)
    BY <2>12 DEF Finish, Moves, GoTo
  <2>13. CASE Reschedule(n)
    BY <2>13 DEF Reschedule, Moves, GoTo
  <2> QED BY <1>7, <2>1, <2>2, <2>3, <2>4, <2>5, <2>6, <2>7, <2>8, <2>9, <2>10, <2>11,
             <2>12, <2>13 DEF Search
<1>8. CASE UNCHANGED vars BY <1>8 DEF vars
<1> QED BY <1>1, <1>2, <1>3, <1>4, <1>5, <1>6, <1>7, <1>8, Steps

(* Late or repeated application never brings back an older search. *)
THEOREM NeverBackHolds == Spec => NeverBack
<1>1. IInv /\ [Next]_vars => [al' >= al /\ pf' >= pf]_vars
  BY ForwardStep DEF IInv
<1> QED BY <1>1, Invariance, PTL DEF Spec, NeverBack

=============================================================================
