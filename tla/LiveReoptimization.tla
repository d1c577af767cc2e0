-------------------------- MODULE LiveReoptimization --------------------------
(***************************************************************************)
(* A live engine that searches for better parameters in the background     *)
(* while it trades: SelfOptimizingLiveEngine (mode "self") and             *)
(* LiveWalkForwardEngine under its three adoption policies.  Thread 0      *)
(* handles ticks, one at a time; thread n is the n-th search, started by   *)
(* the tick that finds one due.  The threads share plain attributes and    *)
(* one lock, which is held while a tick is processed and while parameters  *)
(* change hands, but not where they are published, recorded or cleared.    *)
(* Every access to a shared attribute that another thread may come between *)
(* is a step.  The parameters that search n found are the number n, for    *)
(* the algorithm and for the portfolio; 0 are the configured ones.         *)
(***************************************************************************)
EXTENDS Integers, FiniteSets

CONSTANTS
    Modes,  \* configurations to explore
    Runs    \* 1..n; bounds the searches of a session

ASSUME ReoptAssumption ==
    /\ Modes \subseteq {"self", "immediate", "next_optimization_boundary", "when_flat"}
    /\ Runs \subseteq Nat \ {0}

VARIABLES
    mode,        \* which engine, and its adoption_policy
    al, pf,      \* parameters the algorithm and the portfolio run with
    torn,        \* the last reconfiguration ended in an exception of theirs
    pendAl, pendPf, pendEv, \* _pending_algo_params, _pf_params, _event_id
    optimizing,  \* _is_optimizing
    due,         \* now >= _next_optimization_time
    flat,        \* the portfolio holds no position
    lock,        \* thread that holds _hpo_lock / _wf_lock, or Free
    pc,          \* where each thread is
    event        \* status of the optimization_events document of each search

params == <<al, pf, torn>>
pend == <<pendAl, pendPf, pendEv>>
sched == <<optimizing, due>>
vars == <<mode, params, pend, sched, flat, lock, pc, event>>

None == 0 \* no pending parameters, no pending event
Free == -1
TickThread == 0
Thread == {TickThread} \cup Runs
Versions == {0} \cup Runs
Applying == {"acquire", "testAl", "useAl", "noteAl", "testPf", "usePf", "notePf"}
PC == {"idle", "check", "mark", "record", "clearAl", "clearPf", "clearEv"} \cup Applying
      \cup {"schedule", "enter", "process"}
      \cup {"search", "publishAl", "publishPf", "publishEv", "reject", "take",
            "setAl", "setPf", "finish", "reschedule", "done"}

Init ==
    /\ mode \in Modes
    /\ al = 0 /\ pf = 0 /\ torn = FALSE
    /\ pendAl = None /\ pendPf = None /\ pendEv = None
    /\ optimizing = FALSE /\ due = FALSE /\ flat = TRUE
    /\ lock = Free
    /\ pc = [t \in Thread |-> "idle"]
    /\ event = [n \in Runs |-> "none"]

GoTo(t, place) == pc' = [pc EXCEPT ![t] = place]
Moves(t, from, to) == pc[t] = from /\ GoTo(t, to)

-----------------------------------------------------------------------------
(* _maybe_apply_pending_params, which the tick thread calls on every tick  *)
(* and, under the policy immediate, a search as well.                      *)

CanApply ==
    CASE mode = "immediate" -> TRUE
      [] mode = "next_optimization_boundary" -> due
      [] mode = "when_flat" -> flat
      [] OTHER -> FALSE

(* Where its caller goes on, and where an exception takes it: the tick is  *)
(* lost, a search ends.                                                    *)
After(t) == IF t = TickThread THEN "schedule" ELSE "finish"
BugRetry(t) == "check"
Handler(t) == IF t = TickThread THEN "idle" ELSE "finish"

Check(t) ==
    /\ Moves(t, "check", IF (pendAl # None \/ pendPf # None) /\ CanApply
                         THEN "acquire" ELSE After(t))
    /\ UNCHANGED <<mode, params, pend, sched, flat, lock, event>>

BugNoLock(t) ==
    /\ Moves(t, "acquire", "testAl")
    /\ UNCHANGED <<mode, params, pend, sched, flat, lock, event>>

Acquire(t) ==
    /\ Moves(t, "acquire", "testAl")
    /\ lock = Free /\ lock' = t
    /\ UNCHANGED <<mode, params, pend, sched, flat, event>>

(* A pending attribute is read three times: to test it, to reconfigure     *)
(* with it and to note it as current.  None is not a mapping: using it     *)
(* raises, and the with statement releases the lock.                       *)
TestAl(t) ==
    /\ Moves(t, "testAl", IF pendAl # None THEN "useAl" ELSE "testPf")
    /\ UNCHANGED <<mode, params, pend, sched, flat, lock, event>>

TestPf(t) ==
    /\ \/ pendPf # None /\ Moves(t, "testPf", "usePf") /\ UNCHANGED lock
       \/ pendPf = None /\ Moves(t, "testPf", "mark") /\ lock' = Free
    /\ UNCHANGED <<mode, params, pend, sched, flat, event>>

Raise(t) ==
    /\ GoTo(t, Handler(t)) /\ lock' = Free
    /\ UNCHANGED params

UseAl(t) ==
    /\ pc[t] = "useAl"
    /\ IF pendAl = None THEN Raise(t)
       ELSE al' = pendAl /\ GoTo(t, "noteAl") /\ UNCHANGED <<pf, torn, lock>>
    /\ UNCHANGED <<mode, pend, sched, flat, event>>

UsePf(t) ==
    /\ pc[t] = "usePf"
    /\ IF pendPf = None THEN Raise(t)
       ELSE /\ pf' = pendPf /\ torn' = FALSE
            /\ GoTo(t, "notePf") /\ UNCHANGED <<al, lock>>
    /\ UNCHANGED <<mode, pend, sched, flat, event>>

NoteAl(t) ==
    /\ pc[t] = "noteAl"
    /\ IF pendAl = None THEN Raise(t)
       ELSE GoTo(t, "testPf") /\ UNCHANGED <<params, lock>>
    /\ UNCHANGED <<mode, pend, sched, flat, event>>

NotePf(t) ==
    /\ pc[t] = "notePf"
    /\ IF pendPf = None THEN Raise(t)
       ELSE GoTo(t, "mark") /\ lock' = Free /\ UNCHANGED params
    /\ UNCHANGED <<mode, pend, sched, flat, event>>

(* An application's reconfigure may itself raise, with its parameters taken *)
(* over or not.  The with statement releases the lock, what was pending    *)
(* stays pending, and a search just ends.                                  *)
ApplyRaises(t) ==
    /\ \/ pc[t] = "useAl" /\ pendAl # None /\ al' \in {al, pendAl} /\ UNCHANGED pf
       \/ pc[t] = "usePf" /\ pendPf # None /\ pf' \in {pf, pendPf} /\ UNCHANGED al
    /\ torn' = TRUE
    /\ GoTo(t, Handler(t)) /\ lock' = Free
    /\ UNCHANGED <<mode, pend, sched, flat, event>>

(* Without the lock: if an event is pending, record the activation of the  *)
(* one that is pending by then, which the store may refuse, and forget     *)
(* what was pending.                                                       *)
TestEv(t) ==
    /\ Moves(t, "mark", IF pendEv # None THEN "record" ELSE "clearAl")
    /\ UNCHANGED <<mode, params, pend, sched, flat, lock, event>>

Mark(t) ==
    /\ Moves(t, "record", "clearAl")
    /\ event' = [n \in Runs |-> IF n = pendEv THEN "activated" ELSE event[n]]
    /\ UNCHANGED <<mode, params, pend, sched, flat, lock>>

MarkFails(t) ==
    /\ Moves(t, "record", Handler(t))
    /\ UNCHANGED <<mode, params, pend, sched, flat, lock, event>>

ClearAl(t) ==
    /\ Moves(t, "clearAl", "clearPf")
    /\ pendAl' = None
    /\ UNCHANGED <<mode, params, pendPf, pendEv, sched, flat, lock, event>>

ClearPf(t) ==
    /\ Moves(t, "clearPf", "clearEv")
    /\ pendPf' = None
    /\ UNCHANGED <<mode, params, pendAl, pendEv, sched, flat, lock, event>>

ClearEv(t) ==
    /\ Moves(t, "clearEv", After(t))
    /\ pendEv' = None
    /\ UNCHANGED <<mode, params, pendAl, pendPf, sched, flat, lock, event>>

Apply(t) == \/ Check(t) \/ Acquire(t) \/ TestAl(t) \/ UseAl(t) \/ NoteAl(t)
            \/ TestPf(t) \/ UsePf(t) \/ NotePf(t) \/ TestEv(t) \/ Mark(t)
            \/ MarkFails(t) \/ ApplyRaises(t) \/ ClearAl(t) \/ ClearPf(t) \/ ClearEv(t)

-----------------------------------------------------------------------------
(* The tick thread: _wrapped_on_tick.                                      *)

Tick ==
    /\ Moves(TickThread, "idle", IF mode = "self" THEN "schedule" ELSE "check")
    /\ UNCHANGED <<mode, params, pend, sched, flat, lock, event>>

NextRun == {n \in Runs : /\ pc[n] = "idle"
                         /\ \A k \in Runs : pc[k] = "idle" => n <= k}

BugFlagInThread ==
    /\ pc[TickThread] = "schedule"
    /\ IF ~optimizing /\ due /\ NextRun # {}
       THEN \E n \in NextRun :
               pc' = [pc EXCEPT ![TickThread] = "enter", ![n] = "search"]
       ELSE GoTo(TickThread, "enter")
    /\ UNCHANGED <<mode, params, pend, sched, flat, lock, event>>

StartOptimization ==
    /\ pc[TickThread] = "schedule"
    /\ IF ~optimizing /\ due /\ NextRun # {}
       THEN /\ optimizing' = TRUE
            /\ \E n \in NextRun :
                  pc' = [pc EXCEPT ![TickThread] = "enter", ![n] = "search"]
       ELSE GoTo(TickThread, "enter") /\ UNCHANGED optimizing
    /\ UNCHANGED <<mode, params, pend, due, flat, lock, event>>

EnterTick ==
    /\ Moves(TickThread, "enter", "process")
    /\ lock = Free /\ lock' = TickThread
    /\ UNCHANGED <<mode, params, pend, sched, flat, event>>

(* The inner engine's on_tick returns or throws; it may have traded. *)
LeaveTick ==
    /\ Moves(TickThread, "process", "idle")
    /\ lock' = Free /\ flat' \in BOOLEAN
    /\ UNCHANGED <<mode, params, pend, sched, event>>

-----------------------------------------------------------------------------
(* A search: _run_optimization.  It fails, or it is decided whether its    *)
(* parameters are adopted; the walk-forward engine stores the decision.    *)

SearchFails(n) ==
    /\ Moves(n, "search", "finish")
    /\ UNCHANGED <<mode, params, pend, sched, flat, lock, event>>

Adopted(n) ==
    /\ Moves(n, "search", IF mode = "self" THEN "take" ELSE "publishAl")
    /\ event' = IF mode = "self" THEN event
                ELSE [event EXCEPT ![n] = "pending_activation"]
    /\ UNCHANGED <<mode, params, pend, sched, flat, lock>>

BugPublishEvaluated(n) ==
    /\ Moves(n, "search", IF mode = "self" THEN "finish" ELSE "publishAl")
    /\ event' = IF mode = "self" THEN event
                ELSE [event EXCEPT ![n] = "evaluated"]
    /\ UNCHANGED <<mode, params, pend, sched, flat, lock>>

NotAdopted(n) ==
    /\ Moves(n, "search", IF mode = "self" THEN "finish" ELSE "reject")
    /\ event' = IF mode = "self" THEN event
                ELSE [event EXCEPT ![n] = "evaluated"]
    /\ UNCHANGED <<mode, params, pend, sched, flat, lock>>

(* Without the lock: three assignments. *)
PublishAl(n) ==
    /\ Moves(n, "publishAl", "publishPf")
    /\ pendAl' = n
    /\ UNCHANGED <<mode, params, pendPf, pendEv, sched, flat, lock, event>>

PublishPf(n) ==
    /\ Moves(n, "publishPf", "publishEv")
    /\ pendPf' = n
    /\ UNCHANGED <<mode, params, pendAl, pendEv, sched, flat, lock, event>>

PublishEv(n) ==
    /\ Moves(n, "publishEv", IF mode = "immediate" THEN "check" ELSE "finish")
    /\ pendEv' = n
    /\ UNCHANGED <<mode, params, pendAl, pendPf, sched, flat, lock, event>>

Reject(n) ==
    /\ Moves(n, "reject", "finish")
    /\ event' \in {event, [event EXCEPT ![n] = "rejected"]} \* or the store fails
    /\ UNCHANGED <<mode, params, pend, sched, flat, lock>>

(* The self-optimizing engine reconfigures from the search, under the lock. *)
Take(n) ==
    /\ Moves(n, "take", "setAl")
    /\ lock = Free /\ lock' = n
    /\ UNCHANGED <<mode, params, pend, sched, flat, event>>

BugReleaseBetween(n) ==
    /\ Moves(n, "setAl", "setPf")
    /\ al' = n /\ lock' = Free
    /\ UNCHANGED <<mode, pf, torn, pend, sched, flat, event>>

SetAl(n) ==
    /\ Moves(n, "setAl", "setPf")
    /\ al' = n
    /\ UNCHANGED <<mode, pf, torn, pend, sched, flat, lock, event>>

BugKeepsLock(n) ==
    /\ Moves(n, "setPf", "finish")
    /\ pf' = n /\ torn' = FALSE
    /\ UNCHANGED <<mode, al, pend, sched, flat, lock, event>>

SetPf(n) ==
    /\ Moves(n, "setPf", "finish")
    /\ pf' = n /\ torn' = FALSE /\ lock' = Free
    /\ UNCHANGED <<mode, al, pend, sched, flat, event>>

TakeRaises(n) ==
    /\ \/ pc[n] = "setAl" /\ al' \in {al, n} /\ UNCHANGED pf
       \/ pc[n] = "setPf" /\ pf' \in {pf, n} /\ UNCHANGED al
    /\ torn' = TRUE
    /\ GoTo(n, "finish") /\ lock' = Free
    /\ UNCHANGED <<mode, pend, sched, flat, event>>

Finish(n) ==
    /\ Moves(n, "finish", "reschedule")
    /\ optimizing' = FALSE
    /\ UNCHANGED <<mode, params, pend, due, flat, lock, event>>

Reschedule(n) ==
    /\ Moves(n, "reschedule", "done")
    /\ due' = FALSE
    /\ UNCHANGED <<mode, params, pend, optimizing, flat, lock, event>>

Search(n) == \/ SearchFails(n) \/ Adopted(n) \/ NotAdopted(n)
             \/ PublishAl(n) \/ PublishPf(n) \/ PublishEv(n) \/ Reject(n)
             \/ Take(n) \/ SetAl(n) \/ SetPf(n) \/ TakeRaises(n)
             \/ Finish(n) \/ Reschedule(n)

-----------------------------------------------------------------------------
(* The clock reaches _next_optimization_time. *)
TimeComes ==
    /\ ~due /\ due' = TRUE
    /\ UNCHANGED <<mode, params, pend, optimizing, flat, lock, pc, event>>

OnTick == Apply(TickThread) \/ StartOptimization \/ EnterTick \/ LeaveTick
Run(n) == Apply(n) \/ Search(n)
Next == Tick \/ OnTick \/ TimeComes \/ \E n \in Runs : Run(n)

(* Threads run, and a search that finds the lock free again and again gets *)
(* it between two ticks; nothing is promised about ticks or the clock.     *)
Fairness == WF_vars(OnTick) /\ \A n \in Runs : SF_vars(Run(n))
Spec == Init /\ [][Next]_vars /\ Fairness

-----------------------------------------------------------------------------
Inside(t) == pc[t] \in (Applying \ {"acquire"}) \cup {"process", "setAl", "setPf"}

(* Every variable has its type, and the holder of the lock is inside it. *)
TypeOK ==
    /\ mode \in Modes /\ al \in Versions /\ pf \in Versions /\ torn \in BOOLEAN
    /\ pendAl \in Versions /\ pendPf \in Versions /\ pendEv \in Versions
    /\ optimizing \in BOOLEAN /\ due \in BOOLEAN /\ flat \in BOOLEAN
    /\ lock \in {Free} \cup Thread /\ pc \in [Thread -> PC]
    /\ event \in [Runs -> {"none", "pending_activation", "evaluated",
                           "activated", "rejected"}]
    /\ \A t \in Thread : lock = t <=> Inside(t)

(* One search at a time, from its start to the end of its bookkeeping but  *)
(* for the last assignment, although the flag is tested without the lock.  *)
OneSearch ==
    Cardinality({n \in Runs : pc[n] \notin {"idle", "reschedule", "done"}}) <= 1

(* "on_tick acquires the same lock to ensure no tick is processed          *)
(* mid-reconfigure" (self_optimizing_live_engine.py:58-60): parameters do  *)
(* not change while a tick is processed, under any policy.                 *)
StillDuringTick == [][pc[TickThread] = "process" => UNCHANGED <<al, pf>>]_vars

(* The self-optimizing engine trades on a pair that one search found: no   *)
(* tick comes between the two halves, and a pair that an exception of an   *)
(* application tore lasts until a search reconfigures both again.          *)
WholePair == mode = "self" /\ pc[TickThread] = "process" => al = pf \/ torn

(* Parameters of an older search never replace those of a newer one,       *)
(* however late they are applied and whoever applies them.                 *)
NeverBack == [][al' >= al /\ pf' >= pf]_vars

(* The walk-forward engine trades on nothing that a decision did not       *)
(* approve, not even on a half of it.                                      *)
OnlyApproved ==
    mode # "self" =>
        \A n \in Runs : n \in {al, pf, pendAl, pendPf, pendEv} =>
                            event[n] \in {"pending_activation", "activated"}

(* No tick and no search waits for ever, whatever raises in between.       *)
TicksEnd == pc[TickThread] # "idle" ~> pc[TickThread] = "idle"
SearchesEnd == \A n \in Runs : pc[n] # "idle" ~> pc[n] = "done"

(* "applies walk-forward validation before reconfiguration"                *)
(* (live_walk_forward_engine.py:23): what a tick is processed with has     *)
(* been validated together.  It need not: a tick between the assignments   *)
(* of a search adopts the algorithm's half and clears the other, although  *)
(* no application raised.                                                  *)
ValidatedPair ==
    mode # "self" /\ pc[TickThread] = "process" => al = pf \/ torn

=============================================================================
