----------------------------- MODULE AsyncEngine -----------------------------
(***************************************************************************)
(* The asynchronous live engine: bars of a reconnecting WebSocket stream   *)
(* go into an asyncio.Queue, one worker task takes them out and runs       *)
(* on_tick in a background thread, stop() disconnects, waits for the queue *)
(* to drain and cancels the worker.  A step is what runs between two       *)
(* awaits.                                                                 *)
(*                                                                         *)
(* After Ctrl-C the worker, or the debug monitor when no ticks flow, opens *)
(* a prompt.  Its quit command raises SystemExit, which nobody catches in  *)
(* the worker: the event loop is torn down with whatever is queued.  The   *)
(* monitor keeps it for start() to raise.                                  *)
(*                                                                         *)
(* The engine lives in one of two settings.  With owner = "program" an     *)
(* asyncio program awaits start() and stop() in one event loop.  With      *)
(* owner = "run" the synchronous run() owns the loop - when start()        *)
(* returns asyncio.run cancels the tasks that are left and waits for the   *)
(* background thread - and finalize() runs stop() in a loop of its own.    *)
(***************************************************************************)
EXTENDS Naturals, Sequences

CONSTANT MaxTicks \* bars the stream delivers in its life; bounds the run

ASSUME EngineAssumption == MaxTicks \in Nat

VARIABLES
    owner,      \* whose event loop it is; never changes
    queue,      \* _queue
    unfinished, \* ticks put and not yet marked task_done
    worker,     \* _worker_task; "prompt" is the debug REPL after a tick
    thread,     \* the tick on_tick is running with, as a sequence of 0 or 1
    stream,     \* _run_forever: "down" connects or waits to connect again
    told,       \* the stream was asked to stop
    main,       \* start()
    exit,       \* _debug_exit_exc is set
    torn,       \* an exception tore the event loop down
    stopping,   \* stop()
    sent,       \* number of ticks submitted; the n-th tick is n
    atStop,     \* sent when stop() was called
    handled     \* ticks on_tick is done with, whether it returned or raised

vars == <<owner, queue, unfinished, worker, thread, stream, told, main, exit,
          torn, stopping, sent, atStop, handled>>

TypeOK ==
    /\ owner \in {"program", "run"}
    /\ queue \in Seq(1..MaxTicks) /\ handled \in Seq(1..MaxTicks)
    /\ thread \in {<<>>} \cup {<<t>> : t \in 1..MaxTicks}
    /\ unfinished \in Nat
    /\ worker \in {"none", "waiting", "running", "prompt", "gone"}
    /\ stream \in {"off", "down", "up", "closed", "failed"}
    /\ main \in {"new", "streaming", "returned", "raised"}
    /\ stopping \in {"no", "joining", "drained", "done", "canceled"}
    /\ told \in BOOLEAN /\ exit \in BOOLEAN /\ torn \in BOOLEAN
    /\ sent \in 0..MaxTicks /\ atStop \in 0..MaxTicks

Init ==
    /\ owner \in {"program", "run"}
    /\ queue = <<>> /\ handled = <<>> /\ thread = <<>>
    /\ unfinished = 0
    /\ worker = "none" /\ stream = "off" /\ main = "new" /\ stopping = "no"
    /\ told = FALSE /\ exit = FALSE /\ torn = FALSE
    /\ sent = 0 /\ atStop = 0

-----------------------------------------------------------------------------
(* start() spawns the worker and awaits _connect(), which raises or goes   *)
(* over to the stream.                                                     *)
Start ==
    /\ main = "new" /\ stopping = "no"
    /\ main' = "streaming" /\ worker' = "waiting" /\ stream' \in {"down", "failed"}
    /\ UNCHANGED <<owner, queue, unfinished, thread, told, exit, torn, stopping, sent,
                   atStop, handled>>

-----------------------------------------------------------------------------
(* The stream *)

OnlyStream ==
    UNCHANGED <<owner, queue, unfinished, worker, thread, told, main, exit, torn,
                stopping, sent, atStop, handled>>

(* It connects, perhaps although it was told to stop in the meantime. *)
StreamConnects == stream = "down" /\ stream' = "up" /\ OnlyStream

(* The connection is lost: it waits and tries again. *)
StreamFails == stream = "up" /\ stream' = "down" /\ OnlyStream

(* It ends: it was told to stop and sees it after a bar or a delay, or the *)
(* subscription is refused.                                                *)
StreamEnds == stream \in {"up", "down"} /\ stream' = "closed" /\ OnlyStream

(* submit_tick, called by the stream's handler.  A stream that was told to *)
(* stop may still deliver what it has received.                            *)
SubmitTick ==
    /\ stream = "up" /\ sent < MaxTicks
    /\ sent' = sent + 1
    /\ queue' = Append(queue, sent + 1)
    /\ unfinished' = unfinished + 1
    /\ UNCHANGED <<owner, worker, thread, stream, told, main, exit, torn, stopping,
                   atStop, handled>>

-----------------------------------------------------------------------------
(* The worker.  The Bug... variants of an action, each standing before it, *)
(* are used to show that the properties can fail.                          *)

BugFireAndForget ==
    /\ worker = "waiting" /\ queue # <<>>
    /\ thread' = <<Head(queue)>> /\ queue' = Tail(queue)
    /\ UNCHANGED <<owner, unfinished, worker, stream, told, main, exit, torn,
                   stopping, sent, atStop, handled>>

(* _worker: get() returns and to_thread starts on_tick. *)
WorkerTakes ==
    /\ worker = "waiting" /\ queue # <<>>
    /\ worker' = "running"
    /\ thread' = <<Head(queue)>> /\ queue' = Tail(queue)
    /\ UNCHANGED <<owner, unfinished, stream, told, main, exit, torn, stopping, sent,
                   atStop, handled>>


(* on_tick returns or raises: the worker logs an exception, calls          *)
(* task_done and, unless Ctrl-C has asked for the prompt, waits again.     *)
(* Nobody waits for a thread whose worker was canceled.                    *)
OnTickEnds ==
    /\ thread # <<>>
    /\ handled' = handled \o thread /\ thread' = <<>>
    /\ IF worker = "running"
       THEN worker' \in {"waiting", "prompt"} /\ unfinished' = unfinished - 1
       ELSE UNCHANGED <<worker, unfinished>>
    /\ UNCHANGED <<owner, queue, stream, told, main, exit, torn, stopping, sent, atStop>>

(* The prompt is left and trading goes on. *)
PromptEnds ==
    /\ worker = "prompt" /\ worker' = "waiting"
    /\ UNCHANGED <<owner, queue, unfinished, thread, stream, told, main, exit, torn,
                   stopping, sent, atStop, handled>>

-----------------------------------------------------------------------------
BugCancelKeepsCount ==
    /\ worker' = (IF worker = "none" THEN "none" ELSE "gone")
    /\ UNCHANGED unfinished

(* Canceling the worker: at get() it just ends; at to_thread its finally   *)
(* clause still counts the tick, although the thread goes on.              *)
CancelWorker ==
    /\ worker' = (IF worker = "none" THEN "none" ELSE "gone")
    /\ unfinished' = IF worker = "running" THEN unfinished - 1 ELSE unfinished

(* The end of an event loop cancels every task that is left: a stop() that *)
(* waits, and the worker.                                                  *)
TearDown ==
    /\ torn' = TRUE
    /\ CancelWorker
    /\ stopping' = IF stopping \in {"joining", "drained"} THEN "canceled" ELSE stopping

(* quit at the worker's prompt: SystemExit leaves the task and the loop.   *)
WorkerQuits ==
    /\ worker = "prompt"
    /\ TearDown
    /\ IF main = "streaming" THEN main' = "raised" /\ stream' = "closed"
       ELSE UNCHANGED <<main, stream>>
    /\ UNCHANGED <<owner, queue, thread, told, exit, sent, atStop, handled>>

(* quit at the monitor's prompt: _debug_monitor keeps the exception and    *)
(* disconnects.                                                            *)
DebugQuit ==
    /\ main = "streaming" /\ stream # "failed" /\ stopping # "done" /\ ~exit
    /\ exit' = TRUE /\ told' = TRUE
    /\ UNCHANGED <<owner, queue, unfinished, worker, thread, stream, main, torn,
                   stopping, sent, atStop, handled>>

(* _connect() returns, so start() does, and asyncio.run ends its loop. *)
StartReturns ==
    /\ main = "streaming" /\ stream = "closed" /\ ~exit
    /\ main' = "returned"
    /\ IF owner = "run" THEN CancelWorker ELSE UNCHANGED <<worker, unfinished>>
    /\ UNCHANGED <<owner, queue, thread, stream, told, exit, torn, stopping, sent,
                   atStop, handled>>

(* _connect() has raised, or start() raises what the monitor kept.  A      *)
(* program may catch it, and its loop lives on.                            *)
StartRaises ==
    /\ main = "streaming" /\ (stream = "failed" \/ (stream = "closed" /\ exit))
    /\ main' = "raised" /\ exit' = FALSE
    /\ \/ TearDown
       \/ owner = "program" /\ UNCHANGED <<torn, worker, unfinished, stopping>>
    /\ UNCHANGED <<owner, queue, thread, stream, told, sent, atStop, handled>>

-----------------------------------------------------------------------------
(* stop(): _disconnect, then queue.join(). *)
Stop ==
    /\ stopping = "no"
    /\ IF owner = "run" THEN main \in {"returned", "raised"} /\ thread = <<>>
       ELSE main # "new"
    /\ stopping' = "joining" /\ atStop' = sent /\ told' = TRUE
    /\ UNCHANGED <<owner, queue, unfinished, worker, thread, stream, main, exit, torn,
                   sent, handled>>

BugJoinEmptyQueue ==
    /\ stopping = "joining" /\ queue = <<>>
    /\ stopping' = "drained"
    /\ UNCHANGED <<owner, queue, unfinished, worker, thread, stream, told, main, exit,
                   torn, sent, atStop, handled>>

JoinReturns ==
    /\ stopping = "joining" /\ unfinished = 0
    /\ stopping' = "drained"
    /\ UNCHANGED <<owner, queue, unfinished, worker, thread, stream, told, main, exit,
                   torn, sent, atStop, handled>>

StopReturns ==
    /\ stopping = "drained"
    /\ stopping' = "done"
    /\ CancelWorker
    /\ UNCHANGED <<owner, queue, thread, stream, told, main, exit, torn, sent, atStop,
                   handled>>

Next ==
    \/ Start \/ StreamConnects \/ StreamFails \/ StreamEnds \/ SubmitTick
    \/ WorkerTakes \/ OnTickEnds \/ PromptEnds \/ WorkerQuits \/ DebugQuit
    \/ StartReturns \/ StartRaises \/ Stop \/ JoinReturns \/ StopReturns

(* The event loop runs every task that is ready, on_tick ends, a prompt is *)
(* answered, and a stream that was told to stop does.  Nothing forces      *)
(* bars, a connection, a stop() or the end of a healthy stream.            *)
Fairness ==
    /\ WF_vars(WorkerTakes) /\ WF_vars(OnTickEnds) /\ WF_vars(PromptEnds \/ WorkerQuits)
    /\ WF_vars(told /\ StreamEnds)
    /\ WF_vars(StartReturns) /\ WF_vars(StartRaises)
    /\ WF_vars(JoinReturns) /\ WF_vars(StopReturns)

Spec == Init /\ [][Next]_vars /\ Fairness

-----------------------------------------------------------------------------
(* Properties *)

(* join() waits for the right thing: the count of unfinished ticks is the  *)
(* queue plus the tick a live worker is busy with, also after a            *)
(* cancellation in the middle of a tick (base_engine.py:595-605).          *)
CountIsExact ==
    unfinished = Len(queue) + (IF worker = "running" THEN 1 ELSE 0)

(* One tick at a time, in arrival order, none lost and none twice: what    *)
(* was handled, what is being handled and what waits are together exactly  *)
(* the ticks submitted (base_engine.py:401-404).                           *)
InOrder == handled \o thread \o queue = [n \in 1..sent |-> n]

(* stop() returns only when every tick submitted before it was called has  *)
(* been handled (base_engine.py:529-531) - or, in a loop that is torn      *)
(* down, is at least under way in the thread nobody can cancel.            *)
StopDrains ==
    stopping = "done" =>
        \/ Len(handled) >= atStop
        \/ torn /\ Len(handled) + Len(thread) >= atStop



(* finalize(): "Disconnects from the data source, drains remaining ticks   *)
(* in the queue, and cancels the worker task" (base_engine.py:520-521).    *)
FinalizeTerminates ==
    (stopping = "joining" /\ owner = "run") ~> (stopping = "done")
=============================================================================
