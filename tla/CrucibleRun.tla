------------------------------ MODULE CrucibleRun ------------------------------
(***************************************************************************)
(* One run of the algo crucible: CrucibleOrchestrator's stages over a      *)
(* CrucibleStateStore, driven by the platform runner.  A command names     *)
(* stages and whether to rerun them; a single process takes them in order. *)
(* A stage whose stage_summary.json exists is skipped, else it reads the   *)
(* artifacts of earlier stages, writes its own one by one and then updates *)
(* the run's status.  The process may die between any two writes, and a    *)
(* run kept in MLflow may be continued on a host with an empty cache.      *)
(*                                                                         *)
(* An artifact is a version number: the attempt of the stage that wrote    *)
(* it, 0 if there is none.  Only artifacts that some stage reads are kept. *)
(* What the artifacts say (candidates, scores, verdicts) is left out: the  *)
(* search finds candidates and some survive every stage.  So are the jobs  *)
(* of a stage: a stage that raises is a process that dies before a write.  *)
(***************************************************************************)
EXTENDS Integers, Sequences, SequencesExt

CONSTANTS
    Backends,   \* state_store.backend: "local", "mlflow" or both
    Commands,   \* sequences of stages the operator may ask for
    MaxCrashes, \* bound on the processes that die
    MaxExtras,  \* bound on commands other than a plain full run
    MaxMoves    \* bound on changes of host

Full == <<"hpo", "walk_forward_oos", "regime_gate", "plateau",
          "cross_instrument_transfer", "perturbation", "structural_break_stability",
          "execution_realism_stress", "monte_carlo", "confirmation">>
Stages == ToSet(Full) \cup {"paper_replay"}

ASSUME CrucibleAssumption ==
    /\ Backends \subseteq {"local", "mlflow"}
    /\ Commands \subseteq Seq(Stages) \ {<<>>}
    /\ MaxCrashes \in Nat /\ MaxExtras \in Nat /\ MaxMoves \in Nat

Marker(s) == <<s, "stage_summary">>
Trials == <<"hpo", "hpo_trial_summary">>
Oos == <<"walk_forward_oos", "oos_summary">>
Regimes == <<"walk_forward_oos", "regime_inputs">>
Decisions == <<"regime_gate", "regime_gate_summary">>
Streams == <<"perturbation", "return_streams">>
Frozen == <<"confirmation", "frozen_candidates">>
Packet == <<"confirmation", "promotion_packet">>
Summary(s) == <<s, "summary">>
Survivors == {"cross_instrument_transfer", "structural_break_stability",
              "execution_realism_stress", "monte_carlo"}

\* The artifacts of each stage in the order in which they are written.
HpoWrites == <<Marker("hpo"), Trials>>
BugMarkerBeforeInputs == <<Oos, Marker("walk_forward_oos"), Regimes>>
OosWrites == <<Oos, Regimes, Marker("walk_forward_oos")>>
GateWrites == <<Decisions, Marker("regime_gate")>>
PerturbationWrites == <<Streams, Summary("perturbation"), Marker("perturbation")>>
ConfirmationWrites == <<Summary("confirmation"), Marker("confirmation"), Frozen, Packet>>

Writes(s) ==
    CASE s = "hpo" -> HpoWrites
      [] s = "walk_forward_oos" -> OosWrites
      [] s = "regime_gate" -> GateWrites
      [] s = "perturbation" -> PerturbationWrites
      [] s = "confirmation" -> ConfirmationWrites
      [] OTHER -> <<Summary(s), Marker(s)>>

Outputs(s) == ToSet(Writes(s))
Artifacts == UNION {Outputs(s) : s \in Stages}

\* Without these the stage raises FileNotFoundError.
Required(s) ==
    CASE s = "regime_gate" -> {Oos, Regimes}
      [] s = "plateau" -> {Trials}
      [] s \in {"cross_instrument_transfer", "perturbation"} -> {Summary("plateau"), Trials}
      [] s = "confirmation" -> {Summary("perturbation"), Trials}
      [] s = "paper_replay" -> {Frozen}
      [] OTHER -> {}

\* These it does without: the walk-forward stage validates the configured
\* candidate, a stream stage analyses no rows, confirmation skips a filter.
Optional(s) ==
    CASE s = "walk_forward_oos" -> {Trials}
      [] s = "plateau" -> {Decisions}
      [] s \in {"structural_break_stability", "execution_realism_stress", "monte_carlo"} -> {Streams}
      [] s = "confirmation" -> {Summary(t) : t \in Survivors}
      [] OTHER -> {}

Inputs(s) == Required(s) \cup Optional(s)

\* read_artifact_json falls back to a download; CSV files and the frozen
\* candidates are opened in the local run directory only.
Downloadable == {Marker(s) : s \in Stages} \cup {Regimes, Packet}

VARIABLES
    backend,    \* which state store
    dir,        \* the run directory exists on this host
    status,     \* the run's registered status, "none" before it is registered
    local,      \* artifacts in the run directory
    remote,     \* artifacts uploaded to MLflow
    basis,      \* input versions behind the stage_summary of each stage
    todo,       \* stages left for the running process, <<>> if none runs
    rerun,      \* its --rerun flag
    phase, pos, \* where it is in Head(todo); artifacts written
    reading,    \* the inputs the stage under way has read
    torn,       \* "yes" once a milestone was asked for by itself or a full rerun
                \* was cut short, until a full rerun, "underway", has ended
    crashes, extras, moves

store == <<dir, status, local, remote, basis>>
process == <<todo, rerun, phase, pos, reading>>
vars == <<backend, store, process, torn, crashes, extras, moves>>

Init ==
    /\ backend \in Backends
    /\ dir = FALSE /\ status = "none"
    /\ local = [f \in Artifacts |-> 0] /\ remote = [f \in Artifacts |-> 0]
    /\ basis = [s \in Stages |-> [f \in Inputs(s) |-> 0]]
    /\ todo = <<>> /\ rerun = FALSE /\ phase = "start" /\ pos = 0 /\ reading = <<>>
    /\ torn = "no"
    /\ crashes = 0 /\ extras = 0 /\ moves = 0

stage == Head(todo)
Seen(f) == IF f \in Downloadable /\ local[f] = 0 THEN remote[f] ELSE local[f]
Newest(f) == IF local[f] = 0 THEN remote[f] ELSE local[f]

\* The stage's early return, --rerun aside.
Skippable(s) ==
    /\ Seen(Marker(s)) # 0
    /\ s = "confirmation" => Seen(Packet) # 0

(* --- The command line --- *)

Issue(command, again) ==
    /\ todo = <<>>
    /\ command # Full \/ again => extras < MaxExtras
    /\ extras' = extras + (IF command # Full \/ again THEN 1 ELSE 0)
    /\ todo' = command /\ rerun' = again
    /\ torn' = IF command # Full THEN "yes" ELSE IF again THEN "underway" ELSE torn
    /\ UNCHANGED <<backend, store, phase, pos, reading, crashes, moves>>

\* The process ends before its last stage does.
Ended == todo' = <<>> /\ rerun' = FALSE /\ phase' = "start" /\ pos' = 0 /\ reading' = <<>>
Abort == Ended /\ torn' = IF torn = "underway" THEN "yes" ELSE torn

\* execute_crucible goes on to the next requested stage with the same flag.
BugRerunsFirstOnly ==
    IF Len(todo) = 1
    THEN Ended /\ torn' = IF torn = "underway" THEN "no" ELSE torn
    ELSE /\ todo' = Tail(todo) /\ phase' = "start" /\ pos' = 0 /\ reading' = <<>>
         /\ rerun' = FALSE
         /\ UNCHANGED torn
Advance ==
    IF Len(todo) = 1
    THEN Ended /\ torn' = IF torn = "underway" THEN "no" ELSE torn
    ELSE /\ todo' = Tail(todo) /\ phase' = "start" /\ pos' = 0 /\ reading' = <<>>
         /\ UNCHANGED <<rerun, torn>>

(* --- start_or_resume --- *)

\* The paper replay always resumes.
Refused == status = "complete" /\ ~rerun /\ stage # "paper_replay"

RunAlreadyComplete ==
    /\ todo # <<>> /\ phase = "start" /\ Refused
    /\ Abort
    /\ UNCHANGED <<backend, store, crashes, extras, moves>>

\* A new run begins with its directory; the local store insists on making it.
MakeDir ==
    /\ todo # <<>> /\ phase = "start" /\ status = "none"
    /\ backend = "local" => ~dir
    /\ dir' = TRUE /\ phase' = "register"
    /\ UNCHANGED <<backend, status, local, remote, basis, todo, rerun, pos, reading, torn,
                   crashes, extras, moves>>

DirExists ==
    /\ todo # <<>> /\ phase = "start" /\ status = "none"
    /\ backend = "local" /\ dir
    /\ Abort
    /\ UNCHANGED <<backend, store, crashes, extras, moves>>

\* The local manifest is written, or the MLflow run is started with its tags.
Register ==
    /\ phase = "register"
    /\ status' = "running" /\ phase' = "start"
    /\ UNCHANGED <<backend, dir, local, remote, basis, todo, rerun, pos, reading, torn,
                   crashes, extras, moves>>

(* --- A stage --- *)

Resumed == todo # <<>> /\ phase = "start" /\ status # "none" /\ ~Refused

Skip ==
    /\ Resumed /\ ~rerun /\ Skippable(stage)
    /\ Advance
    /\ UNCHANGED <<backend, store, crashes, extras, moves>>

InputMissing ==
    /\ Resumed /\ (rerun \/ ~Skippable(stage))
    /\ \E f \in Required(stage) : Seen(f) = 0
    /\ Abort
    /\ UNCHANGED <<backend, store, crashes, extras, moves>>

\* The stage reads its inputs and computes; nothing is visible yet.  Left
\* out are two inputs of the regime gate: the result files of the single jobs
\* in the run's own directory, which are as local as the summary and missed
\* no earlier than it, and those of other runs' directories (the baseline).
Compute ==
    /\ Resumed /\ (rerun \/ ~Skippable(stage))
    /\ \A f \in Required(stage) : Seen(f) # 0
    /\ reading' = [f \in Inputs(stage) |-> Seen(f)]
    /\ phase' = "write" /\ pos' = 1
    /\ UNCHANGED <<backend, store, todo, rerun, torn, crashes, extras, moves>>

artifact == Writes(stage)[pos]

\* The stage's first write takes the next version, its others the same.
Version == IF pos = 1 THEN 1 + Newest(artifact) ELSE local[Writes(stage)[1]]

\* Having written and, with MLflow, uploaded an artifact.
BugWritesPastEnd ==
    IF pos > Len(Writes(stage))
    THEN phase' = "finish" /\ UNCHANGED pos
    ELSE phase' = "write" /\ pos' = pos + 1
Written ==
    IF pos = Len(Writes(stage))
    THEN phase' = "finish" /\ UNCHANGED pos
    ELSE phase' = "write" /\ pos' = pos + 1

Write ==
    /\ phase = "write"
    /\ local' = [local EXCEPT ![artifact] = Version]
    /\ basis' = IF artifact = Marker(stage) THEN [basis EXCEPT ![stage] = reading] ELSE basis
    /\ IF backend = "local" THEN Written ELSE phase' = "upload" /\ UNCHANGED pos
    /\ UNCHANGED <<backend, dir, status, remote, todo, rerun, reading, torn,
                   crashes, extras, moves>>

Upload ==
    /\ phase = "upload"
    /\ remote' = [remote EXCEPT ![artifact] = local[artifact]]
    /\ Written
    /\ UNCHANGED <<backend, dir, status, local, basis, todo, rerun, reading, torn,
                   crashes, extras, moves>>

\* update_run: confirmation completes the run, every other stage reopens it.
BugNeverComplete ==
    /\ phase = "finish"
    /\ status' = IF stage = "paper_replay" THEN "replayed" ELSE "running"
    /\ Advance
    /\ UNCHANGED <<backend, dir, local, remote, basis, crashes, extras, moves>>
UpdateRun ==
    /\ phase = "finish"
    /\ status' = CASE stage = "confirmation" -> "complete"
                   [] stage = "paper_replay" -> "replayed"
                   [] OTHER -> "running"
    /\ Advance
    /\ UNCHANGED <<backend, dir, local, remote, basis, crashes, extras, moves>>

(* --- Faults --- *)

\* The process dies, or a worker's failure makes the stage raise.
Crash ==
    /\ todo # <<>> /\ crashes < MaxCrashes
    /\ crashes' = crashes + 1
    /\ Abort
    /\ UNCHANGED <<backend, store, extras, moves>>

\* The run goes on elsewhere, with the MLflow registry and an empty cache.
Move ==
    /\ backend = "mlflow" /\ todo = <<>> /\ moves < MaxMoves
    /\ moves' = moves + 1
    /\ dir' = FALSE /\ local' = [f \in Artifacts |-> 0]
    /\ UNCHANGED <<backend, status, remote, basis, process, torn, crashes, extras>>

StartOrResume == RunAlreadyComplete \/ MakeDir \/ DirExists \/ Register
RunStage == Skip \/ InputMissing \/ Compute \/ Write \/ Upload \/ UpdateRun
Driver == StartOrResume \/ RunStage

Next ==
    \/ \E command \in Commands, again \in BOOLEAN : Issue(command, again)
    \/ Driver
    \/ Crash
    \/ Move

\* A process that lives goes on; the operator asks again for the full run.
Spec == Init /\ [][Next]_vars /\ WF_vars(Driver) /\ WF_vars(Issue(Full, FALSE))

-----------------------------------------------------------------------------

\* State is well formed: a process is at a stage it may be at, with the inputs
\* that stage reads; nothing is stored before the run is registered.
TypeOK ==
    /\ backend \in {"local", "mlflow"} /\ dir \in BOOLEAN
    /\ status \in {"none", "running", "complete", "replayed"}
    /\ local \in [Artifacts -> Nat] /\ remote \in [Artifacts -> Nat]
    /\ \A s \in Stages : basis[s] \in [Inputs(s) -> Nat]
    /\ todo \in Seq(Stages) /\ rerun \in BOOLEAN
    /\ phase \in {"start", "register", "write", "upload", "finish"}
    /\ todo = <<>> => phase = "start" /\ ~rerun
    /\ phase \in {"write", "upload", "finish"} =>
           pos \in 1..Len(Writes(stage)) /\ reading \in [Inputs(stage) -> Nat]
    /\ torn \in {"no", "underway", "yes"}
    /\ crashes \in 0..MaxCrashes /\ extras \in 0..MaxExtras /\ moves \in 0..MaxMoves
    /\ status = "none" => \A f \in Artifacts : Newest(f) = 0
    /\ backend = "local" => \A f \in Artifacts : remote[f] = 0

\* A stage that would be skipped left everything the later stages open,
\* whenever its process died.  The search is the exception: its summary comes
\* first, and a search that dies after it starves the plateau (see Trapped).
SkippedIsWhole ==
    \A s \in Stages \ {"hpo"} : Skippable(s) => \A f \in Outputs(s) : Newest(f) # 0

\* The summary of a stage, its artifacts and the artifacts it was computed
\* from belong together.
Consistent(s) ==
    /\ \A f \in Outputs(s) : Newest(f) \in {0, Newest(Marker(s))}
    /\ \A f \in Inputs(s) : basis[s][f] = Newest(f)

\* On one host, under full runs, every stage that would be skipped rests on
\* the artifacts there are: resuming after a crash mixes no two attempts, and
\* a full rerun to its end repairs what single milestones or a rerun cut
\* short have mixed.  The paper replay, which no full run includes, is not
\* covered.
FreshUnlessRerun ==
    torn = "no" /\ moves = 0 => \A s \in ToSet(Full) : Skippable(s) => Consistent(s)

\* The states no plain command leaves.  The directory of a run that was never
\* registered; a stage to do whose input is missing while the stage that makes
\* it is skipped, be it that the search died after its summary or that a CSV
\* stayed behind on another host; a confirmed run whose status was never set.
LockedOut == backend = "local" /\ dir /\ status = "none"
Starved(s) ==
    /\ ~Skippable(s)
    /\ \E f \in Required(s) : Seen(f) = 0 /\ Skippable(f[1])
NeverClosed == status = "running" /\ Skippable("confirmation")
Trapped == LockedOut \/ NeverClosed \/ \E s \in ToSet(Full) : Starved(s)

\* An operator who keeps asking for the full run sees it end, or finds it in
\* one of the named traps, and never in one if no process died, the host
\* stayed and only full runs were asked for.
EndsUnlessTrapped ==
    <>[](\/ status \in {"complete", "replayed"}
         \/ Trapped /\ (crashes + moves > 0 \/ torn = "yes"))
=============================================================================
