--------------------------- MODULE CrucibleRunProofs ---------------------------
(***************************************************************************)
(* A crucible run under any number of crashes, moves and reruns: what a    *)
(* stage has written when its last artifact is there, and on one host that *)
(* resuming mixes no two attempts.                                         *)
(***************************************************************************)
EXTENDS CrucibleRun, SequenceTheorems, TLAPS

Underway == phase \in {"write", "upload", "finish"}
Place(s) == 1..Len(Writes(s))
Final(s) == Writes(s)[Len(Writes(s))]

Types == TypeOK /\ basis = [s \in Stages |-> basis[s]]

(* What the stage under way has written and uploaded so far. *)
Progress ==
    /\ phase = "upload" => backend = "mlflow"
    /\ Underway =>
        /\ status # "none"
        /\ \A i \in Place(stage) :
            /\ i < pos \/ phase = "finish" \/ (phase = "upload" /\ i = pos)
                   => local[Writes(stage)[i]] # 0
            /\ backend = "mlflow" /\ (i < pos \/ phase = "finish")
                   => remote[Writes(stage)[i]] # 0

(* The last artifact of a stage, here or uploaded, vouches for all. *)
Whole ==
    \A s \in Stages :
        /\ local[Final(s)] # 0 => \A i \in Place(s) : local[Writes(s)[i]] # 0
        /\ remote[Final(s)] # 0 => \A i \in Place(s) : remote[Writes(s)[i]] # 0

IInv == Types /\ Progress /\ Whole

-----------------------------------------------------------------------------
(* The stages, one by one. *)
LEMMA StagesAre ==
    Stages = {"hpo", "walk_forward_oos", "regime_gate", "plateau",
              "cross_instrument_transfer", "perturbation", "structural_break_stability",
              "execution_realism_stress", "monte_carlo", "confirmation", "paper_replay"}
<1>1. Len(Full) = 10 /\ DOMAIN Full = 1..10 BY DEF Full
<1>2. 1..10 = {1, 2, 3, 4, 5, 6, 7, 8, 9, 10} OBVIOUS
<1>3. ToSet(Full) = {Full[i] : i \in {1, 2, 3, 4, 5, 6, 7, 8, 9, 10}}
  BY <1>1, <1>2 DEF ToSet
<1> QED BY <1>3 DEF Stages, Full

(* Every stage has between two and four artifacts, its own. *)
LEMMA WritesShape ==
    ASSUME NEW s \in Stages
    PROVE  /\ Len(Writes(s)) \in {2, 3, 4}
           /\ DOMAIN Writes(s) = 1..Len(Writes(s))
           /\ \A i \in Place(s) : Writes(s)[i][1] = s
           /\ \A i, j \in Place(s) : Writes(s)[i] = Writes(s)[j] => i = j
<1> USE DEF Writes, Place, HpoWrites, OosWrites, GateWrites, PerturbationWrites,
        ConfirmationWrites, Marker, Summary, Trials, Oos, Regimes, Decisions, Streams,
        Frozen, Packet
<1>1. CASE s = "hpo" BY <1>1
<1>2. CASE s = "walk_forward_oos" BY <1>2
<1>3. CASE s = "regime_gate" BY <1>3
<1>4. CASE s = "perturbation" BY <1>4
<1>5. CASE s = "confirmation" BY <1>5
<1>6. CASE s \notin {"hpo", "walk_forward_oos", "regime_gate", "perturbation", "confirmation"}
  <2>1. Writes(s) = <<<<s, "summary">>, <<s, "stage_summary">>>> BY <1>6
  <2> HIDE DEF Writes
  <2> QED BY <2>1
<1> QED BY <1>1, <1>2, <1>3, <1>4, <1>5, <1>6

LEMMA OutputsAre ==
    ASSUME NEW s \in Stages
    PROVE  Outputs(s) = {Writes(s)[i] : i \in Place(s)}
BY WritesShape DEF Outputs, ToSet, Place

LEMMA WritesAreArtifacts ==
    ASSUME NEW s \in Stages, NEW i \in Place(s)
    PROVE  Writes(s)[i] \in Artifacts
BY OutputsAre DEF Artifacts

(* No two stages write the same artifact. *)
LEMMA OneWriter ==
    ASSUME NEW s \in Stages, NEW t \in Stages, NEW i \in Place(s), NEW j \in Place(t),
           Writes(s)[i] = Writes(t)[j]
    PROVE  s = t /\ i = j
<1>1. s = t BY WritesShape
<1> QED BY <1>1, WritesShape

LEMMA InputsAreArtifacts ==
    ASSUME NEW s \in Stages
    PROVE  Inputs(s) \subseteq Artifacts
<1>1. /\ Trials \in Outputs("hpo")
      /\ Oos \in Outputs("walk_forward_oos") /\ Regimes \in Outputs("walk_forward_oos")
      /\ Decisions \in Outputs("regime_gate")
      /\ Streams \in Outputs("perturbation")
      /\ Frozen \in Outputs("confirmation")
  <2>1. /\ HpoWrites[2] = Trials /\ OosWrites[1] = Oos /\ OosWrites[2] = Regimes
        /\ GateWrites[1] = Decisions /\ PerturbationWrites[1] = Streams
        /\ ConfirmationWrites[3] = Frozen
    BY DEF HpoWrites, OosWrites, GateWrites, PerturbationWrites, ConfirmationWrites
  <2>2. /\ Len(HpoWrites) = 2 /\ Len(OosWrites) = 3 /\ Len(GateWrites) = 2
        /\ Len(PerturbationWrites) = 3 /\ Len(ConfirmationWrites) = 4
    BY DEF HpoWrites, OosWrites, GateWrites, PerturbationWrites, ConfirmationWrites
  <2>3. /\ Writes("hpo") = HpoWrites /\ Writes("walk_forward_oos") = OosWrites
        /\ Writes("regime_gate") = GateWrites
        /\ Writes("perturbation") = PerturbationWrites
        /\ Writes("confirmation") = ConfirmationWrites
    BY DEF Writes
  <2>4. /\ "hpo" \in Stages /\ "walk_forward_oos" \in Stages /\ "regime_gate" \in Stages
        /\ "perturbation" \in Stages /\ "confirmation" \in Stages
    BY StagesAre
  <2> QED BY <2>1, <2>2, <2>3, <2>4, OutputsAre DEF Place
<1>2. \A t \in Survivors \cup {"plateau", "perturbation"} : Summary(t) \in Outputs(t)
  <2>1. "perturbation" \in Stages /\ Writes("perturbation") = PerturbationWrites
        /\ Len(PerturbationWrites) = 3 /\ PerturbationWrites[2] = Summary("perturbation")
    BY StagesAre DEF Writes, PerturbationWrites
  <2>2. ASSUME NEW t \in Survivors \cup {"plateau"} PROVE Summary(t) \in Outputs(t)
    <3>1. t \in Stages /\ Writes(t) = <<Summary(t), Marker(t)>>
      BY StagesAre DEF Writes, Survivors
    <3> QED BY <3>1, OutputsAre DEF Place
  <2> QED BY <2>1, <2>2, OutputsAre DEF Place
<1>3. Survivors \cup {"plateau", "perturbation", "hpo", "walk_forward_oos", "regime_gate",
                      "confirmation"} \subseteq Stages
  BY StagesAre DEF Survivors
<1> QED BY <1>1, <1>2, <1>3 DEF Inputs, Required, Optional, Artifacts

LEMMA FinalIsLast ==
    ASSUME NEW s \in Stages
    PROVE  /\ Len(Writes(s)) \in Place(s)
           /\ 1 \in Place(s)
           /\ Final(s) \in Artifacts
           /\ Place(s) \subseteq Nat \ {0}
           /\ Len(Writes(s)) \in Nat
<1>1. Len(Writes(s)) \in {2, 3, 4} BY WritesShape
<1> QED BY <1>1, WritesAreArtifacts DEF Place, Final

LEMMA StageOfTodo ==
    ASSUME todo \in Seq(Stages), todo # <<>>
    PROVE  /\ stage \in Stages
           /\ Tail(todo) \in Seq(Stages)
           /\ Len(todo) # 1 => Tail(todo) # <<>>
<1>1. /\ Head(todo) \in Stages /\ Tail(todo) \in Seq(Stages)
      /\ Len(todo) \in Nat /\ Len(todo) # 0 /\ Len(Tail(todo)) = Len(todo) - 1
  BY HeadTailProperties, EmptySeq, LenProperties
<1>2. Len(todo) # 1 => Len(Tail(todo)) # 0 BY <1>1
<1> QED BY <1>1, <1>2, EmptySeq DEF stage

-----------------------------------------------------------------------------
LEMMA InitIInv == ASSUME Init PROVE IInv
<1> USE DEF Init
<1>1. Types
  <2>1. \A s \in Stages : basis[s] \in [Inputs(s) -> Nat] OBVIOUS
  <2>2. \A f \in Artifacts : Newest(f) = 0 /\ remote[f] = 0 BY DEF Newest
  <2>3. todo \in Seq(Stages) BY EmptySeq
  <2>4. basis = [s \in Stages |-> basis[s]]
    <3>1. \A s \in Stages : basis[s] = [f \in Inputs(s) |-> 0] OBVIOUS
    <3> QED BY <3>1
  <2>5. /\ backend \in {"local", "mlflow"}
        /\ crashes \in 0..MaxCrashes /\ extras \in 0..MaxExtras /\ moves \in 0..MaxMoves
    BY CrucibleAssumption
  <2>6. local \in [Artifacts -> Nat] /\ remote \in [Artifacts -> Nat] OBVIOUS
  <2> QED BY <2>1, <2>2, <2>3, <2>4, <2>5, <2>6 DEF Types, TypeOK
<1>2. Progress BY DEF Progress, Underway
<1>3. Whole BY FinalIsLast DEF Whole
<1> QED BY <1>1, <1>2, <1>3 DEF IInv

(* The process goes on to another stage, or ends. *)
LEMMA Leaving ==
    ASSUME TypeOK, todo # <<>>, Advance \/ Abort
    PROVE  /\ todo' \in Seq(Stages) /\ rerun' \in BOOLEAN
           /\ phase' = "start" /\ (todo' = <<>> => ~rerun')
           /\ torn' \in {"no", "underway", "yes"}
<1>1. todo \in Seq(Stages) /\ rerun \in BOOLEAN /\ torn \in {"no", "underway", "yes"}
  BY DEF TypeOK
<1>2. Tail(todo) \in Seq(Stages) /\ (Len(todo) # 1 => Tail(todo) # <<>>)
  BY <1>1, StageOfTodo
<1>3. <<>> \in Seq(Stages) BY EmptySeq
<1>4. CASE Advance BY <1>1, <1>2, <1>3, <1>4 DEF Advance, Ended
<1>5. CASE Abort BY <1>1, <1>3, <1>5 DEF Abort, Ended
<1> QED BY <1>4, <1>5

(* A step that leaves the store alone and ends at the start of a stage. *)
LEMMA QuietStep ==
    ASSUME IInv, UNCHANGED <<backend, store>>,
           todo' \in Seq(Stages), rerun' \in BOOLEAN, phase' = "start",
           todo' = <<>> => ~rerun', torn' \in {"no", "underway", "yes"},
           crashes' \in 0..MaxCrashes, extras' \in 0..MaxExtras, moves' \in 0..MaxMoves
    PROVE  IInv'
<1> USE DEF store
<1>1. Types'
  <2>1. \A f \in Artifacts : Newest(f)' = Newest(f) BY DEF Newest
  <2> QED BY <2>1 DEF IInv, Types, TypeOK
<1>2. Progress' BY DEF Progress, Underway
<1>3. Whole' BY DEF IInv, Whole
<1> QED BY <1>1, <1>2, <1>3 DEF IInv

LEMMA LeavingStep ==
    ASSUME IInv, todo # <<>>, Advance \/ Abort, UNCHANGED <<backend, store, extras, moves>>,
           crashes' \in 0..MaxCrashes
    PROVE  IInv'
<1>1. TypeOK /\ extras' \in 0..MaxExtras /\ moves' \in 0..MaxMoves
  BY DEF IInv, Types, TypeOK
<1> QED BY <1>1, Leaving, QuietStep

LEMMA IssueStep ==
    ASSUME IInv, NEW command \in Commands, NEW again \in BOOLEAN, Issue(command, again)
    PROVE  IInv'
<1>1. TypeOK BY DEF IInv, Types
<1>2. command \in Seq(Stages) /\ command # <<>> /\ MaxExtras \in Nat
  BY CrucibleAssumption
<1>3. extras \in 0..MaxExtras /\ extras' \in 0..MaxExtras
  BY <1>1, <1>2 DEF TypeOK, Issue
<1>4. /\ todo' = command /\ rerun' = again /\ phase' = "start"
      /\ torn' \in {"no", "underway", "yes"}
      /\ crashes' \in 0..MaxCrashes /\ moves' \in 0..MaxMoves
  BY <1>1 DEF TypeOK, Issue
<1>5. UNCHANGED <<backend, store>> BY DEF Issue
<1> QED BY <1>2, <1>3, <1>4, <1>5, QuietStep

LEMMA RegistryStep ==
    ASSUME IInv, MakeDir \/ Register
    PROVE  IInv'
<1>1. TypeOK BY DEF IInv, Types
<1>2. \A f \in Artifacts : Newest(f)' = Newest(f) BY DEF MakeDir, Register, Newest
<1>3. Types'
  <2>1. CASE MakeDir BY <1>2, <2>1 DEF IInv, Types, TypeOK, MakeDir
  <2>2. CASE Register BY <1>2, <2>2 DEF IInv, Types, TypeOK, Register
  <2> QED BY <2>1, <2>2
<1>4. Progress' BY DEF Progress, Underway, MakeDir, Register
<1>5. Whole' BY DEF IInv, Whole, MakeDir, Register
<1> QED BY <1>3, <1>4, <1>5 DEF IInv

LEMMA ComputeStep ==
    ASSUME IInv, Compute
    PROVE  IInv'
<1>1. TypeOK /\ todo # <<>> /\ todo \in Seq(Stages) BY DEF IInv, Types, TypeOK, Compute, Resumed
<1>2. stage \in Stages /\ stage' = stage BY <1>1, StageOfTodo DEF Compute, stage
<1>3. reading' \in [Inputs(stage) -> Nat]
  <2>1. \A f \in Inputs(stage) : Seen(f) \in Nat
    BY <1>1, <1>2, InputsAreArtifacts DEF TypeOK, Seen
  <2> QED BY <2>1 DEF Compute
<1>4. \A f \in Artifacts : Newest(f)' = Newest(f) BY DEF Compute, store, Newest
<1>5. 1 \in Place(stage) BY <1>2, FinalIsLast
<1>6. Types'
  BY <1>1, <1>2, <1>3, <1>4, <1>5 DEF IInv, Types, TypeOK, Compute, store, Place
<1>7. Progress'
  <2>1. phase' = "write" /\ pos' = 1 /\ status' # "none" BY DEF Compute, store, Resumed
  <2>2. \A i \in Place(stage) : ~(i < 1) BY DEF Place
  <2> QED BY <1>2, <2>1, <2>2 DEF Progress, Underway
<1>8. Whole' BY DEF IInv, Whole, Compute, store
<1> QED BY <1>6, <1>7, <1>8 DEF IInv

(* After a write or an upload: the next place, or the end of the stage. *)
LEMMA WrittenTo ==
    ASSUME stage \in Stages, pos \in Place(stage), Written
    PROVE  /\ pos' \in Place(stage)
           /\ \/ phase' = "finish" /\ pos' = pos /\ pos = Len(Writes(stage))
              \/ phase' = "write" /\ pos' = pos + 1 /\ pos # Len(Writes(stage))
<1>1. Len(Writes(stage)) \in Nat BY FinalIsLast
<1> QED BY <1>1 DEF Written, Place

(* Where a stage under way is. *)
LEMMA UnderwayPlace ==
    ASSUME TypeOK, Underway
    PROVE  /\ todo # <<>> /\ stage \in Stages
           /\ pos \in Place(stage) /\ reading \in [Inputs(stage) -> Nat]
           /\ artifact \in Artifacts
<1>1. todo # <<>> /\ todo \in Seq(Stages) BY DEF TypeOK, Underway
<1>2. stage \in Stages BY <1>1, StageOfTodo
<1>3. pos \in Place(stage) /\ reading \in [Inputs(stage) -> Nat]
  BY DEF TypeOK, Underway, Place
<1> QED BY <1>1, <1>2, <1>3, WritesAreArtifacts DEF artifact

(* The final artifact of a stage is written when the others are. *)
LEMMA OnlyItsOwnFinal ==
    ASSUME NEW s \in Stages, NEW t \in Stages, NEW i \in Place(s),
           Writes(s)[i] = Final(t)
    PROVE  s = t /\ i = Len(Writes(s))
BY FinalIsLast, OneWriter DEF Final

LEMMA WriteStep ==
    ASSUME IInv, Write
    PROVE  IInv'
<1>1. TypeOK /\ Underway BY DEF IInv, Types, Write, Underway
<1>2. /\ todo # <<>> /\ stage \in Stages /\ pos \in Place(stage)
      /\ reading \in [Inputs(stage) -> Nat] /\ artifact \in Artifacts
  BY <1>1, UnderwayPlace
<1>3. status # "none" /\ \A i \in Place(stage) :
            /\ i < pos => local[Writes(stage)[i]] # 0
            /\ backend = "mlflow" /\ i < pos => remote[Writes(stage)[i]] # 0
  BY <1>1 DEF IInv, Progress
<1>4. Version \in Nat /\ Version # 0
  <2>1. CASE pos = 1
    BY <1>1, <1>2, <2>1 DEF Version, Newest, TypeOK
  <2>2. CASE pos # 1
    <3>1. 1 \in Place(stage) /\ 1 < pos BY <1>2, <2>2, FinalIsLast
    <3> QED BY <1>1, <1>2, <1>3, <2>2, <3>1, WritesAreArtifacts DEF Version, TypeOK
  <2> QED BY <2>1, <2>2
<1>5. /\ local' \in [Artifacts -> Nat] /\ local'[artifact] # 0
      /\ \A f \in Artifacts : local[f] # 0 => local'[f] # 0
      /\ \A f \in Artifacts \ {artifact} : local'[f] = local[f]
  BY <1>1, <1>2, <1>4 DEF TypeOK, Write
<1>6. stage' = stage /\ UNCHANGED <<backend, dir, status, remote, todo, rerun, reading, torn,
                                   crashes, extras, moves>>
  BY DEF Write, stage
<1>7. /\ pos' \in Place(stage)
      /\ \/ phase' = "finish" /\ pos' = pos /\ pos = Len(Writes(stage)) /\ backend = "local"
         \/ phase' = "write" /\ pos' = pos + 1 /\ pos # Len(Writes(stage)) /\ backend = "local"
         \/ phase' = "upload" /\ pos' = pos /\ backend # "local"
  BY <1>2, WrittenTo DEF Write
<1>8. Types'
  <2>1. /\ \A s \in Stages : basis'[s] \in [Inputs(s) -> Nat]
        /\ basis' = [s \in Stages |-> basis'[s]]
    <3>1. CASE basis' = basis BY <1>1, <3>1 DEF TypeOK, IInv, Types
    <3>2. CASE basis' = [basis EXCEPT ![stage] = reading]
      BY <1>1, <1>2, <3>2 DEF TypeOK, IInv, Types
    <3> QED BY <3>1, <3>2 DEF Write
  <2>2. status' # "none" BY <1>3, <1>6
  <2>3. phase' \in {"write", "upload", "finish"} /\ pos' \in 1..Len(Writes(stage'))
        /\ reading' \in [Inputs(stage') -> Nat]
    BY <1>2, <1>6, <1>7 DEF Place
  <2>4. todo' # <<>> BY <1>2, <1>6
  <2> QED BY <1>1, <1>5, <1>6, <2>1, <2>2, <2>3, <2>4 DEF TypeOK, Types
<1>9. Progress'
  <2>1. phase' = "upload" => backend' = "mlflow" BY <1>1, <1>6, <1>7 DEF TypeOK
  <2>2. ASSUME NEW i \in Place(stage),
               i < pos' \/ phase' = "finish" \/ (phase' = "upload" /\ i = pos')
        PROVE  local'[Writes(stage)[i]] # 0
    <3>1. i < pos \/ i = pos BY <1>2, <1>7, <2>2, FinalIsLast DEF Place
    <3>2. CASE i = pos BY <1>5, <3>2 DEF artifact
    <3>3. CASE i < pos BY <1>2, <1>3, <1>5, <3>3, WritesAreArtifacts
    <3> QED BY <3>1, <3>2, <3>3
  <2>3. ASSUME NEW i \in Place(stage), backend = "mlflow", i < pos' \/ phase' = "finish"
        PROVE  remote'[Writes(stage)[i]] # 0
    BY <1>3, <1>6, <1>7, <2>3
  <2> QED BY <1>3, <1>6, <2>1, <2>2, <2>3 DEF Progress
<1>10. Whole'
  <2>1. ASSUME NEW s \in Stages, local'[Final(s)] # 0, NEW i \in Place(s)
        PROVE  local'[Writes(s)[i]] # 0
    <3>1. CASE Final(s) = artifact
      <4>1. s = stage /\ pos = Len(Writes(stage)) BY <1>2, <3>1, OnlyItsOwnFinal DEF artifact
      <4>2. i < pos \/ i = pos BY <4>1, FinalIsLast DEF Place
      <4>3. CASE i = pos BY <1>5, <4>1, <4>3 DEF artifact
      <4>4. CASE i < pos BY <1>2, <1>3, <1>5, <4>1, <4>4, WritesAreArtifacts
      <4> QED BY <4>2, <4>3, <4>4
    <3>2. CASE Final(s) # artifact
      <4>1. local[Final(s)] # 0 BY <1>5, <2>1, <3>2, FinalIsLast
      <4> QED BY <1>5, <4>1, WritesAreArtifacts DEF IInv, Whole
    <3> QED BY <3>1, <3>2
  <2> QED BY <1>6, <2>1 DEF IInv, Whole
<1> QED BY <1>8, <1>9, <1>10 DEF IInv

LEMMA UploadStep ==
    ASSUME IInv, Upload
    PROVE  IInv'
<1>1. TypeOK /\ Underway /\ backend = "mlflow" BY DEF IInv, Types, Upload, Underway, Progress
<1>2. /\ todo # <<>> /\ stage \in Stages /\ pos \in Place(stage)
      /\ reading \in [Inputs(stage) -> Nat] /\ artifact \in Artifacts
  BY <1>1, UnderwayPlace
<1>3. status # "none" /\ \A i \in Place(stage) :
            /\ i < pos \/ i = pos => local[Writes(stage)[i]] # 0
            /\ i < pos => remote[Writes(stage)[i]] # 0
  BY <1>1 DEF IInv, Progress, Upload
<1>4. local[artifact] \in Nat /\ local[artifact] # 0
  BY <1>1, <1>2, <1>3 DEF TypeOK, artifact
<1>5. /\ remote' \in [Artifacts -> Nat] /\ remote'[artifact] # 0
      /\ \A f \in Artifacts : remote[f] # 0 => remote'[f] # 0
      /\ \A f \in Artifacts \ {artifact} : remote'[f] = remote[f]
  BY <1>1, <1>2, <1>4 DEF TypeOK, Upload
<1>6. stage' = stage /\ UNCHANGED <<backend, dir, status, local, basis, todo, rerun, reading, torn,
                                   crashes, extras, moves>>
  BY DEF Upload, stage
<1>7. /\ pos' \in Place(stage)
      /\ \/ phase' = "finish" /\ pos' = pos /\ pos = Len(Writes(stage))
         \/ phase' = "write" /\ pos' = pos + 1 /\ pos # Len(Writes(stage))
  BY <1>2, WrittenTo DEF Upload
<1>8. Types'
  <2>1. status' # "none" BY <1>3, <1>6
  <2>2. phase' \in {"write", "upload", "finish"} /\ pos' \in 1..Len(Writes(stage'))
        /\ reading' \in [Inputs(stage') -> Nat]
    BY <1>2, <1>6, <1>7 DEF Place
  <2>3. todo' # <<>> /\ backend' # "local" BY <1>1, <1>2, <1>6
  <2> QED BY <1>1, <1>5, <1>6, <2>1, <2>2, <2>3 DEF TypeOK, Types, IInv
<1>9. Progress'
  <2>1. ASSUME NEW i \in Place(stage), i < pos' \/ phase' = "finish"
        PROVE  local'[Writes(stage)[i]] # 0 /\ remote'[Writes(stage)[i]] # 0
    <3>1. i < pos \/ i = pos BY <1>2, <1>7, <2>1, FinalIsLast DEF Place
    <3>2. CASE i = pos BY <1>3, <1>5, <1>6, <3>2 DEF artifact
    <3>3. CASE i < pos BY <1>2, <1>3, <1>5, <1>6, <3>3, WritesAreArtifacts
    <3> QED BY <3>1, <3>2, <3>3
  <2> QED BY <1>3, <1>6, <1>7, <2>1 DEF Progress
<1>10. Whole'
  <2>1. ASSUME NEW s \in Stages, remote'[Final(s)] # 0, NEW i \in Place(s)
        PROVE  remote'[Writes(s)[i]] # 0
    <3>1. CASE Final(s) = artifact
      <4>1. s = stage /\ pos = Len(Writes(stage)) BY <1>2, <3>1, OnlyItsOwnFinal DEF artifact
      <4>2. i < pos \/ i = pos BY <4>1, FinalIsLast DEF Place
      <4>3. CASE i = pos BY <1>5, <4>1, <4>3 DEF artifact
      <4>4. CASE i < pos BY <1>2, <1>3, <1>5, <4>1, <4>4, WritesAreArtifacts
      <4> QED BY <4>2, <4>3, <4>4
    <3>2. CASE Final(s) # artifact
      <4>1. remote[Final(s)] # 0 BY <1>5, <2>1, <3>2, FinalIsLast
      <4> QED BY <1>5, <4>1, WritesAreArtifacts DEF IInv, Whole
    <3> QED BY <3>1, <3>2
  <2> QED BY <1>6, <2>1 DEF IInv, Whole
<1> QED BY <1>8, <1>9, <1>10 DEF IInv

LEMMA UpdateRunStep ==
    ASSUME IInv, UpdateRun
    PROVE  IInv'
<1>1. TypeOK /\ Underway BY DEF IInv, Types, UpdateRun, Underway
<1>2. todo # <<>> BY <1>1, UnderwayPlace
<1>3. /\ todo' \in Seq(Stages) /\ rerun' \in BOOLEAN
      /\ phase' = "start" /\ (todo' = <<>> => ~rerun')
      /\ torn' \in {"no", "underway", "yes"}
  BY <1>1, <1>2, Leaving DEF UpdateRun
<1>4. status' \in {"running", "complete", "replayed"}
      /\ UNCHANGED <<backend, dir, local, remote, basis, crashes, extras, moves>>
  BY DEF UpdateRun
<1>5. Types'
  <2>1. status' # "none" BY <1>4
  <2> QED BY <1>3, <1>4, <2>1 DEF IInv, Types, TypeOK
<1>6. Progress' BY <1>3 DEF Progress, Underway
<1>7. Whole' BY <1>4 DEF IInv, Whole
<1> QED BY <1>5, <1>6, <1>7 DEF IInv

LEMMA MoveStep ==
    ASSUME IInv, Move
    PROVE  IInv'
<1>1. TypeOK /\ phase = "start" BY DEF IInv, Types, TypeOK, Move
<1>2. local' = [f \in Artifacts |-> 0] /\ dir' = FALSE /\ backend = "mlflow"
      /\ UNCHANGED <<backend, status, remote, basis, todo, rerun, phase, pos, reading, torn,
                     crashes, extras>>
  BY DEF Move, process
<1>3. moves' \in 0..MaxMoves BY <1>1, CrucibleAssumption DEF TypeOK, Move
<1>4. Types'
  <2>1. status' = "none" => \A f \in Artifacts : Newest(f)' = 0
    BY <1>1, <1>2 DEF TypeOK, Newest
  <2>2. local' \in [Artifacts -> Nat] BY <1>2
  <2> QED BY <1>1, <1>2, <1>3, <2>1, <2>2 DEF IInv, Types, TypeOK
<1>5. Progress' BY <1>1, <1>2 DEF Progress, Underway
<1>6. Whole' BY <1>2, FinalIsLast DEF IInv, Whole
<1> QED BY <1>4, <1>5, <1>6 DEF IInv

LEMMA StepIInv ==
    ASSUME IInv, [Next]_vars
    PROVE  IInv'
<1>1. TypeOK BY DEF IInv, Types
<1>2. ASSUME NEW command \in Commands, NEW again \in BOOLEAN, Issue(command, again)
      PROVE  IInv'
  BY <1>2, IssueStep
<1>3. CASE RunAlreadyComplete \/ DirExists \/ Skip \/ InputMissing
  <2>1. /\ todo # <<>> /\ (Advance \/ Abort) /\ UNCHANGED <<backend, store, extras, moves>>
        /\ crashes' = crashes
    BY <1>3 DEF RunAlreadyComplete, DirExists, Skip, InputMissing, Resumed
  <2>2. crashes' \in 0..MaxCrashes BY <1>1, <2>1 DEF TypeOK
  <2> QED BY <2>1, <2>2, LeavingStep
<1>4. CASE Crash
  <2>1. todo # <<>> /\ (Advance \/ Abort) /\ UNCHANGED <<backend, store, extras, moves>>
    BY <1>4 DEF Crash
  <2>2. crashes' \in 0..MaxCrashes BY <1>1, <1>4, CrucibleAssumption DEF TypeOK, Crash
  <2> QED BY <2>1, <2>2, LeavingStep
<1>5. CASE MakeDir \/ Register BY <1>5, RegistryStep
<1>6. CASE Compute BY <1>6, ComputeStep
<1>7. CASE Write BY <1>7, WriteStep
<1>8. CASE Upload BY <1>8, UploadStep
<1>9. CASE UpdateRun BY <1>9, UpdateRunStep
<1>10. CASE Move BY <1>10, MoveStep
<1>11. CASE UNCHANGED vars
  <2>1. UNCHANGED <<backend, dir, status, local, remote, basis, todo, rerun, phase, pos, reading,
                    torn, crashes, extras, moves>>
    BY <1>11 DEF vars, store, process
  <2>2. stage' = stage /\ \A f \in Artifacts : Newest(f)' = Newest(f)
    BY <2>1 DEF stage, Newest
  <2>3. Types' BY <2>1, <2>2 DEF IInv, Types, TypeOK
  <2>4. Progress' BY <2>1, <2>2 DEF IInv, Progress, Underway
  <2>5. Whole' BY <2>1 DEF IInv, Whole
  <2> QED BY <2>3, <2>4, <2>5 DEF IInv
<1> QED
  BY <1>2, <1>3, <1>4, <1>5, <1>6, <1>7, <1>8, <1>9, <1>10, <1>11
  DEF Next, Driver, StartOrResume, RunStage

LEMMA AlwaysIInv == Spec => []IInv
<1>1. Init => IInv BY InitIInv
<1>2. IInv /\ [Next]_vars => IInv' BY StepIInv
<1> QED BY <1>1, <1>2, PTL DEF Spec

-----------------------------------------------------------------------------
(* The run's registry, artifacts and process stay well formed under any    *)
(* commands, crashes and moves: nothing is stored before the run is        *)
(* registered and a stage under way holds the inputs it reads.             *)
THEOREM Typed == Spec => []TypeOK
<1>1. IInv => TypeOK BY DEF IInv, Types
<1> QED BY <1>1, AlwaysIInv, PTL

(* Except for hpo and confirmation the stage's summary is written last. *)
LEMMA LastIsMarker ==
    ASSUME NEW s \in Stages \ {"hpo", "confirmation"}
    PROVE  Final(s) = Marker(s)
<1> USE DEF Final, Writes
<1>1. CASE s = "walk_forward_oos" BY <1>1 DEF OosWrites
<1>2. CASE s = "regime_gate" BY <1>2 DEF GateWrites
<1>3. CASE s = "perturbation" BY <1>3 DEF PerturbationWrites
<1>4. CASE s \notin {"walk_forward_oos", "regime_gate", "perturbation"}
  <2>1. Writes(s) = <<Summary(s), Marker(s)>> BY <1>4
  <2> HIDE DEF Writes
  <2> QED BY <2>1
<1> QED BY <1>1, <1>2, <1>3, <1>4

(* Whatever processes died, on whatever host: a stage that would be        *)
(* skipped has all its artifacts, the hpo stage excepted.                  *)
THEOREM SkippedIsWholeHolds == Spec => []SkippedIsWhole
<1>1. IInv => SkippedIsWhole
  <2> SUFFICES ASSUME IInv, NEW s \in Stages \ {"hpo"}, Skippable(s), NEW f \in Outputs(s)
               PROVE  Newest(f) # 0
    BY DEF SkippedIsWhole
  <2>1. Seen(Final(s)) # 0
    <3>1. CASE s = "confirmation"
      <4>1. Final(s) = Packet BY <3>1 DEF Final, Writes, ConfirmationWrites
      <4> QED BY <3>1, <4>1 DEF Skippable
    <3>2. CASE s # "confirmation" BY <3>2, LastIsMarker DEF Skippable
    <3> QED BY <3>1, <3>2
  <2>2. local[Final(s)] # 0 \/ remote[Final(s)] # 0 BY <2>1 DEF Seen
  <2>3. PICK i \in Place(s) : f = Writes(s)[i] BY OutputsAre
  <2>4. local[f] # 0 \/ remote[f] # 0 BY <2>2, <2>3 DEF IInv, Whole
  <2> QED BY <2>4 DEF Newest
<1> QED BY <1>1, AlwaysIInv, PTL

-----------------------------------------------------------------------------
(* Resuming mixes no two attempts *)

(* The stages of a full run by their place in it, and the one it is at. *)
Turn == 1..10
At == 11 - Len(todo)

(* On one host nothing is stored in MLflow that is not here too, so what a *)
(* stage would see is here: whether it would be skipped, and whether its   *)
(* artifacts belong together.                                              *)
Mirrored == \A f \in Artifacts : local[f] = 0 => remote[f] = 0

There(s) == local[Marker(s)] # 0 /\ (s = "confirmation" => local[Packet] # 0)

Fits(s) ==
    /\ \A f \in Outputs(s) : local[f] \in {0, local[Marker(s)]}
    /\ \A f \in Inputs(s) : basis[s][f] = local[f]

(* What the stage under way has written is of one version, and it has read *)
(* what is still there.                                                    *)
Wrote(i) == i < pos \/ phase = "finish" \/ (phase = "upload" /\ i = pos)

Attempt ==
    Underway =>
        /\ \A i \in Place(stage) : Wrote(i) =>
              /\ local[Writes(stage)[i]] = local[Writes(stage)[1]]
              /\ Writes(stage)[i] = Marker(stage) => basis[stage] = reading
        /\ \A f \in Inputs(stage) : reading[f] = local[f]

(* A process takes the stages of a full run in order, all of them or only  *)
(* those that are not there, and those behind it are in order.             *)
Course ==
    torn # "yes" /\ todo # <<>> =>
        /\ Len(todo) \in Turn /\ \A i \in 1..Len(todo) : todo[i] = Full[10 - Len(todo) + i]
        /\ rerun <=> torn = "underway"
        /\ \A k \in Turn : k < At => There(Full[k]) /\ Fits(Full[k])

(* Between reruns the stages that are there are the first ones, each in    *)
(* order; the one under way was not there, nor is any after it.            *)
Resting ==
    torn = "no" =>
        /\ \A k \in Turn : There(Full[k]) =>
              Fits(Full[k]) /\ \A j \in Turn : j < k => There(Full[j])
        /\ Underway =>
              /\ ~Wrote(Len(Writes(stage))) => local[Final(stage)] = 0
              /\ \A k \in Turn : k > At => ~There(Full[k])

Fresh ==
    /\ Mirrored /\ Attempt /\ Course /\ Resting
    /\ torn = "underway" => todo # <<>>

(* The stages in their order. *)
LEMMA TurnsAre ==
    /\ Len(Full) = 10 /\ Full \in Seq(Stages) /\ Full # <<>>
    /\ \A k \in Turn : Full[k] \in Stages
    /\ \A j, k \in Turn : Full[j] = Full[k] => j = k
    /\ \A s \in ToSet(Full) : \E k \in Turn : s = Full[k]
<1>1. /\ Full[1] = "hpo" /\ Full[2] = "walk_forward_oos" /\ Full[3] = "regime_gate"
      /\ Full[4] = "plateau" /\ Full[5] = "cross_instrument_transfer"
      /\ Full[6] = "perturbation" /\ Full[7] = "structural_break_stability"
      /\ Full[8] = "execution_realism_stress" /\ Full[9] = "monte_carlo"
      /\ Full[10] = "confirmation" /\ Len(Full) = 10 /\ DOMAIN Full = Turn
  BY DEF Full, Turn
<1>2. Turn = {1, 2, 3, 4, 5, 6, 7, 8, 9, 10} BY DEF Turn
<1>3. \A k \in Turn : Full[k] \in Stages BY <1>1, <1>2, StagesAre
<1>4. \A j, k \in Turn : Full[j] = Full[k] => j = k
  <2> HIDE DEF Full
  <2> QED BY <1>1, <1>2
<1>5. Full \in Seq(Stages) BY StagesAre DEF Full
<1>6. \A s \in ToSet(Full) : \E k \in Turn : s = Full[k] BY <1>1 DEF ToSet
<1>7. Full # <<>> BY <1>1
<1> QED BY <1>1, <1>3, <1>4, <1>5, <1>6, <1>7

(* A stage reads what an earlier stage wrote. *)
LEMMA InputsEarlier ==
    ASSUME NEW k \in Turn, NEW f \in Inputs(Full[k])
    PROVE  \E j \in Turn : j < k /\ f[1] = Full[j]
<1>1. /\ Full[1] = "hpo" /\ Full[2] = "walk_forward_oos" /\ Full[3] = "regime_gate"
      /\ Full[4] = "plateau" /\ Full[5] = "cross_instrument_transfer"
      /\ Full[6] = "perturbation" /\ Full[7] = "structural_break_stability"
      /\ Full[8] = "execution_realism_stress" /\ Full[9] = "monte_carlo"
      /\ Full[10] = "confirmation"
  BY DEF Full
<1>2. Turn = {1, 2, 3, 4, 5, 6, 7, 8, 9, 10} BY DEF Turn
<1> HIDE DEF Full
<1> USE DEF Inputs, Required, Optional, Survivors, Trials, Oos, Regimes, Decisions, Streams,
        Summary
<1>3. CASE k = 1 BY <1>1, <1>3
<1>4. CASE k \in {2, 3, 4} BY <1>1, <1>2, <1>4
<1>5. CASE k \in {5, 6} BY <1>1, <1>2, <1>5
<1>6. CASE k \in {7, 8, 9} BY <1>1, <1>2, <1>6
<1>7. CASE k = 10 BY <1>1, <1>2, <1>7
<1> QED BY <1>2, <1>3, <1>4, <1>5, <1>6, <1>7

(* And never its own. *)
LEMMA InputsForeign == ASSUME NEW s \in Stages, NEW f \in Inputs(s) PROVE f[1] # s
BY StagesAre DEF Inputs, Required, Optional, Survivors, Trials, Oos, Regimes, Decisions,
                 Streams, Summary, Frozen

(* The artifacts that decide whether a stage is there. *)
LEMMA MarkerIsOutput ==
    ASSUME NEW s \in Stages
    PROVE  /\ Marker(s) \in Outputs(s) /\ Outputs(s) \subseteq Artifacts
           /\ \A f \in Outputs(s) : f[1] = s
           /\ s = "confirmation" => Packet \in Outputs(s)
<1>1. \E i \in Place(s) : Writes(s)[i] = Marker(s)
  <2>1. CASE s = "hpo"
    <3>1. Writes(s)[1] = Marker(s) BY <2>1 DEF Writes, HpoWrites
    <3> QED BY <3>1, FinalIsLast
  <2>2. CASE s = "confirmation"
    <3>1. Writes(s)[2] = Marker(s) /\ Len(Writes(s)) = 4
      BY <2>2 DEF Writes, ConfirmationWrites
    <3> QED BY <3>1 DEF Place
  <2>3. CASE s \notin {"hpo", "confirmation"}
    BY <2>3, LastIsMarker, FinalIsLast DEF Final
  <2> QED BY <2>1, <2>2, <2>3
<1>2. s = "confirmation" => Packet \in Outputs(s)
  <2>1. ASSUME s = "confirmation" PROVE Writes(s)[4] = Packet /\ Len(Writes(s)) = 4
    BY <2>1 DEF Writes, ConfirmationWrites
  <2> QED BY <2>1, OutputsAre DEF Place
<1>3. \A f \in Outputs(s) : f[1] = s BY OutputsAre, WritesShape
<1>4. Marker(s) \in Outputs(s) BY <1>1, OutputsAre
<1>5. Outputs(s) \subseteq Artifacts BY DEF Artifacts
<1> QED BY <1>2, <1>3, <1>4, <1>5

(* A stage other than the search is there when its last artifact is. *)
LEMMA ThereIsFinal ==
    ASSUME NEW s \in Stages \ {"hpo"}, There(s) PROVE local[Final(s)] # 0
<1>1. CASE s = "confirmation"
  <2>1. Final(s) = Packet BY <1>1 DEF Final, Writes, ConfirmationWrites
  <2> QED BY <1>1, <2>1 DEF There
<1>2. CASE s # "confirmation" BY <1>2, LastIsMarker DEF There
<1> QED BY <1>1, <1>2

(* What this host has is what a stage sees. *)
LEMMA SeenHere ==
    ASSUME Mirrored, NEW s \in Stages
    PROVE  /\ Skippable(s) <=> There(s)
           /\ Consistent(s) <=> Fits(s)
           /\ \A f \in Inputs(s) : Seen(f) = local[f]
<1>1. \A f \in Artifacts : Seen(f) = local[f] /\ Newest(f) = local[f]
  BY DEF Mirrored, Seen, Newest
<1>2. Marker(s) \in Artifacts /\ (s = "confirmation" => Packet \in Artifacts)
      /\ Outputs(s) \subseteq Artifacts /\ Inputs(s) \subseteq Artifacts
  BY MarkerIsOutput, InputsAreArtifacts
<1>3. Skippable(s) <=> There(s) BY <1>1, <1>2 DEF Skippable, There
<1>4. Consistent(s) <=> Fits(s) BY <1>1, <1>2 DEF Consistent, Fits
<1> QED BY <1>1, <1>2, <1>3, <1>4

(* A full run is at the stage whose turn it is. *)
LEMMA StageAt ==
    ASSUME TypeOK, Course, torn # "yes", todo # <<>>
    PROVE  At \in Turn /\ stage = Full[At] /\ Len(todo) \in Nat
<1>1. Len(todo) \in Turn /\ \A i \in 1..Len(todo) : todo[i] = Full[10 - Len(todo) + i]
  BY DEF Course
<1>2. stage = todo[1] BY DEF TypeOK, stage
<1>3. PICK n \in Turn : n = Len(todo) BY <1>1
<1>4. todo[1] = Full[11 - n]
  <2>1. 1 \in 1..n /\ 10 - n + 1 = 11 - n BY DEF Turn
  <2> QED BY <1>1, <1>3, <2>1
<1>5. At = 11 - n BY <1>3 DEF At
<1>6. 11 - n \in Turn /\ n \in Nat BY DEF Turn
<1> QED BY <1>2, <1>3, <1>4, <1>5, <1>6

(* A process that ends early leaves what it found in order. *)
LEMMA AbortFresh ==
    ASSUME Fresh, Abort, UNCHANGED store
    PROVE  Fresh'
<1>1. /\ todo' = <<>> /\ phase' = "start" /\ UNCHANGED <<local, remote, basis>>
      /\ torn' = IF torn = "underway" THEN "yes" ELSE torn
  BY DEF Abort, Ended, store
<1>2. Mirrored' BY <1>1 DEF Fresh, Mirrored
<1>3. ~Underway' BY <1>1 DEF Underway
<1>4. Resting'
  <2>1. torn' = "no" => torn = "no" BY <1>1
  <2> QED BY <1>1, <1>3, <2>1 DEF Fresh, Resting, There, Fits
<1> QED BY <1>1, <1>2, <1>3, <1>4 DEF Fresh, Attempt, Course

(* A command begins at the first stage, or is no full run. *)
LEMMA IssueFresh ==
    ASSUME IInv, Fresh, NEW command \in Commands, NEW again \in BOOLEAN, Issue(command, again)
    PROVE  Fresh'
<1>1. /\ todo = <<>> /\ todo' = command /\ rerun' = again
      /\ torn' = IF command # Full THEN "yes" ELSE IF again THEN "underway" ELSE torn
      /\ UNCHANGED <<local, remote, basis, phase, pos, reading>>
  BY DEF Issue, store
<1>2. torn # "underway" /\ torn \in {"no", "underway", "yes"} /\ phase = "start"
  BY <1>1 DEF Fresh, IInv, Types, TypeOK
<1>3. Mirrored' BY <1>1 DEF Fresh, Mirrored
<1>4. ~Underway' BY <1>1, <1>2 DEF Underway
<1>5. Resting'
  <2>1. torn' = "no" => torn = "no" BY <1>1
  <2> QED BY <1>1, <1>4, <2>1 DEF Fresh, Resting, There, Fits
<1>6. Course'
  <2> SUFFICES ASSUME torn' # "yes" PROVE Course' BY DEF Course
  <2>1. todo' = Full /\ (rerun' <=> torn' = "underway") BY <1>1, <1>2
  <2>2. Len(todo') = 10 /\ 10 \in Turn BY <2>1, TurnsAre DEF Turn
  <2>3. \A i \in 1..10 : todo'[i] = Full[10 - 10 + i] BY <2>1
  <2>4. \A k \in Turn : ~(k < At') BY <2>2 DEF At, Turn
  <2> QED BY <2>1, <2>2, <2>3, <2>4 DEF Course
<1>7. torn' = "underway" => todo' # <<>> BY <1>1, <1>2, TurnsAre
<1> QED BY <1>3, <1>4, <1>5, <1>6, <1>7 DEF Fresh, Attempt

LEMMA RegistryFresh ==
    ASSUME Fresh, MakeDir \/ Register
    PROVE  Fresh'
<1>1. /\ phase' \in {"start", "register"}
      /\ UNCHANGED <<local, remote, basis, todo, rerun, torn>>
  BY DEF MakeDir, Register
<1>2. Mirrored' BY <1>1 DEF Fresh, Mirrored
<1>3. ~Underway' BY <1>1 DEF Underway
<1>4. Resting' BY <1>1, <1>3 DEF Fresh, Resting, There, Fits
<1>5. Course' BY <1>1 DEF Fresh, Course, At, There, Fits
<1> QED BY <1>1, <1>2, <1>3, <1>4, <1>5 DEF Fresh, Attempt

(* A stage that has all it was to write is there. *)
LEMMA WholeIsThere ==
    ASSUME Whole, NEW s \in Stages, local[Final(s)] # 0
    PROVE  There(s)
<1>1. \A i \in Place(s) : local[Writes(s)[i]] # 0 BY DEF Whole
<1>2. \A f \in Outputs(s) : local[f] # 0 BY <1>1, OutputsAre
<1> QED BY <1>2, MarkerIsOutput DEF There

(* A stage begins from what is here; between reruns it was not there. *)
LEMMA ComputeFresh ==
    ASSUME IInv, Fresh, Compute
    PROVE  Fresh'
<1>1. TypeOK /\ Whole /\ Mirrored BY DEF IInv, Types, Fresh
<1>2. /\ todo # <<>> /\ (rerun \/ ~Skippable(stage))
      /\ reading' = [f \in Inputs(stage) |-> Seen(f)]
      /\ phase' = "write" /\ pos' = 1 /\ stage' = stage
      /\ UNCHANGED <<local, remote, basis, todo, rerun, torn>>
  BY DEF Compute, Resumed, store, stage
<1>3. PICK s \in Stages : s = stage BY <1>1, <1>2, StageOfTodo DEF TypeOK
<1>4. Mirrored' BY <1>1, <1>2 DEF Mirrored
<1>5. \A i \in Place(s) : ~Wrote(i)' BY <1>2, <1>3 DEF Wrote, Place
<1>6. Attempt'
  <2>1. \A f \in Inputs(s) : Seen(f) = local[f] BY <1>1, SeenHere
  <2>2. \A f \in Inputs(s) : reading'[f] = local'[f] BY <1>2, <1>3, <2>1
  <2> QED BY <1>2, <1>3, <1>5, <2>2 DEF Attempt
<1>7. Course' BY <1>2 DEF Fresh, Course, At, There, Fits
<1>8. Resting'
  <2> SUFFICES ASSUME torn' = "no" PROVE Resting' BY DEF Resting
  <2>1. torn = "no" /\ Course BY <1>2 DEF Fresh
  <2>2. At \in Turn /\ stage = Full[At] BY <1>1, <1>2, <2>1, StageAt
  <2>3. PICK a \in Turn : a = At BY <2>2
  <2>4. ~There(s)
    <3>1. ~rerun BY <1>2, <2>1 DEF Course
    <3> QED BY <1>1, <1>2, <1>3, <3>1, SeenHere
  <2>5. local[Final(s)] = 0 BY <1>1, <2>4, WholeIsThere
  <2>6. \A k \in Turn : There(Full[k]) =>
           Fits(Full[k]) /\ \A j \in Turn : j < k => There(Full[j])
    BY <2>1 DEF Fresh, Resting
  <2>7. \A k \in Turn : k > a => ~There(Full[k])
    <3>1. s = Full[a] BY <1>3, <2>2, <2>3
    <3> QED BY <2>4, <2>6, <3>1 DEF Turn
  <2>8. At' = a BY <1>2, <2>3 DEF At
  <2> QED BY <1>2, <1>3, <2>5, <2>6, <2>7, <2>8 DEF Resting, There, Fits
<1> QED BY <1>2, <1>4, <1>6, <1>7, <1>8 DEF Fresh

(* On to the next stage, with the one behind in order. *)
LEMMA AdvanceFresh ==
    ASSUME IInv, Fresh, Advance, UNCHANGED <<local, remote, basis>>, todo # <<>>,
           torn # "yes" => There(stage) /\ Fits(stage)
    PROVE  Fresh'
<1>1. TypeOK /\ Mirrored /\ torn \in {"no", "underway", "yes"} BY DEF IInv, Types, TypeOK, Fresh
<1>2. phase' = "start" BY DEF Advance, Ended
<1>3. ~Underway' BY <1>2 DEF Underway
<1>4. Mirrored' BY <1>1 DEF Mirrored
<1>5. todo \in Seq(Stages) /\ stage \in Stages /\ (Len(todo) # 1 => Tail(todo) # <<>>)
  BY <1>1, StageOfTodo DEF TypeOK
<1>6. CASE torn = "yes"
  <2>1. torn' = "yes" BY <1>6 DEF Advance, Ended
  <2> QED BY <1>3, <1>4, <2>1 DEF Fresh, Attempt, Course, Resting
<1>7. CASE torn # "yes"
  <2>1. Course /\ (rerun <=> torn = "underway") BY <1>7 DEF Fresh, Course
  <2>2. At \in Turn /\ stage = Full[At] /\ Len(todo) \in Nat BY <1>1, <1>7, <2>1, StageAt
  <2>3. \A k \in Turn : k < At + 1 => There(Full[k]) /\ Fits(Full[k])
    <3> SUFFICES ASSUME NEW k \in Turn, k < At + 1 PROVE There(Full[k]) /\ Fits(Full[k])
      OBVIOUS
    <3>1. k < At \/ k = At BY <2>2 DEF Turn
    <3>2. CASE k = At BY <1>7, <2>2, <3>2
    <3>3. CASE k < At BY <1>7, <2>1, <3>3 DEF Course
    <3> QED BY <3>1, <3>2, <3>3
  <2>4. CASE Len(todo) = 1
    <3>1. todo' = <<>> /\ torn' # "underway" /\ torn' # "yes" BY <1>1, <1>7, <2>4 DEF Advance, Ended
    <3>2. At = 10 BY <2>4 DEF At
    <3>3. \A k \in Turn : There(Full[k]) /\ Fits(Full[k]) BY <2>3, <3>2 DEF Turn
    <3>4. Resting' BY <1>3, <3>3 DEF Resting, There, Fits
    <3> QED BY <1>3, <1>4, <3>1, <3>4 DEF Fresh, Attempt, Course
  <2>5. CASE Len(todo) # 1
    <3>1. todo' = Tail(todo) /\ UNCHANGED <<rerun, torn>> /\ todo' # <<>>
      BY <1>5, <2>5 DEF Advance
    <3>2. PICK n \in Turn : n = Len(todo) BY <1>7, <2>1 DEF Course
    <3>3. n - 1 \in Turn
      <4>1. n # 1 BY <2>5, <3>2
      <4>2. n \in 1..10 BY DEF Turn
      <4> QED BY <4>1, <4>2 DEF Turn
    <3>4. Len(todo') = n - 1 /\ \A i \in 1..(n - 1) : todo'[i] = todo[i + 1]
      BY <1>5, <3>1, <3>2, HeadTailProperties
    <3>5. \A i \in 1..(n - 1) : todo'[i] = Full[10 - (n - 1) + i]
      <4> SUFFICES ASSUME NEW i \in 1..(n - 1) PROVE todo'[i] = Full[10 - (n - 1) + i]
        OBVIOUS
      <4>1. i + 1 \in 1..n BY DEF Turn
      <4>2. todo[i + 1] = Full[10 - n + (i + 1)] BY <1>7, <2>1, <3>2, <4>1 DEF Course
      <4>3. 10 - n + (i + 1) = 10 - (n - 1) + i BY DEF Turn
      <4> QED BY <3>4, <4>2, <4>3
    <3>6. At' = At + 1 BY <3>2, <3>4 DEF At, Turn
    <3>7. \A k \in Turn : k < At' => There(Full[k]) /\ Fits(Full[k]) BY <2>3, <3>6
    <3>8. Course' BY <2>1, <3>1, <3>3, <3>4, <3>5, <3>7 DEF Course, There, Fits
    <3>9. Resting' BY <1>3, <3>1 DEF Fresh, Resting, There, Fits
    <3> QED BY <1>3, <1>4, <3>1, <3>8, <3>9 DEF Fresh, Attempt
  <2> QED BY <2>4, <2>5
<1> QED BY <1>6, <1>7

(* A stage goes from one of its artifacts to the next. *)
LEMMA UploadFresh ==
    ASSUME IInv, Fresh, Upload
    PROVE  Fresh'
<1>1. TypeOK /\ Underway BY DEF IInv, Types, Upload, Underway
<1>2. /\ todo # <<>> /\ stage \in Stages /\ pos \in Place(stage) /\ artifact \in Artifacts
  BY <1>1, UnderwayPlace
<1>3. /\ stage' = stage /\ UNCHANGED <<local, basis, todo, rerun, reading, torn>>
      /\ remote' = [remote EXCEPT ![artifact] = local[artifact]]
  BY DEF Upload, stage
<1>4. /\ pos' \in Place(stage) /\ phase = "upload"
      /\ \/ phase' = "finish" /\ pos' = pos /\ pos = Len(Writes(stage))
         \/ phase' = "write" /\ pos' = pos + 1 /\ pos # Len(Writes(stage))
  BY <1>2, WrittenTo DEF Upload
<1>5. PICK s \in Stages : s = stage BY <1>2
<1>6. \A i \in Place(s) : Wrote(i)' <=> Wrote(i)
  <2>1. Place(s) = 1..Len(Writes(s)) /\ Len(Writes(s)) \in Nat BY FinalIsLast DEF Place
  <2> QED BY <1>2, <1>4, <1>5, <2>1 DEF Wrote
<1>7. Mirrored' BY <1>1, <1>2, <1>3 DEF Fresh, Mirrored, TypeOK
<1>8. Attempt' BY <1>1, <1>3, <1>5, <1>6 DEF Fresh, Attempt
<1>9. Course' BY <1>3 DEF Fresh, Course, At, There, Fits
<1>10. Resting'
  <2>1. Len(Writes(s)) \in Place(s) BY FinalIsLast
  <2>2. ~Wrote(Len(Writes(s)))' => ~Wrote(Len(Writes(s))) BY <1>6, <2>1
  <2>3. At' = At BY <1>3 DEF At
  <2> QED BY <1>1, <1>3, <1>5, <2>2, <2>3 DEF Fresh, Resting, There, Fits
<1> QED BY <1>2, <1>3, <1>7, <1>8, <1>9, <1>10 DEF Fresh

(* What a write may touch. *)
LEMMA WriteTouches ==
    ASSUME IInv, Write
    PROVE  /\ todo # <<>> /\ stage \in Stages /\ pos \in Place(stage) /\ artifact \in Artifacts
           /\ stage' = stage /\ UNCHANGED <<remote, todo, rerun, reading, torn>>
           /\ local' \in [Artifacts -> Nat] /\ local'[artifact] = Version /\ Version # 0
           /\ \A f \in Artifacts \ {artifact} : local'[f] = local[f]
           /\ \A f \in Artifacts : f[1] # stage => local'[f] = local[f]
           /\ \A t \in Stages : t # stage => basis'[t] = basis[t]
           /\ artifact = Marker(stage) => basis'[stage] = reading
           /\ artifact # Marker(stage) => basis' = basis
           /\ pos' \in Place(stage)
           /\ \A i \in Place(stage) : Wrote(i)' <=> i < pos \/ i = pos
           /\ \A i \in Place(stage) : Wrote(i) <=> i < pos
<1>1. TypeOK /\ Underway BY DEF IInv, Types, Write, Underway
<1>2. /\ todo # <<>> /\ stage \in Stages /\ pos \in Place(stage) /\ artifact \in Artifacts
  BY <1>1, UnderwayPlace
<1>3. PICK s \in Stages : s = stage BY <1>2
<1>4. artifact[1] = s BY <1>2, <1>3, WritesShape DEF artifact
<1>5. stage' = stage /\ UNCHANGED <<remote, todo, rerun, reading, torn>> BY DEF Write, stage
<1>6. Version \in Nat /\ Version # 0
  <2>1. CASE pos = 1 BY <1>1, <1>2, <2>1 DEF Version, Newest, TypeOK
  <2>2. CASE pos # 1
    <3>1. 1 \in Place(s) /\ 1 < pos BY <1>2, <1>3, <2>2, FinalIsLast
    <3>2. local[Writes(s)[1]] # 0
      BY <1>1, <1>3, <3>1 DEF IInv, Progress, Write
    <3>3. Writes(s)[1] \in Artifacts BY <3>1, WritesAreArtifacts
    <3> QED BY <1>1, <1>3, <2>2, <3>2, <3>3 DEF Version, TypeOK
  <2> QED BY <2>1, <2>2
<1>7. local' \in [Artifacts -> Nat] /\ local'[artifact] = Version
      /\ \A f \in Artifacts \ {artifact} : local'[f] = local[f]
  BY <1>1, <1>2, <1>6 DEF TypeOK, Write
<1>8. \A f \in Artifacts : f[1] # stage => local'[f] = local[f] BY <1>3, <1>4, <1>7
<1>9. /\ \A t \in Stages : t # stage => basis'[t] = basis[t]
      /\ artifact = Marker(stage) => basis'[stage] = reading
      /\ artifact # Marker(stage) => basis' = basis
  <2>1. basis = [t \in Stages |-> basis[t]] BY DEF IInv, Types
  <2> QED BY <1>2, <2>1 DEF Write
<1>10. /\ pos' \in Place(stage) /\ phase = "write"
       /\ \/ phase' = "finish" /\ pos' = pos /\ pos = Len(Writes(stage))
          \/ phase' = "write" /\ pos' = pos + 1 /\ pos # Len(Writes(stage))
          \/ phase' = "upload" /\ pos' = pos
  BY <1>2, WrittenTo DEF Write
<1>11. \A i \in Place(s) : (Wrote(i)' <=> i < pos \/ i = pos) /\ (Wrote(i) <=> i < pos)
  <2>1. Place(s) = 1..Len(Writes(s)) /\ Len(Writes(s)) \in Nat BY FinalIsLast DEF Place
  <2> QED BY <1>2, <1>3, <1>10, <2>1 DEF Wrote
<1> QED BY <1>2, <1>3, <1>5, <1>6, <1>7, <1>8, <1>9, <1>10, <1>11

(* The stage's artifacts get one version, and its summary what it read. *)
LEMMA WriteAttempt ==
    ASSUME IInv, Fresh, Write
    PROVE  Attempt'
<1>1. Underway /\ todo # <<>> /\ stage \in Stages /\ pos \in Place(stage) /\ stage' = stage
      /\ reading' = reading
  BY WriteTouches DEF Write, Underway
<1>2. PICK s \in Stages : s = stage BY <1>1
<1>3. \A f \in Inputs(s) : reading'[f] = local'[f]
  <2>1. \A f \in Inputs(s) : reading[f] = local[f] BY <1>1, <1>2 DEF Fresh, Attempt
  <2> QED BY <1>1, <1>2, <2>1, WriteTouches, InputsForeign, InputsAreArtifacts
<1>4. ASSUME NEW i \in Place(s), Wrote(i)'
      PROVE  /\ local'[Writes(s)[i]] = local'[Writes(s)[1]]
             /\ Writes(s)[i] = Marker(s) => basis'[s] = reading'
  <2>1. i < pos \/ i = pos BY <1>2, <1>4, WriteTouches
  <2>2. 1 \in Place(s) /\ Place(s) \subseteq Nat \ {0} BY FinalIsLast
  <2>3. /\ \A j \in Place(s) : Writes(s)[j] \in Artifacts
        /\ \A j \in Place(s) : Writes(s)[j] = artifact => j = pos
    BY <1>1, <1>2, WritesAreArtifacts, WritesShape DEF artifact
  <2>4. \A j \in Place(s) : j < pos => local'[Writes(s)[j]] = local[Writes(s)[j]]
    BY <1>1, <1>2, <2>2, <2>3, WriteTouches
  <2>5. CASE i = pos
    <3>1. Writes(s)[i] = artifact BY <1>2, <2>5 DEF artifact
    <3>2. Writes(s)[i] = Marker(s) => basis'[s] = reading' BY <1>1, <1>2, <3>1, WriteTouches
    <3>3. CASE pos = 1 BY <2>5, <3>2, <3>3
    <3>4. CASE pos # 1
      <4>1. 1 < pos BY <1>1, <1>2, <2>2, <3>4
      <4>2. local'[Writes(s)[i]] = local[Writes(s)[1]]
        BY <1>2, <3>1, <3>4, WriteTouches DEF Version
      <4> QED BY <2>2, <2>4, <3>2, <4>1, <4>2
    <3> QED BY <3>3, <3>4
  <2>6. CASE i < pos
    <3>1. 1 < pos BY <1>1, <1>2, <2>2, <2>6
    <3>2. Wrote(i) BY <1>2, <2>6, WriteTouches
    <3>3. /\ local[Writes(s)[i]] = local[Writes(s)[1]]
          /\ Writes(s)[i] = Marker(s) => basis[s] = reading
      BY <1>1, <1>2, <3>2 DEF Fresh, Attempt
    <3>4. Writes(s)[i] # artifact BY <1>1, <1>2, <2>2, <2>3, <2>6
    <3>5. Writes(s)[i] = Marker(s) => basis'[s] = basis[s] BY <1>2, <3>4, WriteTouches
    <3> QED BY <1>1, <2>2, <2>4, <2>6, <3>1, <3>3, <3>5
  <2> QED BY <2>1, <2>5, <2>6
<1> QED BY <1>1, <1>2, <1>3, <1>4 DEF Attempt

(* The last artifact of a stage other than the search decides whether it is *)
(* there; the search reads nothing and writes its summary first.           *)
LEMMA FinalDecides ==
    ASSUME NEW s \in Stages
    PROVE  \/ s = "hpo" /\ Inputs(s) = {} /\ Outputs(s) = {Marker(s), Final(s)}
           \/ s = "confirmation" /\ Final(s) = Packet
           \/ s # "hpo" /\ Final(s) = Marker(s)
<1>1. CASE s = "hpo"
  <2>1. Writes(s) = <<Marker(s), Trials>> BY <1>1 DEF Writes, HpoWrites
  <2>2. Outputs(s) = {Writes(s)[1], Writes(s)[2]} /\ Final(s) = Writes(s)[2]
    <3>1. Len(Writes(s)) = 2 /\ Place(s) = {1, 2} BY <2>1 DEF Place
    <3> QED BY <3>1, OutputsAre DEF Final
  <2>3. Inputs(s) = {} BY <1>1 DEF Inputs, Required, Optional
  <2> QED BY <1>1, <2>1, <2>2, <2>3
<1>2. CASE s = "confirmation" BY <1>2 DEF Final, Writes, ConfirmationWrites
<1>3. CASE s \notin {"hpo", "confirmation"} BY <1>3, LastIsMarker
<1> QED BY <1>1, <1>2, <1>3

(* A stage that was not there and has written so far: if it is there, its  *)
(* artifacts belong together.                                              *)
LEMMA WriteFits ==
    ASSUME IInv, Fresh, Write, There(stage)',
           ~Wrote(Len(Writes(stage))) => local[Final(stage)] = 0
    PROVE  Fits(stage)'
<1>1. Underway /\ todo # <<>> /\ stage \in Stages /\ pos \in Place(stage) /\ stage' = stage
  BY WriteTouches DEF Write, Underway
<1>2. PICK s \in Stages : s = stage BY <1>1
<1>3. /\ \A i \in Place(s) : Wrote(i)' =>
            /\ local'[Writes(s)[i]] = local'[Writes(s)[1]]
            /\ Writes(s)[i] = Marker(s) => basis'[s] = reading'
      /\ \A f \in Inputs(s) : reading'[f] = local'[f]
  BY <1>1, <1>2, WriteAttempt DEF Attempt, Underway, Write, Written
<1>4. Len(Writes(s)) \in Place(s) /\ Final(s) \in Artifacts /\ Place(s) = 1..Len(Writes(s))
      /\ Len(Writes(s)) \in Nat
  BY FinalIsLast DEF Place
<1>5. CASE pos = Len(Writes(s))
  <2>1. \A i \in Place(s) : Wrote(i)' BY <1>2, <1>4, <1>5, WriteTouches
  <2>2. PICK m \in Place(s) : Writes(s)[m] = Marker(s) BY MarkerIsOutput, OutputsAre
  <2>3. \A f \in Outputs(s) : local'[f] = local'[Marker(s)] BY <1>3, <2>1, <2>2, OutputsAre
  <2>4. basis'[s] = reading' BY <1>3, <2>1, <2>2
  <2> QED BY <1>1, <1>2, <1>3, <2>3, <2>4 DEF Fits
<1>6. CASE pos # Len(Writes(s))
  <2>1. ~Wrote(Len(Writes(s))) BY <1>1, <1>2, <1>4, <1>6, WriteTouches
  <2>2. local'[Final(s)] = 0
    <3>1. Final(s) # artifact BY <1>1, <1>2, <1>4, <1>6, WritesShape DEF artifact, Final
    <3> QED BY <1>2, <1>4, <2>1, <3>1, WriteTouches
  <2>3. s = "hpo" /\ Inputs(s) = {} /\ Outputs(s) = {Marker(s), Final(s)}
    BY <1>1, <1>2, <2>2, FinalDecides DEF There
  <2> QED BY <1>1, <1>2, <2>2, <2>3 DEF Fits
<1> QED BY <1>5, <1>6

(* What other stages wrote, and what earlier ones read, a write leaves. *)
LEMMA WriteElsewhere ==
    ASSUME IInv, Write, NEW a \in Turn, stage = Full[a], NEW k \in Turn, k # a
    PROVE  /\ There(Full[k])' <=> There(Full[k])
           /\ k < a /\ Fits(Full[k]) => Fits(Full[k])'
<1>1. PICK t \in Stages : t = Full[k] BY TurnsAre
<1>2. t # stage BY <1>1, TurnsAre
<1>3. \A f \in Outputs(t) : f \in Artifacts /\ local'[f] = local[f]
  BY <1>2, MarkerIsOutput, WriteTouches
<1>4. There(t)' <=> There(t) BY <1>3, MarkerIsOutput DEF There
<1>5. ASSUME k < a, Fits(t) PROVE Fits(t)'
  <2>1. \A f \in Inputs(t) : f \in Artifacts /\ local'[f] = local[f]
    <3> SUFFICES ASSUME NEW f \in Inputs(t) PROVE f \in Artifacts /\ local'[f] = local[f]
      OBVIOUS
    <3>1. PICK j \in Turn : j < k /\ f[1] = Full[j] BY <1>1, InputsEarlier
    <3>2. j # a BY <1>5, <3>1 DEF Turn
    <3>3. f[1] # stage BY <3>1, <3>2, TurnsAre
    <3> QED BY <3>3, InputsAreArtifacts, WriteTouches
  <2>2. basis'[t] = basis[t] BY <1>2, WriteTouches
  <2> QED BY <1>3, <1>5, <2>1, <2>2, MarkerIsOutput DEF Fits
<1> QED BY <1>1, <1>4, <1>5

LEMMA WriteFresh ==
    ASSUME IInv, Fresh, Write
    PROVE  Fresh'
<1>1. /\ TypeOK /\ Underway /\ todo # <<>> /\ stage \in Stages /\ pos \in Place(stage)
      /\ UNCHANGED <<remote, todo, rerun, torn>> /\ stage' = stage
  BY WriteTouches DEF IInv, Types, Write, Underway
<1>2. Mirrored'
  <2>1. \A f \in Artifacts : local'[f] = 0 => local[f] = 0 BY WriteTouches
  <2> QED BY <1>1, <2>1 DEF Fresh, Mirrored
<1>3. Attempt' BY WriteAttempt
<1>4. CASE torn = "yes" BY <1>1, <1>2, <1>3, <1>4 DEF Fresh, Course, Resting
<1>5. CASE torn # "yes"
  <2>1. Course /\ At \in Turn /\ stage = Full[At] BY <1>1, <1>5, StageAt DEF Fresh
  <2>2. PICK a \in Turn : a = At BY <2>1
  <2>3. At' = a BY <1>1, <2>2 DEF At
  <2>4. \A k \in Turn : k < a => There(Full[k]) /\ Fits(Full[k])
    BY <1>1, <1>5, <2>1, <2>2 DEF Course
  <2>5. ASSUME NEW k \in Turn, k < a PROVE There(Full[k])' /\ Fits(Full[k])'
    <3>1. k # a BY <2>5 DEF Turn
    <3> QED BY <2>1, <2>2, <2>4, <2>5, <3>1, WriteElsewhere
  <2>6. Course'
    <3>1. \A k \in Turn : k < At' => (There(Full[k]) /\ Fits(Full[k]))' BY <2>3, <2>5
    <3> QED BY <1>1, <1>5, <2>1, <3>1 DEF Course
  <2>7. Resting'
    <3> SUFFICES ASSUME torn' = "no" PROVE Resting' BY DEF Resting
    <3>1. /\ ~Wrote(Len(Writes(stage))) => local[Final(stage)] = 0
          /\ \A k \in Turn : k > a => ~There(Full[k])
      BY <1>1, <2>2 DEF Fresh, Resting
    <3>2. ASSUME NEW k \in Turn, k > a PROVE ~There(Full[k])'
      <4>1. k # a BY <3>2 DEF Turn
      <4> QED BY <2>1, <2>2, <3>1, <3>2, <4>1, WriteElsewhere
    <3>3. ASSUME NEW k \in Turn, There(Full[k])'
          PROVE  Fits(Full[k])' /\ \A j \in Turn : j < k => There(Full[j])'
      <4>1. k < a \/ k = a BY <3>2, <3>3 DEF Turn
      <4>2. Fits(Full[k])'
        <5>1. CASE k < a BY <2>5, <5>1
        <5>2. CASE k = a
          <6>1. stage = Full[k] /\ stage' = Full[k] BY <1>1, <2>1, <2>2, <5>2
          <6>2. There(stage)' BY <3>3, <6>1
          <6>3. Fits(stage)' BY <3>1, <6>2, WriteFits
          <6> QED BY <6>1, <6>3
        <5> QED BY <4>1, <5>1, <5>2
      <4>3. ASSUME NEW j \in Turn, j < k PROVE There(Full[j])'
        <5>1. j < a BY <4>1, <4>3 DEF Turn
        <5> QED BY <2>5, <5>1
      <4> QED BY <4>2, <4>3
    <3>4. ~Wrote(Len(Writes(stage)))' => local'[Final(stage)] = 0
      <4>1. PICK s \in Stages : s = stage BY <1>1
      <4>2. /\ Len(Writes(s)) \in Place(s) /\ Final(s) \in Artifacts /\ Place(s) \subseteq Nat
        BY FinalIsLast
      <4>3. ASSUME ~Wrote(Len(Writes(s)))' PROVE local'[Final(s)] = 0
        <5>1. ~Wrote(Len(Writes(s))) /\ pos # Len(Writes(s))
          BY <4>1, <4>2, <4>3, WriteTouches
        <5>2. Final(s) # artifact BY <1>1, <4>1, <4>2, <5>1, WritesShape DEF artifact, Final
        <5>3. local[Final(s)] = 0 BY <3>1, <4>1, <5>1
        <5> QED BY <4>2, <5>2, <5>3, WriteTouches
      <4>4. Wrote(Len(Writes(stage)))' <=> Wrote(Len(Writes(s)))' BY <1>1, <4>1
      <4> QED BY <4>1, <4>3, <4>4
    <3>5. \A k \in Turn : k > At' => ~There(Full[k])' BY <2>3, <3>2
    <3> QED BY <1>1, <3>3, <3>4, <3>5 DEF Resting
  <2> QED BY <1>1, <1>2, <1>3, <2>6, <2>7 DEF Fresh
<1> QED BY <1>4, <1>5

(* A stage that ends is there, in order. *)
LEMMA FinishFresh ==
    ASSUME IInv, Fresh, UpdateRun
    PROVE  Fresh'
<1>1. TypeOK /\ Underway /\ phase = "finish" /\ Advance /\ UNCHANGED <<local, remote, basis>>
  BY DEF IInv, Types, UpdateRun, Underway
<1>2. todo # <<>> /\ stage \in Stages BY <1>1, UnderwayPlace
<1>3. PICK s \in Stages : s = stage BY <1>2
<1>4. \A i \in Place(s) : Wrote(i) /\ local[Writes(s)[i]] # 0
  BY <1>1, <1>3 DEF IInv, Progress, Wrote
<1>5. /\ \A i \in Place(s) : local[Writes(s)[i]] = local[Writes(s)[1]]
      /\ \A i \in Place(s) : Writes(s)[i] = Marker(s) => basis[s] = reading
      /\ \A f \in Inputs(s) : reading[f] = local[f]
  BY <1>1, <1>3, <1>4 DEF Fresh, Attempt
<1>6. PICK m \in Place(s) : Writes(s)[m] = Marker(s) BY MarkerIsOutput, OutputsAre
<1>7. \A f \in Outputs(s) : local[f] # 0 /\ local[f] = local[Marker(s)]
  BY <1>4, <1>5, <1>6, OutputsAre
<1>8. There(s) BY <1>7, MarkerIsOutput DEF There
<1>9. Fits(s) BY <1>5, <1>6, <1>7 DEF Fits
<1> QED BY <1>1, <1>2, <1>3, <1>8, <1>9, AdvanceFresh

(* A stage that is skipped is there; between reruns it is in order. *)
LEMMA SkipFresh ==
    ASSUME IInv, Fresh, Skip
    PROVE  Fresh'
<1>1. /\ TypeOK /\ Mirrored /\ Course /\ Resting /\ torn \in {"no", "underway", "yes"}
      /\ todo # <<>> /\ ~rerun /\ Skippable(stage)
      /\ Advance /\ UNCHANGED <<local, remote, basis>>
  BY DEF IInv, Types, TypeOK, Fresh, Skip, Resumed, store
<1>2. PICK s \in Stages : s = stage BY <1>1, StageOfTodo DEF TypeOK
<1>3. There(s) BY <1>1, <1>2, SeenHere
<1>4. ASSUME torn # "yes" PROVE Fits(s)
  <2>1. At \in Turn /\ stage = Full[At] BY <1>1, <1>4, StageAt
  <2>2. torn = "no" BY <1>1, <1>4 DEF Course
  <2> QED BY <1>1, <1>2, <1>3, <2>1, <2>2 DEF Resting
<1> QED BY <1>1, <1>2, <1>3, <1>4, AdvanceFresh

FreshInv == moves = 0 => Fresh

LEMMA InitFresh == ASSUME Init PROVE Fresh
<1> USE DEF Init
<1>1. Mirrored BY DEF Mirrored
<1>2. ~Underway BY DEF Underway
<1>3. \A k \in Turn : ~There(Full[k])
  <2> SUFFICES ASSUME NEW k \in Turn PROVE ~There(Full[k]) OBVIOUS
  <2>1. Marker(Full[k]) \in Artifacts BY TurnsAre, MarkerIsOutput
  <2> QED BY <2>1 DEF There
<1>4. Resting BY <1>2, <1>3 DEF Resting
<1> QED BY <1>1, <1>2, <1>4 DEF Fresh, Attempt, Course

LEMMA StepFresh ==
    ASSUME IInv, FreshInv, [Next]_vars
    PROVE  FreshInv'
<1> SUFFICES ASSUME moves' = 0 PROVE Fresh' BY DEF FreshInv
<1>1. CASE Move
  <2>1. moves \in Nat /\ moves' = moves + 1
    BY <1>1, CrucibleAssumption DEF IInv, Types, TypeOK, Move
  <2> QED BY <2>1
<1>2. ASSUME NEW command \in Commands, NEW again \in BOOLEAN, Issue(command, again)
      PROVE  Fresh'
  <2>1. moves' = moves BY <1>2 DEF Issue
  <2> QED BY <1>2, <2>1, IssueFresh DEF FreshInv
<1>3. CASE RunAlreadyComplete \/ DirExists \/ InputMissing \/ Crash
  <2>1. Abort /\ UNCHANGED store /\ moves' = moves
    BY <1>3 DEF RunAlreadyComplete, DirExists, InputMissing, Crash
  <2> QED BY <2>1, AbortFresh DEF FreshInv
<1>4. CASE MakeDir \/ Register
  <2>1. moves' = moves BY <1>4 DEF MakeDir, Register
  <2> QED BY <1>4, <2>1, RegistryFresh DEF FreshInv
<1>5. CASE Skip
  <2>1. moves' = moves BY <1>5 DEF Skip
  <2> QED BY <1>5, <2>1, SkipFresh DEF FreshInv
<1>6. CASE Compute
  <2>1. moves' = moves BY <1>6 DEF Compute
  <2> QED BY <1>6, <2>1, ComputeFresh DEF FreshInv
<1>7. CASE Write
  <2>1. moves' = moves BY <1>7 DEF Write
  <2> QED BY <1>7, <2>1, WriteFresh DEF FreshInv
<1>8. CASE Upload
  <2>1. moves' = moves BY <1>8 DEF Upload
  <2> QED BY <1>8, <2>1, UploadFresh DEF FreshInv
<1>9. CASE UpdateRun
  <2>1. moves' = moves BY <1>9 DEF UpdateRun
  <2> QED BY <1>9, <2>1, FinishFresh DEF FreshInv
<1>10. CASE UNCHANGED vars
  <2>1. UNCHANGED <<local, remote, basis, todo, rerun, phase, pos, reading, torn, moves>>
        /\ stage' = stage
    BY <1>10 DEF vars, store, process, stage
  <2>2. Fresh BY <2>1 DEF FreshInv
  <2>3. Mirrored' BY <2>1, <2>2 DEF Fresh, Mirrored
  <2>4. Attempt' BY <2>1, <2>2 DEF Fresh, Attempt, Underway, Wrote
  <2>5. Course' BY <2>1, <2>2 DEF Fresh, Course, At, There, Fits
  <2>6. Resting' BY <2>1, <2>2 DEF Fresh, Resting, Underway, Wrote, At, There, Fits
  <2> QED BY <2>1, <2>2, <2>3, <2>4, <2>5, <2>6 DEF Fresh
<1> QED
  BY <1>1, <1>2, <1>3, <1>4, <1>5, <1>6, <1>7, <1>8, <1>9, <1>10
  DEF Next, Driver, StartOrResume, RunStage

(* On one host, under full runs that may die anywhere and be asked for     *)
(* again: a stage that would be skipped rests on the artifacts there are,  *)
(* all of its own from one attempt.  A rerun carried to its end restores   *)
(* this whatever milestones were asked for before.                         *)
THEOREM FreshCorrect == Spec => []FreshUnlessRerun
<1>1. Init => FreshInv BY InitFresh DEF FreshInv
<1>2. IInv /\ FreshInv /\ [Next]_vars => FreshInv' BY StepFresh
<1>3. IInv /\ FreshInv => FreshUnlessRerun
  <2> SUFFICES ASSUME Fresh, torn = "no", NEW s \in ToSet(Full), Skippable(s)
               PROVE  Consistent(s)
    BY DEF FreshInv, FreshUnlessRerun
  <2>1. PICK k \in Turn : s = Full[k] BY TurnsAre
  <2>2. s \in Stages /\ Mirrored BY <2>1, TurnsAre DEF Fresh
  <2>3. There(s) BY <2>2, SeenHere
  <2>4. Fits(s) BY <2>1, <2>3 DEF Fresh, Resting
  <2> QED BY <2>2, <2>4, SeenHere
<1> QED BY <1>1, <1>2, <1>3, AlwaysIInv, PTL DEF Spec
=============================================================================
