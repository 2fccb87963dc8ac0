------------------------------ MODULE AiPipeline ------------------------------
(***************************************************************************)
(* The pipeline of ai-pipeline-core: an operator supplies artifacts one by *)
(* one (advance) or lets a generator produce them (run_to_completion); the *)
(* pipeline is saved and resumed in between.  The generator is a trait     *)
(* with no implementation in the repository: it may return any artifact,   *)
(* nothing, or an error.                                                   *)
(***************************************************************************)
EXTENDS Naturals, Sequences, SequencesExt

Stages == <<"brief", "ia", "wireframe", "content", "tokens", "audit">>

VARIABLES
  artifacts,   \* the artifacts so far: [stage, pass]
  driving,     \* run_to_completion is in progress
  result       \* of the last call: "none", "ok", "error"

aiVars == <<artifacts, driving, result>>

Artifact == [stage : ToSet(Stages), pass : BOOLEAN]

Place(stage) == CHOOSE i \in DOMAIN Stages : Stages[i] = stage

\* Stage::next and Pipeline::next_stage; "none" when the pipeline is empty or complete
NextStage ==
  IF artifacts = <<>> \/ Last(artifacts).stage = "audit" THEN "none"
  ELSE Stages[Place(Last(artifacts).stage) + 1]

AiInit ==
  /\ artifacts \in {<<>>} \union {<<[stage |-> "brief", pass |-> FALSE]>>}
  /\ driving = FALSE
  /\ result = "none"

\* Mutant of Accepts: any stage that is still to come
AcceptsLater(a) == NextStage # "none" /\ Place(a.stage) >= Place(NextStage)

Accepts(a) == NextStage # "none" /\ a.stage = NextStage

\* Mutant of Advanced: a second artifact of the stage at hand replaces the first
AdvancedReplacing(a) ==
  /\ artifacts' = IF Accepts(a) THEN Append(artifacts, a)
                  ELSE IF artifacts # <<>> THEN [artifacts EXCEPT ![Len(artifacts)] = a]
                  ELSE artifacts
  /\ result' = "ok"

\* advance: AlreadyComplete and StageMismatch leave the pipeline as it was
Advanced(a) ==
  /\ artifacts' = IF Accepts(a) THEN Append(artifacts, a) ELSE artifacts
  /\ result' = IF Accepts(a) THEN "ok" ELSE "error"

Advance(a) ==
  /\ ~driving
  /\ Advanced(a)
  /\ UNCHANGED driving

Drive ==
  /\ ~driving
  /\ driving' = TRUE /\ result' = "none"
  /\ UNCHANGED artifacts

\* None from next_stage: complete, or nothing to start from
DriveEnds ==
  /\ driving /\ NextStage = "none"
  /\ driving' = FALSE /\ result' = "ok"
  /\ UNCHANGED artifacts

\* Some(a) from the generator: advance, and `?` on its error
Generates(a) ==
  /\ driving /\ NextStage # "none"
  /\ Advanced(a)
  /\ driving' = (result' = "ok")

\* None from the generator, or its error
GeneratorStops(how) ==
  /\ driving /\ NextStage # "none"
  /\ driving' = FALSE /\ result' = how
  /\ UNCHANGED artifacts

DriveStep ==
  \/ DriveEnds
  \/ \E a \in Artifact : Generates(a)
  \/ \E how \in {"ok", "error"} : GeneratorStops(how)

AiNext == Drive \/ DriveStep \/ \E a \in Artifact : Advance(a)

\* a call of run_to_completion goes on until it returns
Fairness == WF_aiVars(DriveStep)

AiSpec == AiInit /\ [][AiNext]_aiVars /\ Fairness

-----------------------------------------------------------------------------
AiTypeOK == artifacts \in Seq(Artifact) /\ driving \in BOOLEAN /\ result \in {"none", "ok", "error"}

\* Pipeline::is_passing
IsPassing == artifacts # <<>> /\ Last(artifacts).stage = "audit" /\ Last(artifacts).pass

\* Whatever the operator and the generator offer, and in whatever order, the artifacts are the
\* stages in their order with none left out: a pipeline that passes its audit has all six.
NoStageSkipped ==
  /\ Len(artifacts) <= Len(Stages)
  /\ \A i \in DOMAIN artifacts : artifacts[i].stage = Stages[i]
  /\ IsPassing => Len(artifacts) = Len(Stages)

\* A generator that always answers cannot keep run_to_completion going for ever.
DriveReturns == driving ~> ~driving
=============================================================================
