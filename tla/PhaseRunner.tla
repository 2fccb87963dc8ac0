----------------------------- MODULE PhaseRunner -----------------------------
(***************************************************************************)
(* The two runners of `forge build`: the flat loop over the phase list and *)
(* the type-state pipeline (FORGE_PIPELINE=1), which runs the same list in *)
(* the stages parse, render and audit.  Both run here on one unchanging    *)
(* site, one after the other, so that what they report can be compared.    *)
(*                                                                         *)
(* A phase returns its findings or an error.  The flat loop promotes and   *)
(* then filters the findings of each phase as [strict] and [strict.exempt] *)
(* say and stores what is left; the pipeline collects the findings of a    *)
(* stage, merges them and makes the report of all of them at the end.  An  *)
(* error ends either without a report.  The discovery stage finds nothing  *)
(* and the stages' artifacts are empty.                                    *)
(***************************************************************************)
EXTENDS Listing, SequencesExt

CONSTANTS
  PhaseList,   \* the phases, in the order of the list in run
  Outcomes,    \* phase -> what it may return on a site: findings, or Err
  Policies,    \* [strict]: [promote: sets of phases, exempt: sets of <<phase, rule>>]
  Modes,       \* build modes in use
  Err,         \* a phase that returns a BuildError
  NoReport     \* what the runner that has not ended has

Phases == ToSet(PhaseList)
Runners == {"flat", "pipeline"}
StageNames == <<"parse", "render", "audit">>

\* what the properties tell apart of a finding, and of a report with what the runner counts
Finding == [phase : Phases, severity : {"strict", "warn"}, rule : STRING]
Report == [findings : Seq(Finding), strict_count : Nat, warn_count : Nat,
           suppressed : Nat, promoted : Nat, ran : Seq(Phases), clean : Nat]

\* A finding names the phase that made it; Err and NoReport are no reports.
ASSUME RunnerAssumption ==
  /\ PhaseList \in Seq(STRING) /\ IsInjective(PhaseList)
  /\ Modes \subseteq {"poc", "production", "static", "hybrid", "dynamic"}
  /\ Err \notin Report /\ NoReport \notin Report \union {Err}
  /\ \A p \in Phases : \A found \in Outcomes[p] \ {Err} :
       found \in Seq(Finding) /\ \A i \in DOMAIN found : found[i].phase = p

VARIABLES
  site,      \* phase -> what it returns
  mode,
  policy,    \* [strict] and [strict.exempt], as the flat loop loaded them
  run,       \* the run in progress: [runner, stage, left, held, ran]
  reports    \* runner -> its report, NoReport before it ends and Err if a phase failed

runnerVars == <<site, mode, policy, run, reports>>

NoRun == [runner |-> "none", stage |-> 0, left |-> <<>>, held |-> <<>>, ran |-> <<>>]
EmptyReport == [findings |-> <<>>, strict_count |-> 0, warn_count |-> 0,
                suppressed |-> 0, promoted |-> 0, ran |-> <<>>, clean |-> 0]

RunnerTypeOK ==
  /\ \A p \in Phases : site[p] \in Outcomes[p]
  /\ mode \in Modes /\ policy \in Policies
  /\ run \in [runner : Runners \union {"none"}, stage : 0..3, left : Seq(Phases),
              held : Seq(Finding), ran : Seq(Phases)]
  /\ reports \in [Runners -> Report \union {NoReport, Err}]

RunnerInit ==
  /\ site \in [Phases -> UNION {Outcomes[p] : p \in Phases}]
  /\ \A p \in Phases : site[p] \in Outcomes[p]
  /\ mode \in Modes /\ policy \in Policies
  /\ run = NoRun
  /\ reports = [r \in Runners |-> NoReport]

-----------------------------------------------------------------------------
(* Findings and the report.                                                *)

\* StrictPromotions::load: a [strict.exempt] table does not parse as a promotion, and then
\* every promotion is lost.
Promoted(p) == policy.exempt = {} /\ p \in policy.promote

Promote(f) == IF Promoted(f.phase) THEN [f EXCEPT !.severity = "strict"] ELSE f
Exempt(f) == <<f.phase, f.rule>> \in policy.exempt

WithSeverity(found, severity) == {i \in DOMAIN found : found[i].severity = severity}

\* BuildReport::push, for each finding in turn
PushAll(report, found) ==
  [report EXCEPT !.findings = @ \o found,
                 !.strict_count = @ + Cardinality(WithSeverity(found, "strict")),
                 !.warn_count = @ + Cardinality(WithSeverity(found, "warn"))]

\* Severity::blocks_in and BuildReport::passed
Blocks(f) == f.severity = "strict" \/ mode = "production"
Passed(report) == \A i \in DOMAIN report.findings : ~Blocks(report.findings[i])

\* BuildReport::summarize_by_phase, before its sort: the phases that have findings
Tally(report) ==
  LET Of(p) == {i \in DOMAIN report.findings : report.findings[i].phase = p}
  IN  [p \in {report.findings[i].phase : i \in DOMAIN report.findings} |->
         [count |-> Cardinality(Of(p)),
          strict_count |-> Cardinality(Of(p) \intersect WithSeverity(report.findings, "strict"))]]

-----------------------------------------------------------------------------
(* The flat loop.                                                          *)

StartFlat ==
  /\ run.runner = "none" /\ reports["flat"] = NoReport
  /\ run' = [NoRun EXCEPT !.runner = "flat", !.left = PhaseList]
  /\ reports' = [reports EXCEPT !["flat"] = EmptyReport]
  /\ UNCHANGED <<site, mode, policy>>

\* Mutant of Kept: filtered before it is promoted, and the promotion then dropped
KeptUnpromoted(found) == Picked(found, {i \in DOMAIN found : ~Exempt(found[i])})

\* what promote and then filter leave of a phase's findings
Kept(found) ==
  LET promoted == [i \in DOMAIN found |-> Promote(found[i])]
  IN  Picked(promoted, {i \in DOMAIN found : ~Exempt(promoted[i])})

RunFlatPhase ==
  /\ run.runner = "flat" /\ run.left # <<>> /\ site[Head(run.left)] # Err
  /\ LET found  == site[Head(run.left)]
         report == PushAll(reports["flat"], Kept(found))
     IN  reports' = [reports EXCEPT !["flat"] =
           [report EXCEPT
              !.suppressed = @ + Len(found) - Len(Kept(found)),
              !.promoted = @ + Cardinality({i \in WithSeverity(found, "warn") :
                                             Promoted(found[i].phase)}),
              !.ran = Append(@, Head(run.left))]]
  /\ run' = [run EXCEPT !.left = Tail(@), !.ran = Append(@, Head(run.left))]
  /\ UNCHANGED <<site, mode, policy>>

\* `?` on the phase: the report so far is dropped with the run
PhaseFails ==
  /\ run.runner # "none" /\ run.left # <<>> /\ site[Head(run.left)] = Err
  /\ reports' = [reports EXCEPT ![run.runner] = Err]
  /\ run' = NoRun
  /\ UNCHANGED <<site, mode, policy>>

EndFlat ==
  /\ run.runner = "flat" /\ run.left = <<>>
  /\ run' = NoRun
  /\ UNCHANGED <<site, mode, policy, reports>>

-----------------------------------------------------------------------------
(* The pipeline.                                                           *)

\* Mutant of StageOf: a renamed phase falls out of its stage
StageOfRenamed(p) ==
  CASE p \in {"validate_cms", "loom_sync"} -> "parse"
    [] p \in {"render_phase", "self_check"} -> "render"
    [] OTHER -> "audit"

\* is_parse and is_render
StageOf(p) ==
  CASE p \in {"validate_cms", "loom_sync"} -> "parse"
    [] p \in {"render", "self_check"} -> "render"
    [] OTHER -> "audit"

\* Mutant of PhasesOf: the audit stage is given the whole list
PhasesOfUnfiltered(s) == IF s = 3 THEN PhaseList
                         ELSE Picked(PhaseList, {i \in DOMAIN PhaseList :
                                                   StageOf(PhaseList[i]) = StageNames[s]})

PhasesOf(s) ==
  Picked(PhaseList, {i \in DOMAIN PhaseList : StageOf(PhaseList[i]) = StageNames[s]})

\* Pipeline::start and discover
StartPipeline ==
  /\ run.runner = "none" /\ reports["pipeline"] = NoReport
  /\ run' = [NoRun EXCEPT !.runner = "pipeline", !.stage = 1, !.left = PhasesOf(1)]
  /\ UNCHANGED <<site, mode, policy, reports>>

RunStagePhase ==
  /\ run.runner = "pipeline" /\ run.left # <<>> /\ site[Head(run.left)] # Err
  /\ run' = [run EXCEPT !.left = Tail(@), !.held = @ \o site[Head(run.left)],
                        !.ran = Append(@, Head(run.left))]
  /\ UNCHANGED <<site, mode, policy, reports>>

\* parse, render: the transition merges the findings of the stage
EndStage ==
  /\ run.runner = "pipeline" /\ run.left = <<>> /\ run.stage < 3
  /\ run' = [run EXCEPT !.stage = @ + 1, !.left = PhasesOf(run.stage + 1)]
  /\ UNCHANGED <<site, mode, policy, reports>>

\* audit and into_report
IntoReport ==
  /\ run.runner = "pipeline" /\ run.left = <<>> /\ run.stage = 3
  /\ reports' = [reports EXCEPT !["pipeline"] =
       [PushAll(EmptyReport, run.held) EXCEPT
          !.ran = run.ran,
          !.clean = Cardinality({i \in DOMAIN run.ran :
                                  StageOf(run.ran[i]) = "audit" /\ site[run.ran[i]] = <<>>})]]
  /\ run' = NoRun
  /\ UNCHANGED <<site, mode, policy>>

RunnerNext == \/ StartFlat \/ RunFlatPhase \/ EndFlat \/ PhaseFails
        \/ StartPipeline \/ RunStagePhase \/ EndStage \/ IntoReport

RunnerSpec == RunnerInit /\ [][RunnerNext]_runnerVars

-----------------------------------------------------------------------------
(* Properties                                                              *)

Ended(r) == reports[r] \notin {NoReport, Err} /\ run.runner # r
Findings(report, p) ==
  Picked(report.findings, {i \in DOMAIN report.findings : report.findings[i].phase = p})

\* However the list is cut into stages, a run that ends has run every phase exactly once, and
\* render before every phase the pipeline calls an audit.
EachPhaseOnce ==
  \A r \in Runners : Ended(r) =>
    /\ IsInjective(reports[r].ran) /\ ToSet(reports[r].ran) = Phases
    /\ r = "pipeline" => \A i, j \in DOMAIN reports[r].ran :
         reports[r].ran[i] = "render" /\ StageOf(reports[r].ran[j]) = "audit" => i < j

\* The pipeline is to replace the loop without a regression: on a site that sets no [strict]
\* policy the two end in the same way, phase by phase and in the verdict.
RunnersAgree ==
  policy = [promote |-> {}, exempt |-> {}] =>
    /\ Ended("flat") /\ Ended("pipeline") =>
         /\ \A p \in Phases : Findings(reports["flat"], p) = Findings(reports["pipeline"], p)
         /\ Passed(reports["flat"]) = Passed(reports["pipeline"])
    /\ run.runner = "none" /\ Err \in {reports[r] : r \in Runners} =>
         \A r \in Runners : reports[r] \in {NoReport, Err}

\* What the flat loop reports of a phase is what the phase found, without what [strict.exempt]
\* lists; so an exempt finding never fails a build.  Where nothing is exempt, what [strict]
\* promotes is strict; so a promoted phase that warns fails it.  Of promotions beside exemptions
\* this says nothing: the code then drops every promotion, against strict_exempts.rs, which has
\* both apply (SiteBuild!PromotedOrphanBlocks is refuted by it).  The tally by phase and the
\* counters account for every finding.
PolicyIsApplied ==
  Ended("flat") =>
    LET report == reports["flat"]
        tally  == Tally(report)
    IN  /\ \A p \in Phases :
             /\ Len(Findings(report, p)) =
                  Cardinality({i \in DOMAIN site[p] :
                                <<p, site[p][i].rule>> \notin policy.exempt})
             /\ policy.exempt = {} /\ p \in policy.promote =>
                  \A i \in DOMAIN Findings(report, p) :
                    Findings(report, p)[i].severity = "strict"
        /\ report.strict_count + report.warn_count = Len(report.findings)
        /\ report.strict_count =
             Cardinality(UNION {{p} \X (1..tally[p].strict_count) : p \in DOMAIN tally})
=============================================================================
