----------------------------- MODULE MCMachines -------------------------------
(***************************************************************************)
(* The session log, and beside it the small machines that share no state   *)
(* with it or with each other, for one run of TLC: `part` chooses one at   *)
(* the start and its steps are the only ones, so that the others stay in   *)
(* one initial state.                                                      *)
(***************************************************************************)
EXTENDS EventLog, ContextCache, AuditLog, Recovery, AiPipeline, Paywall, ExtensionHost,
        Resumption, IdentityChain, PhaseRunner, OperatorFiles

VARIABLE part

\* both sessions in one site, or each in its own
MCPlacements == {[s1 |-> "a", s2 |-> "a"], [s1 |-> "a", s2 |-> "b"]}

F(p, s, r) == [phase |-> p, severity |-> s, rule |-> r]
MCPhaseList == <<"validate_cms", "csp", "render", "sri">>
MCOutcomes ==
  [p \in {"validate_cms", "csp", "render", "sri"} |->
     {<<>>, <<F(p, "warn", "a")>>, <<F(p, "strict", "b")>>,
      <<F(p, "warn", "a"), F(p, "strict", "b")>>, Err}]
MCPolicies ==
  {[promote |-> {}, exempt |-> {}],
   [promote |-> {"csp"}, exempt |-> {}],
   [promote |-> {"csp"}, exempt |-> {<<"csp", "a">>, <<"sri", "b">>}]}

ASSUME PartsAssumption == CacheAssumption

\* what Listing says of the libraries' operators, on short sequences and small sets
ASSUME ListingAgrees ==
  /\ \A s \in UNION {[1..n -> {"a", "b", "c"}] : n \in 0..4}, T \in SUBSET {"a", "b", "c"} :
       Picked(s, {i \in DOMAIN s : s[i] \in T}) = SelectSeq(s, LAMBDA x : x \in T)
  /\ \A S \in SUBSET (1..4) : Upwards(S) = SetToSortSeq(S, <)

machineVars == <<part, vars, ctxVars, logVars, drVars, aiVars, payVars, hostVars, briefVars,
                 idVars, runnerVars, filesVars>>

MachinesInit ==
  /\ part \in {"events", "runner", "log", "recovery", "ai", "paywall", "host", "cache", "brief",
               "identity", "files"}
  /\ Init
  /\ CacheInit /\ (part # "cache" => session["s2"].root = "a")
  /\ LogInit
  /\ RecoveryInit /\ (part # "recovery" => active = "r1" /\ standby = <<"r2", "r3">>)
  /\ AiInit /\ (part # "ai" => artifacts = <<>>)
  /\ PayInit /\ (part # "paywall" => held = NoTier /\ paywall.strategy = "open"
                                          /\ paywall.min_tier = NoTier)
  /\ HostInit
  /\ BriefInit
  /\ IdInit
  /\ RunnerInit /\ (part # "runner" => /\ \A p \in Phases : site[p] = <<>>
                                       /\ mode = "poc" /\ policy = [promote |-> {}, exempt |-> {}])
  /\ FilesInit

\* a step of one part leaves the others alone
Only(who, step, others) == part = who /\ step /\ UNCHANGED <<part, others>>

MachinesNext ==
  \/ Only("events", Next, <<ctxVars, logVars, drVars, aiVars, payVars, hostVars, briefVars, idVars, runnerVars, filesVars>>)
  \/ Only("cache", CacheNext, <<vars, logVars, drVars, aiVars, payVars, hostVars, briefVars, idVars, runnerVars, filesVars>>)
  \/ Only("log", LogNext, <<vars, ctxVars, drVars, aiVars, payVars, hostVars, briefVars, idVars, runnerVars, filesVars>>)
  \/ Only("recovery", FailOver, <<vars, ctxVars, logVars, aiVars, payVars, hostVars, briefVars, idVars, runnerVars, filesVars>>)
  \/ Only("ai", AiNext, <<vars, ctxVars, logVars, drVars, payVars, hostVars, briefVars, idVars, runnerVars, filesVars>>)
  \/ Only("paywall", PayNext, <<vars, ctxVars, logVars, drVars, aiVars, hostVars, briefVars, idVars, runnerVars, filesVars>>)
  \/ Only("host", HostNext, <<vars, ctxVars, logVars, drVars, aiVars, payVars, briefVars, idVars, runnerVars, filesVars>>)
  \/ Only("brief", BriefNext, <<vars, ctxVars, logVars, drVars, aiVars, payVars, hostVars, idVars, runnerVars, filesVars>>)
  \/ Only("identity", IdNext, <<vars, ctxVars, logVars, drVars, aiVars, payVars, hostVars, briefVars, runnerVars, filesVars>>)
  \/ Only("runner", RunnerNext, <<vars, ctxVars, logVars, drVars, aiVars, payVars, hostVars, briefVars, idVars, filesVars>>)
  \/ Only("files", FilesNext, <<vars, ctxVars, logVars, drVars, aiVars, payVars, hostVars, briefVars, idVars, runnerVars>>)

MachinesSpec == MachinesInit /\ [][MachinesNext]_machineVars /\ Fairness

-----------------------------------------------------------------------------
(* The properties are those of the parts' modules, and here:               *)

\* the type invariants of the parts
PartsTypeOK ==
  /\ CacheTypeOK /\ LogTypeOK /\ RecoveryTypeOK /\ AiTypeOK /\ PayTypeOK /\ HostTypeOK
  /\ BriefTypeOK /\ IdTypeOK /\ RunnerTypeOK /\ FilesTypeOK
=============================================================================
