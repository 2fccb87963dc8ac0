---------------------------- MODULE UniquenessGate ----------------------------
(***************************************************************************)
(* The uniqueness gate (forge-phases/src/uniqueness_gate.rs), a phase of   *)
(* `forge build` that compares the site with the fingerprint registry, and *)
(* its composition with the register command: sites that share a registry, *)
(* edit their content, build, and register what the gate let through.      *)
(*                                                                         *)
(* A fingerprint is that of a site with one page: the page's primitives in *)
(* document order and the bucket of its text length.  The gate reads the   *)
(* registry twice, once for an exact match and once for near duplicates.   *)
(***************************************************************************)
EXTENDS FingerprintRegistry, FiniteSetsExt

CONSTANTS
  Tenant,        \* site -> its tenant_id
  NoTenant,      \* the empty tenant_id
  AssetKinds,    \* primitive kinds counted by the asset distribution
  Threshold,     \* near_duplicate_threshold
  TenantScope    \* scope = "tenant" in forge.toml, else "platform"

ASSUME GateAssumption == Threshold \in Nat /\ TenantScope \in BOOLEAN

VARIABLES
  gate,          \* site -> its last build's uniqueness_gate phase
  cleared        \* history: entry -> the phase that let it be registered

vars == <<registryVars, gate, cleared>>

Findings == [rule: {"collision", "near_duplicate"}, entry: Nat, severity: {"strict", "warn"}]
              \union [rule: {"registry_unreadable"}, entry: {NoEntry}, severity: {"warn"}]

Gate == [pc: {"idle", "looking_up", "scanning", "done"},
         fp: Fingerprints \union {Unset}, findings: SUBSET Findings,
         looked: SUBSET Nat,    \* history: the entries the exact match was sought in
         scanned: SUBSET Nat]   \* history: the entries the scan compared

NoBuild == [pc |-> "idle", fp |-> Unset, findings |-> {}, looked |-> {}, scanned |-> {}]

TypeOK == RegistryTypeOK /\ gate \in [Sites -> Gate] /\ cleared \in Seq(Gate)

Init ==
  /\ RegistryInit
  /\ gate = [s \in Sites |-> NoBuild]
  /\ cleared = <<>>

-----------------------------------------------------------------------------
(* SiteFingerprint *)

Count(prims, kind) == Cardinality({i \in DOMAIN prims : prims[i] = kind})
AbsDiff(m, n) == IF m > n THEN m - n ELSE n - m
Kinds(prims) == {prims[i] : i \in DOMAIN prims}

(* component_distance: the multiset difference of the primitives, one for   *)
(* another text bucket, one for another section count, and the difference   *)
(* of the asset counts.                                                     *)
Distance(a, b) ==
  LET diff(kind) == AbsDiff(Count(a.prims, kind), Count(b.prims, kind))
      plus(kind, sum) == sum + diff(kind) * (IF kind \in AssetKinds THEN 2 ELSE 1)
  IN FoldSet(plus, 0, Kinds(a.prims) \union Kinds(b.prims))
       + (IF a.chars = b.chars THEN 0 ELSE 1)
       + (IF Len(a.prims) = Len(b.prims) THEN 0 ELSE 1)

(* commitment: over the fields in order, so equal fingerprints only.        *)
SameCommitment(a, b) == a = b

-----------------------------------------------------------------------------
(* UniquenessGatePhase::run *)

(* The entries of the registry, and what a reader gets of them.             *)
Listed == {registry[i] : i \in Positions}
Read   == IF Readable(registry) THEN Listed ELSE {}

(* find_by_hash: the first entry with the candidate's commitment.           *)
FirstMatch(fp) ==
  LET hits == {i \in Positions : SameCommitment(entry[registry[i]].fp, fp)}
  IN IF hits = {} THEN NoEntry ELSE registry[Min(hits)]

Unreadable == [rule |-> "registry_unreadable", entry |-> NoEntry, severity |-> "warn"]

(* The phase starts: the fingerprint is built from cms/; without a registry *)
(* it ends at once.                                                         *)
StartGate(s, fp) ==
  /\ gate[s].pc \in {"idle", "done"}
  /\ ~Registering(s)
  /\ gate' = [gate EXCEPT ![s] =
       [NoBuild EXCEPT !.pc = IF registry = <<>> THEN "done" ELSE "looking_up", !.fp = fp]]
  /\ UNCHANGED <<registryVars, cleared>>

(* The exact-match check.                                                   *)
LookUp(s) ==
  /\ gate[s].pc = "looking_up"
  /\ LET match == FirstMatch(gate[s].fp)
         collision == [rule |-> "collision", entry |-> match, severity |-> "strict"]
     IN gate' = [gate EXCEPT ![s].pc = "scanning", ![s].looked = Read, ![s].findings =
          IF ~Readable(registry) THEN {Unreadable}
          ELSE IF match # NoEntry /\ entry[match].site # s THEN {collision} ELSE {}]
  /\ UNCHANGED <<registryVars, cleared>>

\* Mutant of NearSeverity: a severity nobody knows.
NearSeverityInfo(s, id) == IF TenantScope THEN "warn" ELSE "info"

(* Platform scope refuses any near duplicate, tenant scope only those of    *)
(* the site's own tenant.                                                   *)
NearSeverity(s, id) ==
  IF ~TenantScope \/ (Tenant[entry[id].site] = Tenant[s] /\ Tenant[s] # NoTenant)
  THEN "strict" ELSE "warn"

\* Mutant of NearDuplicates: the threshold itself is allowed.
NearerThanThreshold(s, fp) ==
  {id \in Listed : /\ Distance(fp, entry[id].fp) \in 1..(Threshold - 1)
                   /\ entry[id].site # s}

(* The entries the scan reports: other sites', at a distance up to the      *)
(* threshold but not 0.                                                     *)
NearDuplicates(s, fp) ==
  {id \in Listed : /\ Distance(fp, entry[id].fp) \in 1..Threshold
                   /\ entry[id].site # s}

(* The near-duplicate scan, a second reading, and the end of the phase.     *)
Scan(s) ==
  /\ gate[s].pc = "scanning"
  /\ gate' = [gate EXCEPT ![s].pc = "done", ![s].scanned = Read, ![s].findings = @ \union
       IF ~Readable(registry) THEN {Unreadable}
       ELSE {[rule |-> "near_duplicate", entry |-> id, severity |-> NearSeverity(s, id)]
               : id \in NearDuplicates(s, gate[s].fp)}]
  /\ UNCHANGED <<registryVars, cleared>>

(* The build passes, in every mode but production, without a strict finding.*)
Passed(s) ==
  /\ gate[s].pc = "done"
  /\ \A finding \in gate[s].findings : finding.severity # "strict"

(* The register command does not ask for a build. The history keeps the     *)
(* phase of the site's last build when it let this content through.         *)
StartGatedRegister(s, fp) ==
  /\ gate[s].pc \in {"idle", "done"}
  /\ StartRegister(s, fp)
  /\ gate' = [gate EXCEPT ![s] = IF Passed(s) /\ gate[s].fp = fp THEN @ ELSE NoBuild]
  /\ UNCHANGED cleared

(* What a command composes is noted with the phase that let it through.     *)
RegisterSite(s) ==
  /\ RegisterSteps(s)
  /\ cleared' = IF entry' = entry THEN cleared ELSE Append(cleared, gate[s])
  /\ UNCHANGED gate

Next == \E s \in Sites :
  \/ \E fp \in Fingerprints : StartGate(s, fp) \/ StartGatedRegister(s, fp)
  \/ LookUp(s) \/ Scan(s)
  \/ RegisterSite(s)

Spec == Init /\ [][Next]_vars

-----------------------------------------------------------------------------
(* Properties *)

(* Sites the configured scope compares.                                     *)
SameScope(a, b) == TenantScope => Tenant[a] = Tenant[b] /\ Tenant[a] # NoTenant

(* The line of entry `k` comes before that of entry `j`.                    *)
Before(k, j) ==
  \E p, q \in Positions : p < q /\ registry[p] = k /\ registry[q] = j

(* No entry of another site that the scope compares and that was scanned is *)
(* near: within the threshold, but not at distance 0.                       *)
NoneNear(phase, s, fp) ==
  \A id \in phase.scanned :
    entry[id].site # s /\ SameScope(s, entry[id].site)
      => Distance(fp, entry[id].fp) \notin 1..Threshold

(* An equal entry of another site that was looked for comes after an equal  *)
(* one of the site's own, where the look-up stops.                          *)
EqualsHidden(phase, s, fp) ==
  \A id \in phase.looked :
    entry[id].site # s /\ SameCommitment(entry[id].fp, fp)
      => \E k \in phase.looked :
           entry[k].site = s /\ SameCommitment(entry[k].fp, fp) /\ Before(k, id)

(* What the gate is worth, whatever overlaps: when a build let a site be    *)
(* registered, every registered site near to it was registered after that   *)
(* build scanned the registry, and every one equal to it was registered     *)
(* after the build's look-up or is hidden from it by an older entry of the  *)
(* site itself.  Distance 0 without equality escapes (EveryMatchRefused).   *)
SitesAreApart ==
  \A id \in Salvaged(registry) :
    /\ NoneNear(cleared[id], entry[id].site, entry[id].fp)
    /\ EqualsHidden(cleared[id], entry[id].site, entry[id].fp)

-----------------------------------------------------------------------------
(* What comments and docs of the code say and TLC refutes (the README lists *)
(* each with its runs or its settings).                                     *)

(* "Exact-match was already emitted above; skip distance-0 self-emit": an   *)
(* entry of another site that the scan skips for its distance 0 has been    *)
(* reported as a collision.  Only entries a phase has seen are asked about. *)
SkippedWasReported ==
  \A s \in Sites :
    gate[s].pc = "scanning" /\ Readable(registry) =>
      \A id \in Listed :
        entry[id].site # s /\ SameCommitment(entry[id].fp, gate[s].fp)
          => \E finding \in gate[s].findings : finding.rule = "collision"

(* "Scan for near-duplicates with component_distance <= the configured      *)
(* threshold ... Each match emits a strict finding when scope = platform":  *)
(* a build the gate let through is beyond the threshold of every site that  *)
(* is still registered as it was then.                                      *)
EveryMatchRefused ==
  \A s \in Sites :
    gate[s].pc = "scanning" /\ Readable(registry) =>
      \A id \in Listed :
        entry[id].site # s /\ Distance(gate[s].fp, entry[id].fp) <= Threshold
          => \/ id \in NearDuplicates(s, gate[s].fp)
             \/ \E finding \in gate[s].findings : finding.severity = "strict"
=============================================================================
