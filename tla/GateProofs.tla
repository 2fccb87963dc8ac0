----------------------------- MODULE GateProofs -----------------------------
(***************************************************************************)
(* Proof of what the uniqueness gate is worth, for any number of sites,    *)
(* tenants, fingerprints and entries, any threshold and any distance, with *)
(* commands and builds that overlap, die and register what no build saw:   *)
(* a registration that a build let through is near only to entries that    *)
(* were not there to be scanned, and equal only to entries that were not   *)
(* there to be looked up or that the site's own older entry hides.         *)
(***************************************************************************)
EXTENDS RegistryProofs, WellFoundedInduction

NoStrict(phase) == \A finding \in phase.findings : finding.severity # "strict"

(* What a phase without a strict finding has found out of a site's content. *)
Vouches(phase, s, fp) == NoneNear(phase, s, fp) /\ EqualsHidden(phase, s, fp)

(* What a phase read was composed.                                          *)
Known(phase) == phase.looked \union phase.scanned \subseteq 1..Len(entry)

GateType == gate \in [Sites -> Gate] /\ cleared \in Seq(Gate)

(* A phase vouches for the content it started with, as far as it got.       *)
PhaseSound(s) ==
  /\ Known(gate[s])
  /\ gate[s].pc # "done" => gate[s].scanned = {}
  /\ gate[s].pc \in {"idle", "looking_up"} => gate[s].looked = {}
  /\ NoStrict(gate[s]) => Vouches(gate[s], s, gate[s].fp)

(* While a site registers its last phase has ended, and what it let through *)
(* is what is being registered.                                             *)
Held(s) ==
  Registering(s) =>
    \/ gate[s] = NoBuild
    \/ Passed(s) /\ (register[s].pc = "stamped" => gate[s].fp = register[s].fp)

ClearedSound ==
  /\ Len(cleared) = Len(entry)
  /\ \A id \in 1..Len(entry) :
       Known(cleared[id]) /\ Vouches(cleared[id], entry[id].site, entry[id].fp)

GInv ==
  /\ GateType
  /\ \A s \in Sites : PhaseSound(s) /\ Held(s)
  /\ ClearedSound

-----------------------------------------------------------------------------
(* Reading the registry.                                                    *)

LEMMA LeastPosition ==
  ASSUME NEW S \in SUBSET Nat, S # {}
  PROVE  Min(S) \in S /\ \A i \in S : Min(S) <= i
<1> DEFINE R == OpToRel(<, Nat)
<1>1. IsWellFoundedOn(R, Nat)
  BY NatLessThanWellFounded
<1>2. \A i, j \in Nat : <<i, j>> \in R <=> i < j
  BY DEF OpToRel
<1> HIDE DEF R
<1>3. \E i \in S : \A j \in S : ~(<<j, i>> \in R)
  BY <1>1, WFMin
<1>4. \E i \in S : \A j \in S : i <= j
  <2>1. PICK i \in S : \A j \in S : ~(<<j, i>> \in R)
    BY <1>3
  <2>2. ASSUME NEW j \in S PROVE i <= j
    <3>1. i \in Nat /\ j \in Nat /\ ~(j < i)
      BY <1>2, <2>1
    <3> QED
      BY <3>1
  <2> QED
    BY <2>2
<1> QED
  BY <1>4 DEF Min

LEMMA ListedIds ==
  ASSUME RInv
  PROVE  /\ Listed \subseteq 1..Len(entry) /\ Read \subseteq 1..Len(entry)
         /\ 1..Len(entry) \subseteq Nat /\ Len(entry) \in Nat
         /\ \A id \in 1..Len(entry) : entry[id] \in Entry
BY DEF Listed, Read, RInv, RefsOK, RegistryTypeOK

LEMMA SalvagedIsListed == ASSUME RInv PROVE Salvaged(registry) \subseteq Listed
BY DEF Salvaged, LineParses, Listed, Positions

(* The first match of a fingerprint that is listed is an entry with it, and *)
(* comes before every other one.                                            *)
LEMMA FirstMatchFinds ==
  ASSUME RInv, NEW fp
  PROVE  /\ FirstMatch(fp) \in Nat
         /\ FirstMatch(fp) = NoEntry => \A id \in Listed : entry[id].fp # fp
         /\ FirstMatch(fp) # NoEntry =>
              /\ FirstMatch(fp) \in Listed /\ entry[FirstMatch(fp)].fp = fp
              /\ \A id \in Listed : entry[id].fp = fp /\ id # FirstMatch(fp)
                   => Before(FirstMatch(fp), id)
<1> DEFINE hits == {i \in Positions : entry[registry[i]].fp = fp}
<1>1. FirstMatch(fp) = IF hits = {} THEN NoEntry ELSE registry[Min(hits)]
  BY DEF FirstMatch, SameCommitment
<1>2. hits \subseteq Nat /\ Positions \subseteq Nat
  BY DEF Positions, RInv, RegistryTypeOK
<1>3. \A i \in Positions : registry[i] \in 1..Len(entry)
  BY DEF RInv, RefsOK
<1>4. CASE hits = {}
  BY <1>1, <1>4 DEF NoEntry, Listed
<1>5. CASE hits # {}
  <2>1. PICK i : i = Min(hits) /\ i \in hits /\ \A j \in hits : i <= j
    BY <1>2, <1>5, LeastPosition
  <2>2. i \in Positions /\ entry[registry[i]].fp = fp
    BY <2>1
  <2>3. FirstMatch(fp) = registry[i]
    BY <1>1, <1>5, <2>1
  <2>4. registry[i] \in Nat /\ registry[i] # NoEntry
    <3>1. Len(entry) \in Nat
      BY DEF RInv, RegistryTypeOK
    <3> QED
      BY <1>3, <2>2, <3>1 DEF NoEntry
  <2>5. ASSUME NEW id \in Listed, entry[id].fp = fp, id # registry[i] PROVE Before(registry[i], id)
    <3>1. PICK j \in Positions : registry[j] = id
      BY DEF Listed
    <3>2. j \in hits /\ j # i
      BY <2>5, <3>1
    <3>3. i < j
      BY <1>2, <2>1, <3>2
    <3> QED
      BY <2>2, <3>1, <3>3 DEF Before
  <2> QED
    BY <2>2, <2>3, <2>4, <2>5 DEF Listed
<1> QED
  BY <1>4, <1>5

-----------------------------------------------------------------------------
(* A phase that begins, and its two readings.                               *)

(* What a phase reads without a strict finding.                             *)
LEMMA LookUpSees ==
  ASSUME RInv, NEW s \in Sites, NEW phase, phase.looked = Read, Readable(registry),
         \/ FirstMatch(phase.fp) = NoEntry
         \/ entry[FirstMatch(phase.fp)].site = s
  PROVE  EqualsHidden(phase, s, phase.fp)
<1> SUFFICES ASSUME NEW id \in Listed, entry[id].site # s, entry[id].fp = phase.fp
             PROVE  \E k \in Listed :
                      entry[k].site = s /\ entry[k].fp = phase.fp /\ Before(k, id)
  BY DEF EqualsHidden, SameCommitment, Read
<1>1. FirstMatch(phase.fp) # NoEntry /\ entry[FirstMatch(phase.fp)].site = s
  BY FirstMatchFinds
<1>2. Before(FirstMatch(phase.fp), id)
  BY <1>1, FirstMatchFinds
<1> QED
  BY <1>1, <1>2, FirstMatchFinds

LEMMA ScanSees ==
  ASSUME NEW s \in Sites, NEW phase, phase.scanned = Read, Readable(registry),
         \A id \in NearDuplicates(s, phase.fp) : NearSeverity(s, id) # "strict"
  PROVE  NoneNear(phase, s, phase.fp)
<1> SUFFICES ASSUME NEW id \in Listed, entry[id].site # s, SameScope(s, entry[id].site),
                    Distance(phase.fp, entry[id].fp) \in 1..Threshold
             PROVE  FALSE
  BY DEF NoneNear, Read
<1>1. id \in NearDuplicates(s, phase.fp)
  BY DEF NearDuplicates
<1>2. NearSeverity(s, id) = "strict"
  BY DEF NearSeverity, SameScope
<1> QED
  BY <1>1, <1>2

LEMMA NoBuildVouches ==
  /\ NoBuild \in Gate /\ NoBuild.pc = "idle" /\ Known(NoBuild)
  /\ NoBuild.looked = {} /\ NoBuild.scanned = {}
  /\ \A s, fp : Vouches(NoBuild, s, fp)
BY DEF NoBuild, Gate, Known, Vouches, NoneNear, EqualsHidden

(* A step that leaves the registry alone and replaces the phase of s.       *)
LEMMA PhaseStep ==
  ASSUME RInv, GInv, NEW s \in Sites, ~Registering(s), UNCHANGED <<registryVars, cleared>>,
         NEW phase \in Gate, gate' = [gate EXCEPT ![s] = phase],
         Known(phase),
         phase.pc # "done" => phase.scanned = {},
         phase.pc \in {"idle", "looking_up"} => phase.looked = {},
         NoStrict(phase) => Vouches(phase, s, phase.fp)
  PROVE  GInv'
<1>1. UNCHANGED <<registry, entry, register>> /\ gate \in [Sites -> Gate]
  BY DEF registryVars, GInv, GateType
<1>2. Positions' = Positions /\ \A k, j : Before(k, j)' <=> Before(k, j)
  BY <1>1 DEF Positions, Before
<1>3. \A p, t, fp : /\ Vouches(p, t, fp)' <=> Vouches(p, t, fp)
                    /\ Known(p)' <=> Known(p)
  BY <1>1, <1>2 DEF Vouches, NoneNear, EqualsHidden, SameScope, Known
<1>4. gate' \in [Sites -> Gate] /\ gate'[s] = phase
      /\ \A t \in Sites : t # s => gate'[t] = gate[t]
  BY <1>1
<1>5. \A t \in Sites : PhaseSound(t)'
  <2> TAKE t \in Sites
  <2>1. PICK q : q = gate'[t]
    OBVIOUS
  <2>2. /\ Known(q)
        /\ q.pc # "done" => q.scanned = {}
        /\ q.pc \in {"idle", "looking_up"} => q.looked = {}
        /\ NoStrict(q) => Vouches(q, t, q.fp)
    BY <1>4, <2>1 DEF GInv, PhaseSound
  <2>3. Known(q)' /\ (NoStrict(q) => Vouches(q, t, q.fp)')
    BY <1>3, <2>2
  <2> QED
    BY <2>1, <2>2, <2>3 DEF PhaseSound, NoStrict, Known, Vouches, NoneNear, EqualsHidden
<1>6. \A t \in Sites : Held(t)'
  BY <1>1, <1>4 DEF GInv, Held, Registering, Passed
<1>7. ClearedSound'
  BY <1>1, <1>3 DEF GInv, ClearedSound, Known, Vouches, NoneNear, EqualsHidden, SameScope, Before, Positions
<1> QED
  BY <1>4, <1>5, <1>6, <1>7 DEF GInv, GateType

(* What a site that registers has kept of its last build.                   *)
LEMMA BuildingIsNotRegistering ==
  ASSUME GInv, NEW s \in Sites, gate[s].pc \in {"looking_up", "scanning"}
  PROVE  ~Registering(s)
BY NoBuildVouches DEF GInv, Held, Passed

LEMMA StartGateStep ==
  ASSUME RInv, GInv, NEW s \in Sites, NEW fp \in Fingerprints, StartGate(s, fp) PROVE GInv'
<1> DEFINE phase == [NoBuild EXCEPT !.pc = IF registry = <<>> THEN "done" ELSE "looking_up",
                                    !.fp = fp]
<1>1. gate' = [gate EXCEPT ![s] = phase] /\ ~Registering(s)
      /\ UNCHANGED <<registryVars, cleared>>
  BY DEF StartGate
<1>2. phase \in Gate /\ phase.looked = {} /\ phase.scanned = {}
  BY DEF NoBuild, Gate
<1> HIDE DEF phase
<1>3. Known(phase) /\ Vouches(phase, s, phase.fp)
  BY <1>2 DEF Known, Vouches, NoneNear, EqualsHidden
<1> QED
  BY <1>1, <1>2, <1>3, PhaseStep

LEMMA LookUpStep ==
  ASSUME RInv, GInv, NEW s \in Sites, LookUp(s) PROVE GInv'
<1> DEFINE match == FirstMatch(gate[s].fp)
           collision == [rule |-> "collision", entry |-> match, severity |-> "strict"]
           found == IF ~Readable(registry) THEN {Unreadable}
                    ELSE IF match # NoEntry /\ entry[match].site # s THEN {collision} ELSE {}
           phase == [gate[s] EXCEPT !.pc = "scanning", !.looked = Read, !.findings = found]
<1>1. /\ gate \in [Sites -> Gate] /\ gate[s] \in Gate /\ gate[s].pc = "looking_up"
      /\ gate[s].scanned = {} /\ ~Registering(s)
  BY BuildingIsNotRegistering DEF GInv, GateType, LookUp, PhaseSound
<1>2. UNCHANGED <<registryVars, cleared>>
      /\ gate' = [gate EXCEPT ![s].pc = "scanning", ![s].looked = Read, ![s].findings = found]
  BY DEF LookUp
<1>3. found \subseteq Findings
  <2>1. Unreadable \in Findings /\ collision \in Findings
    BY FirstMatchFinds DEF Unreadable, Findings
  <2> QED
    BY <2>1
<1>4. ASSUME Readable(registry), \A finding \in found : finding.severity # "strict"
      PROVE  match = NoEntry \/ entry[match].site = s
  <2>1. collision.severity = "strict"
    OBVIOUS
  <2>2. match # NoEntry /\ entry[match].site # s => collision \in found
    BY <1>4
  <2> QED
    BY <1>4, <2>1, <2>2
<1>5. Read \subseteq 1..Len(entry) /\ Read \subseteq Nat
  BY ListedIds
<1> HIDE DEF found, match
<1>6. /\ phase \in Gate /\ phase.pc = "scanning" /\ phase.looked = Read
      /\ phase.scanned = {} /\ phase.fp = gate[s].fp /\ phase.findings = found
  BY <1>1, <1>3, <1>5 DEF Gate
<1>7. gate' = [gate EXCEPT ![s] = phase]
  BY <1>1, <1>2 DEF Gate
<1> HIDE DEF phase
<1>8. NoStrict(phase) => Vouches(phase, s, phase.fp)
  <2> SUFFICES ASSUME NoStrict(phase) PROVE Vouches(phase, s, phase.fp)
    OBVIOUS
  <2>1. NoneNear(phase, s, phase.fp)
    BY <1>6 DEF NoneNear
  <2>2. CASE Readable(registry)
    <3>1. match = NoEntry \/ entry[match].site = s
      BY <1>4, <1>6, <2>2 DEF NoStrict
    <3>2. EqualsHidden(phase, s, phase.fp)
      BY <1>6, <2>2, <3>1, LookUpSees DEF match
    <3> QED
      BY <2>1, <3>2 DEF Vouches
  <2>3. CASE ~Readable(registry)
    BY <1>6, <2>1, <2>3 DEF Vouches, EqualsHidden, Read
  <2> QED
    BY <2>2, <2>3
<1>9. Known(phase)
  BY <1>5, <1>6 DEF Known
<1> QED
  BY <1>1, <1>2, <1>6, <1>7, <1>8, <1>9, PhaseStep

LEMMA ScanStep ==
  ASSUME RInv, GInv, NEW s \in Sites, Scan(s) PROVE GInv'
<1> DEFINE near == {[rule |-> "near_duplicate", entry |-> id, severity |-> NearSeverity(s, id)]
                      : id \in NearDuplicates(s, gate[s].fp)}
           found == IF ~Readable(registry) THEN {Unreadable} ELSE near
           phase == [gate[s] EXCEPT !.pc = "done", !.scanned = Read,
                                    !.findings = gate[s].findings \union found]
<1>1. /\ gate \in [Sites -> Gate] /\ gate[s] \in Gate /\ gate[s].pc = "scanning"
      /\ ~Registering(s) /\ PhaseSound(s)
  BY BuildingIsNotRegistering DEF GInv, GateType, Scan
<1>2. gate' = [gate EXCEPT ![s].pc = "done", ![s].scanned = Read,
                           ![s].findings = gate[s].findings \union found]
      /\ UNCHANGED <<registryVars, cleared>>
  BY <1>1 DEF Scan
<1>3. found \subseteq Findings
  <2>1. Unreadable \in Findings
    BY DEF Unreadable, Findings
  <2>2. \A id \in NearDuplicates(s, gate[s].fp) :
          id \in Nat /\ NearSeverity(s, id) \in {"strict", "warn"}
    BY ListedIds DEF NearDuplicates, NearSeverity
  <2>3. near \subseteq Findings
    BY <2>2 DEF Findings
  <2> QED
    BY <2>1, <2>3
<1>4. ASSUME Readable(registry), \A finding \in found : finding.severity # "strict"
      PROVE  \A id \in NearDuplicates(s, gate[s].fp) : NearSeverity(s, id) # "strict"
  <2> TAKE id \in NearDuplicates(s, gate[s].fp)
  <2> DEFINE finding == [rule |-> "near_duplicate", entry |-> id, severity |-> NearSeverity(s, id)]
  <2>1. finding \in near /\ near = found
    BY <1>4
  <2>2. finding.severity = NearSeverity(s, id)
    OBVIOUS
  <2> HIDE DEF finding, near, found
  <2> QED
    BY <1>4, <2>1, <2>2
<1>5. Read \subseteq 1..Len(entry) /\ Read \subseteq Nat
  BY ListedIds
<1> HIDE DEF found
<1>6. /\ phase \in Gate /\ phase.pc = "done" /\ phase.scanned = Read
      /\ phase.looked = gate[s].looked /\ phase.fp = gate[s].fp
      /\ phase.findings = gate[s].findings \union found
  BY <1>1, <1>3, <1>5 DEF Gate
<1>7. gate' = [gate EXCEPT ![s] = phase]
  BY <1>1, <1>2 DEF Gate
<1> HIDE DEF phase
<1>8. NoStrict(phase) => Vouches(phase, s, phase.fp)
  <2> SUFFICES ASSUME NoStrict(phase) PROVE Vouches(phase, s, phase.fp)
    OBVIOUS
  <2>1. NoStrict(gate[s]) /\ \A finding \in found : finding.severity # "strict"
    BY <1>6 DEF NoStrict
  <2>2. EqualsHidden(phase, s, phase.fp)
    BY <1>1, <1>6, <2>1 DEF PhaseSound, Vouches, EqualsHidden
  <2>3. NoneNear(phase, s, phase.fp)
    <3>1. CASE Readable(registry)
      BY <1>4, <1>6, <2>1, <3>1, ScanSees
    <3>2. CASE ~Readable(registry)
      BY <1>6, <3>2 DEF NoneNear, Read
    <3> QED
      BY <3>1, <3>2
  <2> QED
    BY <2>2, <2>3 DEF Vouches
<1>9. Known(phase)
  BY <1>1, <1>5, <1>6 DEF PhaseSound, Known
<1> QED
  BY <1>1, <1>2, <1>6, <1>7, <1>8, <1>9, PhaseStep

-----------------------------------------------------------------------------
(* The steps of the register command.                                       *)

(* What a phase vouches for it vouches for as the registry grows.           *)
LEMMA VouchesKept ==
  ASSUME RInv, Positions \subseteq Positions',
         \A i \in Positions : registry'[i] = registry[i],
         Len(entry') >= Len(entry), Len(entry') \in Nat,
         \A id \in 1..Len(entry) : entry'[id] = entry[id],
         NEW phase, NEW s, NEW fp, Known(phase), Vouches(phase, s, fp)
  PROVE  Known(phase)' /\ Vouches(phase, s, fp)'
<1>1. Len(entry) \in Nat
  BY DEF RInv, RegistryTypeOK
<1>2. Known(phase)'
  BY <1>1 DEF Known
<1>3. \A k, j : Before(k, j) => Before(k, j)'
  BY DEF Before
<1>4. \A id \in phase.looked \union phase.scanned : entry'[id] = entry[id]
  BY DEF Known
<1>5. NoneNear(phase, s, fp)'
  BY <1>4 DEF Vouches, NoneNear, SameScope
<1>6. EqualsHidden(phase, s, fp)'
  BY <1>3, <1>4 DEF Vouches, EqualsHidden, SameCommitment
<1> QED
  BY <1>2, <1>5, <1>6 DEF Vouches

(* A step of the registry under which every gate stays as it is.            *)
LEMMA GatesKept ==
  ASSUME RInv, GInv, UNCHANGED gate, Positions \subseteq Positions',
         \A i \in Positions : registry'[i] = registry[i],
         Len(entry') >= Len(entry), Len(entry') \in Nat,
         \A id \in 1..Len(entry) : entry'[id] = entry[id],
         \A t \in Sites : register'[t].pc # "idle" => register[t].pc # "idle",
         \A t \in Sites : register'[t].pc = "stamped" => register'[t] = register[t]
  PROVE  \A t \in Sites : PhaseSound(t)' /\ Held(t)'
<1> TAKE t \in Sites
<1>1. PICK q : q = gate[t] /\ gate'[t] = q
  OBVIOUS
<1>2. /\ Known(q)
      /\ q.pc # "done" => q.scanned = {}
      /\ q.pc \in {"idle", "looking_up"} => q.looked = {}
      /\ NoStrict(q) => Vouches(q, t, q.fp)
  BY <1>1 DEF GInv, PhaseSound
<1>3. Known(q)' /\ (NoStrict(q) => Vouches(q, t, q.fp)')
  <2>1. CASE NoStrict(q)
    BY <1>2, <2>1, VouchesKept
  <2>2. Known(q)'
    BY <1>2 DEF Known, RInv, RegistryTypeOK
  <2> QED
    BY <2>1, <2>2
<1>4. PhaseSound(t)'
  BY <1>1, <1>2, <1>3 DEF PhaseSound, NoStrict, Known, Vouches, NoneNear, EqualsHidden
<1>5. Held(t)'
  BY <1>1 DEF GInv, Held, Registering, Passed
<1> QED
  BY <1>4, <1>5

(* No entry is composed: what was noted stays noted.                        *)
LEMMA ClearedKept ==
  ASSUME RInv, GInv, UNCHANGED <<entry, cleared>>, Positions \subseteq Positions',
         \A i \in Positions : registry'[i] = registry[i]
  PROVE  ClearedSound'
<1>1. Len(entry) \in Nat
  BY DEF RInv, RegistryTypeOK
<1>2. ASSUME NEW id \in 1..Len(entry)
      PROVE  Known(cleared[id])' /\ Vouches(cleared[id], entry[id].site, entry[id].fp)'
  <2>1. PICK q, s, fp : q = cleared[id] /\ s = entry[id].site /\ fp = entry[id].fp
    OBVIOUS
  <2>2. Known(q) /\ Vouches(q, s, fp)
    BY <2>1 DEF GInv, ClearedSound
  <2>3. Known(q)' /\ Vouches(q, s, fp)'
    BY <1>1, <2>2, VouchesKept
  <2> QED
    BY <2>1, <2>3 DEF Known, Vouches, NoneNear, EqualsHidden
<1> QED
  BY <1>2 DEF GInv, ClearedSound

(* The command's start notes the phase that let its content through.        *)
LEMMA StartGatedStep ==
  ASSUME RInv, GInv, NEW s \in Sites, NEW fp \in Fingerprints, StartGatedRegister(s, fp)
  PROVE  GInv'
<1> DEFINE through == Passed(s) /\ gate[s].fp = fp
           phase == IF through THEN gate[s] ELSE NoBuild
<1>1. /\ UNCHANGED <<registry, entry, cleared>> /\ ~Registering(s)
      /\ \A t \in Sites : t # s => register'[t] = register[t]
      /\ register'[s].pc = "stamped" /\ register'[s].fp = fp
  BY StartIs DEF StartGatedRegister, StartRegister
<1>2. gate \in [Sites -> Gate] /\ gate' = [gate EXCEPT ![s] = phase] /\ phase \in Gate
  BY NoBuildVouches DEF StartGatedRegister, GInv, GateType
<1>3. gate'[s] = phase /\ \A t \in Sites : t # s => gate'[t] = gate[t]
  BY <1>2
<1>4. GateType'
  BY <1>1, <1>2 DEF GInv, GateType
<1>5. Positions' = Positions /\ (\A k, j : Before(k, j)' <=> Before(k, j))
  BY <1>1 DEF Positions, Before
<1>6. \A t \in Sites : PhaseSound(t)'
  <2> TAKE t \in Sites
  <2>1. PICK q : q = gate'[t]
    OBVIOUS
  <2>2. /\ Known(q)
        /\ q.pc # "done" => q.scanned = {}
        /\ q.pc \in {"idle", "looking_up"} => q.looked = {}
        /\ NoStrict(q) => Vouches(q, t, q.fp)
    BY <1>3, <2>1, NoBuildVouches DEF GInv, PhaseSound
  <2> QED
    BY <1>1, <1>5, <2>1, <2>2
    DEF PhaseSound, NoStrict, Known, Vouches, NoneNear, EqualsHidden, SameScope
<1>7. Held(s)'
  <2>1. CASE through
    BY <1>1, <1>3, <2>1 DEF Held, Passed
  <2>2. CASE ~through
    BY <1>3, <2>2 DEF Held
  <2> QED
    BY <2>1, <2>2
<1>8. \A t \in Sites : t # s => Held(t)'
  BY <1>1, <1>3 DEF GInv, Held, Registering, Passed
<1>9. ClearedSound'
  BY <1>1, <1>5, ClearedKept
<1> QED
  BY <1>4, <1>6, <1>7, <1>8, <1>9 DEF GInv

(* What is composed is what the phase noted for it vouches for.             *)
LEMMA ComposeStep ==
  ASSUME RInv, GInv, NEW s \in Sites, ComposeEntry(s), RegisterSite(s) PROVE GInv'
<1>1. /\ UNCHANGED <<registry, gate>> /\ Len(entry) \in Nat
      /\ Len(entry') = Len(entry) + 1
      /\ \A id \in 1..Len(entry) : entry'[id] = entry[id]
      /\ \A t \in Sites : t # s => register'[t] = register[t]
      /\ register'[s].pc = "composed" /\ Registering(s) /\ register[s].pc = "stamped"
  BY ComposeIs DEF RegisterSite, ComposeEntry, Registering
<1>2. entry'[Len(entry) + 1].site = s /\ entry'[Len(entry) + 1].fp = register[s].fp
  <2>1. PICK last : entry' = Append(entry,
          [seq |-> NextSequence(last), prev |-> last, site |-> s, fp |-> register[s].fp])
    BY DEF ComposeEntry
  <2> DEFINE new == [seq |-> NextSequence(last), prev |-> last, site |-> s, fp |-> register[s].fp]
  <2>2. new.site = s /\ new.fp = register[s].fp
    OBVIOUS
  <2>3. entry' = Append(entry, new) /\ entry \in Seq(Entry)
    BY <2>1 DEF RInv, RegistryTypeOK
  <2> HIDE DEF new
  <2>4. entry'[Len(entry) + 1] = new
    BY <2>3
  <2> QED
    BY <2>2, <2>4
<1>3. cleared' = Append(cleared, gate[s]) /\ gate[s] \in Gate /\ cleared \in Seq(Gate)
      /\ Len(cleared) = Len(entry)
  <2>1. entry' # entry
    BY <1>1
  <2> QED
    BY <2>1 DEF RegisterSite, GInv, GateType, ClearedSound
<1>4. /\ cleared' \in Seq(Gate) /\ Len(cleared') = Len(entry')
      /\ \A id \in 1..Len(entry) : cleared'[id] = cleared[id]
      /\ cleared'[Len(entry) + 1] = gate[s]
  BY <1>1, <1>3
<1>5. Positions' = Positions
  BY <1>1 DEF Positions
<1>6. \A t \in Sites : PhaseSound(t)' /\ Held(t)'
  BY <1>1, <1>5, GatesKept
<1>7. ASSUME NEW id \in 1..Len(entry')
      PROVE  Known(cleared[id])' /\ Vouches(cleared[id], entry[id].site, entry[id].fp)'
  <2>1. PICK q, t, fp : q = cleared'[id] /\ t = entry'[id].site /\ fp = entry'[id].fp
    OBVIOUS
  <2>2. Known(q) /\ Vouches(q, t, fp)
    <3>1. CASE id \in 1..Len(entry)
      BY <1>1, <1>4, <2>1, <3>1 DEF GInv, ClearedSound
    <3>2. CASE id = Len(entry) + 1
      <4>1. q = gate[s] /\ t = s /\ fp = register[s].fp
        BY <1>2, <1>4, <2>1, <3>2
      <4>2. CASE gate[s] = NoBuild
        BY <4>1, <4>2, NoBuildVouches
      <4>3. CASE Passed(s) /\ gate[s].fp = register[s].fp
        BY <4>1, <4>3 DEF GInv, PhaseSound, Passed, NoStrict
      <4> QED
        BY <1>1, <4>2, <4>3 DEF GInv, Held
    <3> QED
      BY <1>1, <3>1, <3>2
  <2>3. Known(q)' /\ Vouches(q, t, fp)'
    BY <1>1, <1>5, <2>2, VouchesKept
  <2> QED
    BY <2>1, <2>3 DEF Known, Vouches, NoneNear, EqualsHidden
<1> QED
  BY <1>1, <1>4, <1>6, <1>7 DEF GInv, GateType, ClearedSound

(* Every other step of the command appends to the file at most.             *)
LEMMA OtherRegisterStep ==
  ASSUME RInv, GInv, NEW s \in Sites, RegisterSite(s), ~ComposeEntry(s) PROVE GInv'
<1>1. register \in [Sites -> Register] /\ registry \in Seq(Pieces) /\ Len(entry) \in Nat
  BY DEF RInv, RegistryTypeOK
<1>2. UNCHANGED <<entry, cleared, gate>>
  BY DEF RegisterSite, RegisterSteps, RejectTimestamp, RefuseUnreadable, WriteBody, WriteNewline,
    RegisterDies, TearBody
<1>3. /\ Registering(s)
      /\ register'[s].pc \in {"idle", "body_written"}
      /\ \A t \in Sites : t # s => register'[t] = register[t]
  <2>1. CASE WriteBody(s)
    BY <2>1, BodyIs DEF WriteBody, Registering
  <2>2. CASE ~WriteBody(s)
    <3>1. Registering(s) /\ \E exit \in {"other", "bad_timestamp"} : Exits(s, exit)
      BY <2>2 DEF RegisterSite, RegisterSteps, RejectTimestamp, RefuseUnreadable, WriteNewline,
        RegisterDies, TearBody, Registering
    <3> QED
      BY <1>1, <3>1, ExitsIs
  <2> QED
    BY <2>1, <2>2
<1>4. \/ registry' = registry
      \/ \E piece \in Pieces : registry' = Append(registry, piece)
  <2>1. CASE WriteBody(s)
    BY <2>1, BodyIs, PiecesAreTyped DEF WriteBody
  <2>2. CASE ~WriteBody(s)
    BY <2>2, PiecesAreTyped DEF RegisterSite, RegisterSteps, RejectTimestamp, RefuseUnreadable,
      WriteNewline, RegisterDies, TearBody
  <2> QED
    BY <2>1, <2>2
<1>5. Positions \subseteq Positions' /\ \A i \in Positions : registry'[i] = registry[i]
  BY <1>1, <1>4, AppendKeeps DEF Positions
<1>6. \A t \in Sites : PhaseSound(t)' /\ Held(t)'
  <2>1. \A t \in Sites : register'[t].pc # "idle" => register[t].pc # "idle"
    BY <1>3 DEF Registering
  <2>2. \A t \in Sites : register'[t].pc = "stamped" => register'[t] = register[t]
    BY <1>3
  <2> QED
    BY <1>1, <1>2, <1>5, <2>1, <2>2, GatesKept
<1>7. ClearedSound'
  BY <1>2, <1>5, ClearedKept
<1> QED
  BY <1>2, <1>6, <1>7 DEF GInv, GateType

-----------------------------------------------------------------------------
LEMMA NextGInv == RInv /\ GInv /\ [Next]_vars => GInv'
<1> SUFFICES ASSUME RInv, GInv, [Next]_vars PROVE GInv'
  OBVIOUS
<1>1. CASE UNCHANGED vars
  <2>1. UNCHANGED <<registry, entry, register, gate, cleared>> /\ Len(entry) \in Nat
    BY <1>1 DEF vars, registryVars, RInv, RegistryTypeOK
  <2>2. Positions' = Positions
    BY <2>1 DEF Positions
  <2> QED
    BY <2>1, <2>2, GatesKept, ClearedKept DEF GInv, GateType
<1>2. ASSUME NEW s \in Sites, NEW fp \in Fingerprints, StartGate(s, fp) \/ StartGatedRegister(s, fp)
      PROVE  GInv'
  BY <1>2, StartGateStep, StartGatedStep
<1>3. ASSUME NEW s \in Sites, LookUp(s) \/ Scan(s) PROVE GInv'
  BY <1>3, LookUpStep, ScanStep
<1>4. ASSUME NEW s \in Sites, RegisterSite(s) PROVE GInv'
  BY <1>4, ComposeStep, OtherRegisterStep
<1> QED
  BY <1>1, <1>2, <1>3, <1>4 DEF Next

LEMMA InitGInv == Init => GInv
<1> SUFFICES ASSUME Init PROVE GInv
  OBVIOUS
<1>1. entry = <<>> /\ cleared = <<>> /\ \A s \in Sites : register[s].pc = "idle"
  BY DEF Init, RegistryInit, NotRunning
<1>2. gate = [s \in Sites |-> NoBuild] /\ Len(entry) = 0 /\ Len(cleared) = 0
  BY <1>1 DEF Init
<1>3. GateType
  BY <1>1, <1>2, NoBuildVouches DEF GateType
<1>4. \A s \in Sites : PhaseSound(s) /\ Held(s)
  BY <1>1, <1>2, NoBuildVouches DEF PhaseSound, Held, Registering
<1>5. ClearedSound
  BY <1>2 DEF ClearedSound
<1> QED
  BY <1>3, <1>4, <1>5 DEF GInv

LEMMA GateInvariant == Spec => [](RInv /\ GInv)
BY NextGInv, InitGInv, GateUsesRegistry, RegistryInvariant, PTL DEF Spec

(* The registry, its commands and the gates of all sites keep their types:  *)
(* a finding names an entry, or is the warning that nothing could be read.  *)
THEOREM GateTypeCorrect == Spec => []TypeOK
<1>1. RInv /\ GInv => TypeOK
  BY DEF RInv, GInv, GateType, TypeOK
<1> QED
  BY <1>1, GateInvariant, PTL

(* What the gate is worth, without any premise: commands and builds may     *)
(* overlap and die, and what they register need not have been built.        *)
THEOREM SitesAreApartCorrect == Spec => []SitesAreApart
<1>1. ASSUME RInv, GInv PROVE SitesAreApart
  <2> SUFFICES ASSUME NEW id \in Salvaged(registry)
               PROVE  /\ NoneNear(cleared[id], entry[id].site, entry[id].fp)
                      /\ EqualsHidden(cleared[id], entry[id].site, entry[id].fp)
    BY DEF SitesAreApart
  <2>1. id \in 1..Len(entry)
    BY <1>1, SalvagedIsListed, ListedIds
  <2> QED
    BY <1>1, <2>1 DEF GInv, ClearedSound, Vouches
<1> QED
  BY <1>1, GateInvariant, PTL
=============================================================================
