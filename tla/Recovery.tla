------------------------------- MODULE Recovery -------------------------------
(***************************************************************************)
(* Disaster recovery of dr-core: the regions of a workload, as fail_over   *)
(* rotates them.                                                           *)
(***************************************************************************)
EXTENDS Naturals, Sequences, SequencesExt, FiniteSets

CONSTANT Regions     \* the regions of the workload

ASSUME RecoveryAssumption == IsFiniteSet(Regions)

VARIABLES
  active, standby,   \* RegionFailoverState
  idle               \* history: region -> failovers since it was last active

drVars == <<active, standby, idle>>

RecoveryInit ==
  /\ active \in Regions
  /\ standby \in SetToSeqs(Regions \ {active})
  /\ idle = [r \in Regions |-> 0]

\* Mutant of Standby: the region that was active is not kept
StandbyForgetting(old) == Tail(standby)

\* Mutant of Standby: the region that was active is first in line again
StandbyFirst(old) == <<old>> \o Tail(standby)

Standby(old) == Append(Tail(standby), old)

\* with no standby fail_over refuses and changes nothing
FailOver ==
  /\ standby # <<>>
  /\ active' = Head(standby)
  /\ standby' = Standby(active)
  /\ idle' = [r \in Regions |-> IF r = active' THEN 0 ELSE idle[r] + 1]

RecoverySpec == RecoveryInit /\ [][FailOver]_drVars

-----------------------------------------------------------------------------
RecoveryTypeOK ==
  /\ active \in Regions /\ standby \in Seq(Regions)
  /\ idle \in [Regions -> Nat]

\* However often the workload fails over, no region is lost or listed twice, and every region
\* has its turn: one that was active is active again after as many failovers as there are
\* regions, so a region that failed is not the next in line unless there is no other.
EveryRegionHasItsTurn ==
  /\ IsInjective(standby) /\ active \notin ToSet(standby)
  /\ {active} \union ToSet(standby) = Regions
  /\ \A r \in Regions : idle[r] < Cardinality(Regions)
=============================================================================
