---------------------------- MODULE IdentityChain -----------------------------
(***************************************************************************)
(* The chain of identity transitions (identity_transition.rs): operators   *)
(* edit [site_identity], build the transition from the identity before to  *)
(* the one after, and append it in two writes to a file that is read with  *)
(* the bad lines left out, as are progress-events.jsonl and the telemetry  *)
(* of the skills.  An identity is the number of the edit that made it, and *)
(* a record of the file the number of its transition.  A record is ASCII:  *)
(* one cut inside a character would fail the whole read, not its line.     *)
(***************************************************************************)
EXTENDS JsonLines, SequencesExt, Listing

CONSTANTS
  Operators,   \* who edit the identity
  MaxTransitions, \* bound on the edits
  MaxFailures  \* bound on the appends that fail

ASSUME IdAssumption == MaxTransitions \in Nat /\ MaxFailures \in Nat

VARIABLES
  identity,    \* [site_identity] of forge.toml
  transition,  \* the transitions built: [from, to]
  chain,       \* the file
  kept,        \* transitions whose append returned Ok
  operator,    \* operator -> [pc, from, edit]
  failures,    \* appends that have failed
  repeated,    \* history: transitions whose append was run again
  inTurn       \* history: no two operators have worked at once

idVars == <<identity, transition, chain, kept, operator, failures, repeated, inTurn>>

AtRest == [pc |-> "idle", from |-> 0, edit |-> 0]

IdInit ==
  /\ identity = 0 /\ transition = <<>> /\ chain = <<>> /\ kept = <<>>
  /\ operator = [o \in Operators |-> AtRest]
  /\ failures = 0 /\ repeated = {} /\ inTurn = TRUE

IdTypeOK ==
  /\ identity \in 0..MaxTransitions /\ Len(transition) <= MaxTransitions
  /\ failures \in 0..MaxFailures /\ repeated \subseteq DOMAIN transition /\ inTurn \in BOOLEAN
  /\ ToSet(chain) \subseteq (DOMAIN transition) \union {Newline, Torn}
  /\ ToSet(kept) \subseteq DOMAIN transition
  /\ \A o \in Operators : operator[o].pc \in {"idle", "read", "built", "written", "failed"}

Turns(o, pc) == operator' = [operator EXCEPT ![o].pc = pc]

\* the identity before the edit is read
ReadIdentity(o) ==
  /\ operator[o].pc = "idle" /\ Len(transition) < MaxTransitions
  /\ operator' = [operator EXCEPT ![o] = [pc |-> "read", from |-> identity, edit |-> 0]]
  /\ inTurn' = (inTurn /\ \A p \in Operators \ {o} : operator[p].pc = "idle")
  /\ UNCHANGED <<identity, transition, chain, kept, failures, repeated>>

\* Mutant of Build: the two hashes in the wrong order
BuildBackwards(from, to) == [from |-> to, to |-> from]

\* IdentityTransition::build
Build(from, to) == [from |-> from, to |-> to]

BuildTransition(o) ==
  /\ operator[o].pc = "read" /\ Len(transition) < MaxTransitions
  /\ identity' = Len(transition) + 1
  /\ transition' = Append(transition, Build(operator[o].from, identity'))
  /\ operator' = [operator EXCEPT ![o].pc = "built", ![o].edit = identity']
  /\ UNCHANGED <<chain, kept, failures, repeated, inTurn>>

\* append_to_chain: the body, then the newline
WriteTransition(o) ==
  /\ operator[o].pc = "built"
  /\ chain' = Append(chain, operator[o].edit)
  /\ Turns(o, "written")
  /\ UNCHANGED <<identity, transition, kept, failures, repeated, inTurn>>

EndTransition(o) ==
  /\ operator[o].pc = "written"
  /\ chain' = Append(chain, Newline)
  /\ kept' = Append(kept, operator[o].edit)
  /\ operator' = [operator EXCEPT ![o] = AtRest]
  /\ UNCHANGED <<identity, transition, failures, repeated, inTurn>>

\* A write fails: none or half of the body is in the file, or all of it and no newline.
AppendFails(o) ==
  /\ operator[o].pc \in {"built", "written"} /\ failures < MaxFailures
  /\ chain' \in {chain} \union IF operator[o].pc = "built" THEN {Append(chain, Torn)} ELSE {}
  /\ Turns(o, "failed")
  /\ failures' = failures + 1
  /\ UNCHANGED <<identity, transition, kept, repeated, inTurn>>

Retry(o) ==
  /\ operator[o].pc = "failed"
  /\ Turns(o, "built")
  /\ repeated' = repeated \union {operator[o].edit}
  /\ UNCHANGED <<identity, transition, chain, kept, failures, inTurn>>

GiveUp(o) ==
  /\ operator[o].pc = "failed"
  /\ operator' = [operator EXCEPT ![o] = AtRest]
  /\ UNCHANGED <<identity, transition, chain, kept, failures, repeated, inTurn>>

IdNext ==
  \E o \in Operators :
    \/ ReadIdentity(o) \/ BuildTransition(o) \/ WriteTransition(o) \/ EndTransition(o)
    \/ AppendFails(o) \/ Retry(o) \/ GiveUp(o)

IdSpec == IdInit /\ [][IdNext]_idVars

-----------------------------------------------------------------------------
\* Mutant of ReadChain: what could not be parsed is kept as it is
ReadChainWhole == Picked(chain, {i \in DOMAIN chain : chain[i] # Newline})

\* read_chain: the lines that parse, in their order
ReadChain == Picked(chain, {i \in DOMAIN chain : LineParses(chain, i)})

\* However the appends overlap, fail and are run again, the chain that is read holds only
\* transitions that were built, and one twice only if its append was run again.  As long as no
\* append fails and the operators take turns it is complete and linked: it leads from the first
\* identity, step by step, to the present one.
ChainIsHistory ==
  LET read == ReadChain
      resting == \A o \in Operators : operator[o].pc = "idle"
  IN  /\ ToSet(read) \subseteq DOMAIN transition
      /\ \A i, j \in DOMAIN read : read[i] = read[j] => i = j \/ read[i] \in repeated
      /\ failures = 0 /\ inTurn =>
           /\ ToSet(kept) \subseteq ToSet(read)
           /\ \A i \in DOMAIN read :
                transition[read[i]].from = IF i = 1 THEN 0 ELSE transition[read[i - 1]].to
           /\ resting /\ identity > 0 => read # <<>> /\ transition[Last(read)].to = identity

\* What the callers of a lenient log could expect, and do not get: that a record whose append
\* returned Ok is read from then on.  A bad line is skipped with the good record that was glued
\* to it: a retry glues itself to the half line of its own first attempt.
AckedIsRead == ToSet(kept) \subseteq ToSet(ReadChain)
=============================================================================
