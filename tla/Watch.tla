------------------------------- MODULE Watch -------------------------------
(***************************************************************************)
(* `forge watch`: the operator saves files, the notify thread sends an     *)
(* event for each change under the root, and the main loop takes events    *)
(* from the channel, waits out the debounce window and runs `forge build`  *)
(* as a child process, which reads the sources and then writes the site.   *)
(*                                                                         *)
(* The sources are one number, raised by every save; the site shows the    *)
(* number it was built from.  A change under the excluded directories      *)
(* (target/, .git/, reports/, node_modules/, dot files) is "noise"; a save *)
(* and a page written under static/ are "change".  The site has one page,  *)
(* so a build that writes it makes one such event.                         *)
(***************************************************************************)
EXTENDS Naturals, Sequences

CONSTANTS
  Caps,       \* --max-rebuilds values in use; 0 is no cap
  MaxSaves,   \* bound: saves in a behaviour
  MaxNoise    \* bound: irrelevant events in a behaviour

ASSUME WatchAssumption == Caps \subseteq Nat /\ {MaxSaves, MaxNoise} \subseteq Nat

VARIABLES
  cap,        \* --max-rebuilds
  pc,         \* the main loop
  registered, \* notify watches the root
  pending,    \* changes the notify thread has yet to send
  channel,    \* events sent and not yet received
  source,     \* the number of saves
  read,       \* what the running or last build read
  site,       \* what static/ was last written from
  missed,     \* the last save that no watch was there to see
  rebuilds,   \* rebuild_count, kept only under a cap
  noise       \* irrelevant changes so far

vars == <<cap, pc, registered, pending, channel, source, read, site, missed, rebuilds, noise>>
loopVars == <<cap, pc, registered, rebuilds>>
buildVars == <<read, site>>
inputVars == <<source, missed, noise>>

Events == {"change", "noise"}
Building == {"spawned", "building"}

(* Every variable keeps its type, and the cap is never exceeded.            *)
TypeOK ==
  /\ cap \in Caps
  /\ pc \in {"registering", "waiting", "debouncing", "exited"} \union Building
  /\ registered \in BOOLEAN
  /\ pending \in Seq(Events) /\ channel \in Seq(Events)
  /\ source \in 0..MaxSaves
  /\ {read, site, missed} \subseteq 0..source
  /\ rebuilds \in 0..cap
  /\ noise \in 0..MaxNoise

(* The initial build runs before the watch is registered.                   *)
Init ==
  /\ cap \in Caps
  /\ pc = "spawned"
  /\ registered = FALSE
  /\ pending = << >> /\ channel = << >>
  /\ source = 0 /\ read = 0 /\ site = 0 /\ missed = 0
  /\ rebuilds = IF cap = 0 THEN 0 ELSE 1
  /\ noise = 0

-----------------------------------------------------------------------------
(* The file system and the notify thread. *)

Notified(event) == pending' = IF registered THEN Append(pending, event) ELSE pending

Save ==
  /\ source < MaxSaves
  /\ source' = source + 1
  /\ missed' = IF registered THEN missed ELSE source + 1
  /\ Notified("change")
  /\ UNCHANGED <<loopVars, buildVars, channel, noise>>

MakeNoise ==
  /\ noise < MaxNoise
  /\ noise' = noise + 1
  /\ Notified("noise")
  /\ UNCHANGED <<loopVars, buildVars, channel, source, missed>>

Deliver ==
  /\ pc # "exited"
  /\ pending # << >>
  /\ channel' = Append(channel, Head(pending))
  /\ pending' = Tail(pending)
  /\ UNCHANGED <<loopVars, buildVars, inputVars>>

-----------------------------------------------------------------------------
(* The child process. *)

BuildReads ==
  /\ pc = "spawned"
  /\ read' = source
  /\ pc' = "building"
  /\ UNCHANGED <<cap, registered, rebuilds, site, pending, channel, inputVars>>

\* Mutant of AtCap: one rebuild too many.
PastCap == cap > 0 /\ rebuilds > cap

AtCap == cap > 0 /\ rebuilds >= cap

\* Mutant of AfterBuild: events that came in meanwhile are dropped, against the storm.
AfterBuildDrained ==
  /\ pc' = IF AtCap THEN "exited" ELSE IF registered THEN "waiting" ELSE "registering"
  /\ channel' = << >>

(* status() returns, and the loop goes on unless the cap is reached.        *)
AfterBuild ==
  /\ pc' = IF AtCap THEN "exited" ELSE IF registered THEN "waiting" ELSE "registering"
  /\ UNCHANGED channel

(* The page is renamed into place, and the child exits.                     *)
BuildWrites ==
  /\ pc = "building"
  /\ site' = read
  /\ Notified("change")
  /\ AfterBuild
  /\ UNCHANGED <<cap, registered, rebuilds, read, inputVars>>

(* A build that fails before it writes the page: rebuild_once reports the   *)
(* exit code and the loop goes on.                                          *)
BuildFails ==
  /\ pc = "building"
  /\ AfterBuild
  /\ UNCHANGED <<cap, registered, rebuilds, buildVars, pending, inputVars>>

(* The child cannot be started, and the command ends.                       *)
SpawnFails ==
  /\ pc = "spawned"
  /\ pc' = "exited"
  /\ UNCHANGED <<cap, registered, rebuilds, buildVars, pending, channel, inputVars>>

-----------------------------------------------------------------------------
(* The main loop. *)

Register ==
  /\ pc = "registering"
  /\ pc' = "waiting"
  /\ registered' = TRUE
  /\ UNCHANGED <<cap, rebuilds, buildVars, pending, channel, inputVars>>

(* rx.recv() and is_relevant_event.                                         *)
Receive ==
  /\ pc = "waiting"
  /\ channel # << >>
  /\ pc' = IF Head(channel) = "change" THEN "debouncing" ELSE "waiting"
  /\ channel' = Tail(channel)
  /\ UNCHANGED <<cap, registered, rebuilds, buildVars, pending, inputVars>>

Coalesce ==
  /\ pc = "debouncing"
  /\ channel # << >>
  /\ channel' = Tail(channel)
  /\ UNCHANGED <<loopVars, buildVars, pending, inputVars>>

(* The window closes a fixed time after its first event, with or without    *)
(* events left in the channel.                                              *)
Spawn ==
  /\ pc = "debouncing"
  /\ pc' = "spawned"
  /\ rebuilds' = IF cap = 0 THEN 0 ELSE rebuilds + 1
  /\ UNCHANGED <<cap, registered, buildVars, pending, channel, inputVars>>

Next ==
  \/ Save \/ MakeNoise \/ Deliver
  \/ BuildReads \/ BuildWrites \/ BuildFails \/ SpawnFails
  \/ Register \/ Receive \/ Coalesce \/ Spawn

(* The threads run, the window is a finite time, and `forge build` ends.    *)
Fairness ==
  /\ WF_vars(Deliver)
  /\ WF_vars(BuildReads) /\ WF_vars(BuildWrites \/ BuildFails)
  /\ WF_vars(Register) /\ WF_vars(Receive) /\ WF_vars(Spawn)

Spec == Init /\ [][Next]_vars

FairSpec == Spec /\ Fairness

-----------------------------------------------------------------------------
InTransit == \E q \in {pending, channel} : \E i \in DOMAIN q : q[i] = "change"

(* No wakeup is lost: while the loop runs, a save that the watch saw and    *)
(* that no build has read yet has an event on its way, or a build that will *)
(* read it is about to start, wherever it fell: between two events of a     *)
(* burst, as the window closed or while a build was running.                *)
NoLostWakeup ==
  (registered /\ pc # "exited" /\ read < source /\ missed < source)
  => InTransit \/ pc \in {"debouncing", "spawned"}

(* Every save the watch saw is built sooner or later, unless the command    *)
(* ends: the events of earlier builds, of other changes and of builds that  *)
(* fail never keep the loop from it.                                        *)
SaveIsBuilt ==
  \A n \in 1..MaxSaves :
    (registered /\ source = n /\ missed < n) ~> (read >= n \/ pc = "exited")

(* is_relevant_event's comment says it excludes what the build itself       *)
(* writes, to avoid a rebuild storm: when the saves end, so do the builds.  *)
Settles == <>[](pc \notin Building)
=============================================================================
