--------------------------- MODULE DevLoopProofs ----------------------------
(***************************************************************************)
(* Proofs about the two programs an author keeps open.                     *)
(***************************************************************************)
EXTENDS Watch, Serve, TLAPS

-----------------------------------------------------------------------------
(***************************************************************************)
(* Proofs about `forge watch`, for any cap, any number of saves and any    *)
(* amount of noise.  NoLostWakeup is inductive once two facts are added:   *)
(* the watch is registered once, and before that every save is a missed    *)
(* one; and under a cap the loop never waits with the last rebuild made.   *)
(***************************************************************************)

AllMissed ==
  /\ ~registered => missed = source
  /\ pc = "registering" => ~registered

CapLeft ==
  cap > 0 /\ pc \in {"registering", "waiting", "debouncing"} => rebuilds < cap

IInv == TypeOK /\ AllMissed /\ CapLeft /\ NoLostWakeup

HasChange(q) == \E i \in DOMAIN q : q[i] = "change"

-----------------------------------------------------------------------------
(* An appended event leaves the others in the queue.                        *)
LEMMA AppendChange ==
  ASSUME NEW q \in Seq(Events), NEW e \in Events
  PROVE  /\ Append(q, e) \in Seq(Events)
         /\ HasChange(Append(q, e)) <=> HasChange(q) \/ e = "change"
<1> DEFINE r == Append(q, e)
<1>1. /\ r \in Seq(Events) /\ DOMAIN r = DOMAIN q \union {Len(q) + 1}
      /\ r[Len(q) + 1] = e
      /\ \A i \in DOMAIN q : r[i] = q[i]
  OBVIOUS
<1> HIDE DEF r
<1> QED
  BY <1>1 DEF HasChange, r

(* Taking the first event off a queue loses that event only.                *)
LEMMA TailChange ==
  ASSUME NEW q \in Seq(Events), q # << >>
  PROVE  /\ Head(q) \in Events /\ Tail(q) \in Seq(Events)
         /\ HasChange(q) <=> Head(q) = "change" \/ HasChange(Tail(q))
<1>1. /\ Head(q) \in Events /\ Tail(q) \in Seq(Events)
      /\ Len(q) \in Nat /\ Len(q) > 0 /\ DOMAIN q = 1..Len(q)
      /\ DOMAIN Tail(q) = 1..(Len(q) - 1) /\ Head(q) = q[1]
      /\ \A i \in 1..(Len(q) - 1) : Tail(q)[i] = q[i + 1]
  OBVIOUS
<1>2. ASSUME HasChange(q), Head(q) # "change" PROVE HasChange(Tail(q))
  <2>1. PICK i \in 1..Len(q) : q[i] = "change"
    BY <1>1, <1>2 DEF HasChange
  <2>2. i # 1
    BY <1>1, <1>2, <2>1
  <2>3. (i - 1) \in 1..(Len(q) - 1) /\ Tail(q)[i - 1] = q[(i - 1) + 1] /\ (i - 1) + 1 = i
    BY <1>1, <2>1, <2>2
  <2> QED
    BY <1>1, <2>1, <2>3 DEF HasChange
<1>3. ASSUME HasChange(Tail(q)) PROVE HasChange(q)
  <2>1. PICK i \in 1..(Len(q) - 1) : Tail(q)[i] = "change"
    BY <1>1, <1>3 DEF HasChange
  <2>2. (i + 1) \in DOMAIN q /\ q[i + 1] = "change"
    BY <1>1, <2>1
  <2> QED
    BY <2>2 DEF HasChange
<1>4. ASSUME Head(q) = "change" PROVE HasChange(q)
  <2>1. 1 \in DOMAIN q /\ q[1] = "change"
    BY <1>1, <1>4
  <2> QED
    BY <2>1 DEF HasChange
<1> QED
  BY <1>1, <1>2, <1>3, <1>4

LEMMA InTransitIs == InTransit <=> HasChange(pending) \/ HasChange(channel)
BY DEF InTransit, HasChange

LEMMA InTransitIsNext == InTransit' <=> HasChange(pending') \/ HasChange(channel')
BY DEF InTransit, HasChange

LEMMA EventsAre == "change" \in Events /\ "noise" \in Events
BY DEF Events

-----------------------------------------------------------------------------
LEMMA InitEstablishes == Init => IInv
<1> SUFFICES ASSUME Init PROVE IInv
  OBVIOUS
<1>1. cap \in Nat /\ MaxSaves \in Nat /\ MaxNoise \in Nat
  BY WatchAssumption DEF Init
<1>2. rebuilds \in 0..cap
  BY <1>1 DEF Init
<1>3. << >> \in Seq(Events)
  OBVIOUS
<1>4. TypeOK
  <2>1. cap \in Caps /\ pc = "spawned" /\ registered = FALSE
    BY DEF Init
  <2>2. pending \in Seq(Events) /\ channel \in Seq(Events)
    BY <1>3 DEF Init
  <2>3. source \in 0..MaxSaves /\ noise \in 0..MaxNoise
    BY <1>1 DEF Init
  <2>4. {read, site, missed} \subseteq 0..source
    BY DEF Init
  <2> QED
    BY <2>1, <2>2, <2>3, <2>4, <1>2 DEF TypeOK, Building
<1>5. AllMissed /\ CapLeft /\ NoLostWakeup
  BY DEF Init, AllMissed, CapLeft, NoLostWakeup
<1> QED
  BY <1>4, <1>5 DEF IInv

(* What a step may do to the queues without losing a change.                *)
LEMMA NotifiedKeeps ==
  ASSUME pending \in Seq(Events), NEW e \in Events, Notified(e)
  PROVE  /\ pending' \in Seq(Events)
         /\ HasChange(pending) => HasChange(pending')
         /\ registered /\ e = "change" => HasChange(pending')
BY AppendChange DEF Notified

LEMMA SavePreserves == ASSUME IInv, Save PROVE IInv'
<1>1. pending' \in Seq(Events) /\ (registered => HasChange(pending'))
  BY NotifiedKeeps, EventsAre DEF Save, IInv, TypeOK
<1>2. TypeOK'
  BY <1>1, WatchAssumption DEF Save, IInv, TypeOK, loopVars, buildVars
<1>3. AllMissed' /\ CapLeft'
  BY DEF Save, IInv, AllMissed, CapLeft, loopVars
<1>4. NoLostWakeup'
  BY <1>1, InTransitIsNext, <1>3 DEF Save, IInv, TypeOK, NoLostWakeup, AllMissed, loopVars
<1> QED
  BY <1>2, <1>3, <1>4 DEF IInv

LEMMA MakeNoisePreserves == ASSUME IInv, MakeNoise PROVE IInv'
<1>1. pending' \in Seq(Events) /\ (HasChange(pending) => HasChange(pending'))
  BY NotifiedKeeps, EventsAre DEF MakeNoise, IInv, TypeOK
<1>2. TypeOK'
  BY <1>1, WatchAssumption DEF MakeNoise, IInv, TypeOK, loopVars, buildVars
<1>3. AllMissed' /\ CapLeft'
  BY DEF MakeNoise, IInv, AllMissed, CapLeft, loopVars
<1>4. NoLostWakeup'
  BY <1>1, InTransitIs, InTransitIsNext
  DEF MakeNoise, IInv, NoLostWakeup, loopVars, buildVars
<1> QED
  BY <1>2, <1>3, <1>4 DEF IInv

LEMMA DeliverPreserves == ASSUME IInv, Deliver PROVE IInv'
<1>1. /\ Head(pending) \in Events /\ pending' \in Seq(Events)
      /\ HasChange(pending) <=> Head(pending) = "change" \/ HasChange(pending')
  BY TailChange DEF Deliver, IInv, TypeOK
<1>2. /\ channel' \in Seq(Events)
      /\ HasChange(channel') <=> HasChange(channel) \/ Head(pending) = "change"
  BY <1>1, AppendChange DEF Deliver, IInv, TypeOK
<1>3. TypeOK'
  BY <1>1, <1>2 DEF Deliver, IInv, TypeOK, loopVars, buildVars, inputVars
<1>4. AllMissed' /\ CapLeft'
  BY DEF Deliver, IInv, AllMissed, CapLeft, loopVars, inputVars
<1>5. NoLostWakeup'
  BY <1>1, <1>2, InTransitIs, InTransitIsNext
  DEF Deliver, IInv, NoLostWakeup, loopVars, buildVars, inputVars
<1> QED
  BY <1>3, <1>4, <1>5 DEF IInv

(* A build that has read the sources is up to date with every save so far.  *)
LEMMA BuildReadsPreserves == ASSUME IInv, BuildReads PROVE IInv'
<1>1. TypeOK'
  BY DEF BuildReads, IInv, TypeOK, inputVars, Building
<1>2. AllMissed' /\ CapLeft'
  BY DEF BuildReads, IInv, AllMissed, CapLeft, inputVars
<1>3. NoLostWakeup'
  BY DEF BuildReads, IInv, TypeOK, NoLostWakeup, inputVars
<1> QED
  BY <1>1, <1>2, <1>3 DEF IInv

(* A build ends: a save made meanwhile is still on its way.                 *)
LEMMA BuildEndsPreserves ==
  ASSUME IInv, pc = "building", AfterBuild,
         UNCHANGED <<cap, registered, rebuilds, read, inputVars>>,
         site' \in {site, read},
         pending' \in Seq(Events), HasChange(pending) => HasChange(pending')
  PROVE  IInv'
<1>1. TypeOK'
  BY DEF AfterBuild, IInv, TypeOK, inputVars
<1>2. AllMissed'
  BY DEF AfterBuild, IInv, AllMissed, inputVars
<1>3. CapLeft'
  <2>1. cap \in Nat /\ rebuilds \in 0..cap
    BY WatchAssumption DEF IInv, TypeOK
  <2>2. CASE AtCap
    BY <2>2 DEF AfterBuild, CapLeft
  <2>3. CASE ~AtCap
    BY <2>1, <2>3 DEF AtCap, CapLeft
  <2> QED
    BY <2>2, <2>3
<1>4. NoLostWakeup'
  BY InTransitIs, InTransitIsNext DEF AfterBuild, IInv, NoLostWakeup, inputVars
<1> QED
  BY <1>1, <1>2, <1>3, <1>4 DEF IInv

LEMMA BuildWritesPreserves == ASSUME IInv, BuildWrites PROVE IInv'
<1>1. pending' \in Seq(Events) /\ (HasChange(pending) => HasChange(pending'))
  BY NotifiedKeeps, EventsAre DEF BuildWrites, IInv, TypeOK
<1> QED
  BY <1>1, BuildEndsPreserves DEF BuildWrites

LEMMA BuildFailsPreserves == ASSUME IInv, BuildFails PROVE IInv'
<1>1. pending' \in Seq(Events) /\ (HasChange(pending) => HasChange(pending'))
  BY DEF BuildFails, IInv, TypeOK
<1> QED
  BY <1>1, BuildEndsPreserves DEF BuildFails, buildVars

LEMMA SpawnFailsPreserves == ASSUME IInv, SpawnFails PROVE IInv'
<1>1. TypeOK'
  BY DEF SpawnFails, IInv, TypeOK, buildVars, inputVars
<1>2. AllMissed' /\ CapLeft'
  BY DEF SpawnFails, IInv, AllMissed, CapLeft, buildVars, inputVars
<1>3. NoLostWakeup'
  BY DEF SpawnFails, IInv, TypeOK, AllMissed, NoLostWakeup, buildVars, inputVars
<1> QED
  BY <1>1, <1>2, <1>3 DEF IInv

LEMMA RegisterPreserves == ASSUME IInv, Register PROVE IInv'
<1>1. TypeOK'
  BY DEF Register, IInv, TypeOK, buildVars, inputVars
<1>2. AllMissed' /\ CapLeft'
  BY DEF Register, IInv, AllMissed, CapLeft, buildVars, inputVars
<1>3. NoLostWakeup'
  BY DEF Register, IInv, TypeOK, AllMissed, NoLostWakeup, buildVars, inputVars
<1> QED
  BY <1>1, <1>2, <1>3 DEF IInv

LEMMA ReceivePreserves == ASSUME IInv, Receive PROVE IInv'
<1>1. /\ Head(channel) \in Events /\ channel' \in Seq(Events)
      /\ HasChange(channel) <=> Head(channel) = "change" \/ HasChange(channel')
  BY TailChange DEF Receive, IInv, TypeOK
<1>2. TypeOK'
  BY <1>1 DEF Receive, IInv, TypeOK, buildVars, inputVars
<1>3. AllMissed' /\ CapLeft'
  BY DEF Receive, IInv, AllMissed, CapLeft, inputVars
<1>4. NoLostWakeup'
  BY <1>1, InTransitIs, InTransitIsNext DEF Receive, IInv, NoLostWakeup, buildVars, inputVars
<1> QED
  BY <1>2, <1>3, <1>4 DEF IInv

LEMMA CoalescePreserves == ASSUME IInv, Coalesce PROVE IInv'
<1>1. channel' \in Seq(Events)
  BY TailChange DEF Coalesce, IInv, TypeOK
<1>2. TypeOK'
  BY <1>1 DEF Coalesce, IInv, TypeOK, loopVars, buildVars, inputVars
<1>3. AllMissed' /\ CapLeft' /\ NoLostWakeup'
  BY DEF Coalesce, IInv, AllMissed, CapLeft, NoLostWakeup, loopVars, inputVars
<1> QED
  BY <1>2, <1>3 DEF IInv

LEMMA SpawnPreserves == ASSUME IInv, Spawn PROVE IInv'
<1>1. rebuilds' \in 0..cap
  <2>1. cap \in Nat
    BY WatchAssumption DEF IInv, TypeOK
  <2> QED
    BY <2>1 DEF Spawn, IInv, TypeOK, CapLeft
<1>2. TypeOK'
  BY <1>1 DEF Spawn, IInv, TypeOK, buildVars, inputVars, Building
<1>3. AllMissed' /\ CapLeft' /\ NoLostWakeup'
  BY DEF Spawn, IInv, AllMissed, CapLeft, NoLostWakeup, inputVars
<1> QED
  BY <1>2, <1>3 DEF IInv

LEMMA StepPreserves == IInv /\ [Next]_vars => IInv'
<1> SUFFICES ASSUME IInv, [Next]_vars PROVE IInv'
  OBVIOUS
<1>1. CASE UNCHANGED vars
  <2>1. TypeOK' /\ AllMissed' /\ CapLeft'
    BY <1>1 DEF vars, IInv, TypeOK, AllMissed, CapLeft
  <2>2. NoLostWakeup'
    BY <1>1, InTransitIs, InTransitIsNext DEF vars, IInv, NoLostWakeup
  <2> QED
    BY <2>1, <2>2 DEF IInv
<1> QED
  BY <1>1, SavePreserves, MakeNoisePreserves, DeliverPreserves, BuildReadsPreserves,
     BuildWritesPreserves, BuildFailsPreserves, SpawnFailsPreserves, RegisterPreserves,
     ReceivePreserves, CoalescePreserves, SpawnPreserves
  DEF Next

LEMMA IInvInvariant == Spec => []IInv
BY InitEstablishes, StepPreserves, PTL DEF Spec

-----------------------------------------------------------------------------
(* Every variable keeps its type, and the cap on rebuilds is never passed.  *)
THEOREM WatchTypeCorrect == Spec => []TypeOK
<1>1. IInv => TypeOK
  BY DEF IInv
<1> QED
  BY <1>1, IInvInvariant, PTL

(* A save the watch saw and no build has read yet always has an event on    *)
(* its way or a build about to read it.                                     *)
THEOREM NoLostWakeupCorrect == Spec => []NoLostWakeup
<1>1. IInv => NoLostWakeup
  BY DEF IInv
<1> QED
  BY <1>1, IInvInvariant, PTL

-----------------------------------------------------------------------------
(***************************************************************************)
(* Proofs about forge-serve, for any number of builds, seconds and runs of *)
(* the compressor, at whatever step of a request they happen: a file that  *)
(* stays is answered with, and while the compressor is used with care no   *)
(* answer is older than the request.                                       *)
(***************************************************************************)

Coding == {"br", "gzip"}
Looking == {"source_time", "sibling_time", "read_sibling"}
Bodies == (0..MaxBuilds) \union {Torn}

Requests == [pc : {"idle", "resolve", "negotiate", "read"} \union Looking, file : Files,
             rest : Seq(Coding), src : 0..MaxClock, begun : 0..MaxBuilds, lost : BOOLEAN]

Builds == [pc : {"idle", "page", "skin", "truncate", "fill"}, number : 0..MaxBuilds]

Typed ==
  /\ clock \in Seconds
  /\ disk \in [Files -> Stored \union {Absent}]
  /\ sibling \in [Files \X Coding -> Stored \union {Absent}]
  /\ build \in Builds
  /\ packer \in [pc : {"idle", "read", "open"}, file : Files, coding : Coding, source : Stored]
  /\ req \in Requests
  /\ req.pc \in Looking => req.rest # <<>>
  /\ got \in [Files -> Answer \union {Absent}]

LEMMA Numbers ==
  ASSUME ServeAssumption, Typed
  PROVE  /\ clock \in Nat /\ build.number \in Nat
         /\ \A s \in Stored : s.mtime \in Nat /\ s # Absent /\ (s.body # Torn => s.body \in Nat)
         /\ Absent \notin Nat /\ Torn \notin Nat /\ 0 \in 0..MaxBuilds /\ 0 \in 0..MaxClock
BY DEF ServeAssumption, Typed, Stored, Seconds, Builds

LEMMA InitTyped == ServeAssumption /\ ServeInit => Typed
<1> SUFFICES ASSUME ServeAssumption, ServeInit PROVE Typed
  OBVIOUS
<1>1. 1 \in Seconds /\ 0 \in 0..MaxBuilds /\ 0 \in 0..MaxClock
  BY DEF ServeAssumption, Seconds
<1>2. [body |-> 0, mtime |-> 1] \in Stored
  BY <1>1 DEF Stored
<1>3. PICK P \in Packed :
        sibling = [fc \in Files \X {"br", "gzip"} |->
                     IF fc \in P THEN [body |-> 0, mtime |-> 1] ELSE Absent]
  BY DEF ServeInit
<1>4. sibling \in [Files \X Coding -> Stored \union {Absent}]
  BY <1>2, <1>3 DEF Coding
<1>5. disk \in [Files -> Stored \union {Absent}]
  BY <1>2 DEF ServeInit
<1>6. packer \in [pc : {"idle", "read", "open"}, file : Files, coding : Coding, source : Stored]
  BY <1>2 DEF ServeInit, NotPacking, Files, Coding
<1>7. req \in Requests /\ req.pc = "idle"
  BY <1>1 DEF ServeInit, NoRequest, Requests, Files, Looking
<1>8. got \in [Files -> Answer \union {Absent}] /\ build \in Builds /\ clock = 1
  BY <1>1 DEF ServeInit, Builds
<1> QED
  BY <1>1, <1>4, <1>5, <1>6, <1>7, <1>8 DEF Typed, Looking

-----------------------------------------------------------------------------
(* What the steps of a request do to it.                                    *)

(* What is left to try after a coding.                                      *)
LEMMA TailLeft ==
  ASSUME NEW r \in Seq(Coding), r # <<>> PROVE Tail(r) \in Seq(Coding) /\ Head(r) \in Coding
OBVIOUS

LEMMA Onward ==
  ASSUME req \in Requests, req.rest # <<>>
  PROVE  /\ NextCoding \in Requests /\ NextCoding.pc = "negotiate"
         /\ NextCoding.file = req.file /\ NextCoding.begun = req.begun
         /\ NextCoding.lost = req.lost
<1> DEFINE t == Tail(req.rest)
<1>1. t \in Seq(Coding)
  BY TailLeft DEF Requests
<1>2. NextCoding = [req EXCEPT !.pc = "negotiate", !.rest = t]
  BY DEF NextCoding
<1> HIDE DEF t
<1> QED
  BY <1>1, <1>2 DEF Requests

(* A request that goes on at another step, with the time of its source.     *)
LEMMA GoesOn ==
  ASSUME req \in Requests, NEW p \in {"idle", "resolve", "negotiate", "read"} \union Looking,
         NEW t \in 0..MaxClock
  PROVE  LET new == [req EXCEPT !.pc = p, !.src = t]
             same == [req EXCEPT !.pc = p]
         IN  /\ new \in Requests /\ new.pc = p /\ new.file = req.file /\ new.begun = req.begun
             /\ new.lost = req.lost /\ new.rest = req.rest /\ new.src = t
             /\ same \in Requests /\ same.pc = p /\ same.file = req.file
             /\ same.begun = req.begun /\ same.lost = req.lost /\ same.rest = req.rest
             /\ same.src = req.src
BY DEF Requests

LEMMA Replied ==
  ASSUME ServeAssumption, Typed, NEW status \in {200, 404, 405, 500},
         NEW body \in Bodies \union {Absent}, NEW from \in BOOLEAN, Reply(status, body, from)
  PROVE  /\ req' \in Requests /\ req'.pc = "idle" /\ req'.file = req.file
         /\ req'.begun = req.begun /\ req'.lost = req.lost
         /\ got' \in [Files -> Answer \union {Absent}]
         /\ got'[req.file].status = status /\ got'[req.file].body = body
<1> DEFINE ans == [status |-> status, body |-> body, sibling |-> from]
<1>1. ans \in Answer /\ ans.status = status /\ ans.body = body
  BY DEF Answer, Bodies
<1>2. got' = [got EXCEPT ![req.file] = ans]
  BY DEF Reply
<1> HIDE DEF ans
<1>3. req.file \in Files /\ req \in Requests /\ got \in [Files -> Answer \union {Absent}]
  BY DEF Typed, Requests
<1>4. req' = [req EXCEPT !.pc = "idle", !.rest = <<>>, !.src = 0] /\ 0 \in 0..MaxClock
  BY Numbers DEF Reply
<1>5. <<>> \in Seq(Coding)
  OBVIOUS
<1>6. req' \in Requests /\ req'.pc = "idle" /\ req'.file = req.file
      /\ req'.begun = req.begun /\ req'.lost = req.lost
  BY <1>3, <1>4, <1>5 DEF Requests
<1> QED
  BY <1>1, <1>2, <1>3, <1>6

LEMMA Asking ==
  ASSUME ServeAssumption, Typed, NEW f \in Files, NEW accept \in Accepts
  PROVE  LET new == Asked(f, accept)
         IN  /\ new \in Requests /\ new.pc = "resolve" /\ new.file = f
             /\ (~new.lost => disk[f] # Absent)
             /\ disk[f] # Absent /\ disk[f].body # Torn => new.begun = disk[f].body
             /\ disk[f] # Absent /\ disk[f].body = Torn => new.begun = 0
<1>1. PICK rest \in Seq(Coding) : rest = Only("br", accept) \o Only("gzip", accept)
  <2>1. ASSUME NEW c \in Coding PROVE Only(c, accept) \in Seq(Coding)
    <3>1. <<>> \in Seq(Coding) /\ <<c>> \in Seq(Coding)
      OBVIOUS
    <3> QED
      BY <3>1 DEF Only
  <2>2. PICK br, gzip \in Seq(Coding) : br = Only("br", accept) /\ gzip = Only("gzip", accept)
    BY <2>1 DEF Coding
  <2>3. br \o gzip \in Seq(Coding)
    BY <2>2
  <2> QED
    BY <2>2, <2>3
<1>2. PICK b \in 0..MaxBuilds :
        b = IF disk[f] = Absent \/ disk[f].body = Torn THEN 0 ELSE disk[f].body
  BY Numbers DEF Typed, Stored
<1>3. PICK gone \in BOOLEAN : gone = (disk[f] = Absent)
  OBVIOUS
<1> DEFINE new == [pc |-> "resolve", file |-> f, src |-> 0, lost |-> gone, rest |-> rest,
                   begun |-> b]
<1>4. Asked(f, accept) = new
  BY <1>1, <1>2, <1>3 DEF Asked
<1>5. new \in Requests /\ new.pc = "resolve" /\ new.file = f /\ new.lost = gone /\ new.begun = b
  BY Numbers DEF Requests
<1> QED
  BY <1>2, <1>3, <1>4, <1>5

-----------------------------------------------------------------------------
(* The inductive invariant.                                                 *)

(* Until something of it is removed, what a request has seen stays there.   *)
Held ==
  /\ req.pc # "idle" /\ ~req.lost => disk[req.file] # Absent
  /\ req.pc \in Looking /\ ~req.lost => sibling[<<req.file, Head(req.rest)>>] # Absent
  /\ req.pc = "idle" /\ ~req.lost /\ got[req.file] # Absent => got[req.file].status \in {200, 405}

Complete(s) == s # Absent /\ s.body # Torn

(* With care: a sibling that is not older than its file by its time is not  *)
(* older by its body either, and what is being compressed is still current. *)
World ==
  /\ \A f \in Files :
       /\ disk[f] # Absent /\ disk[f].mtime <= clock
       /\ disk[f].body = Torn => f = "page" /\ build.pc = "fill"
       /\ disk[f].body # Torn => disk[f].body <= build.number
  /\ build.pc = "fill" => disk["page"].body = Torn
  /\ packer.pc # "idle" =>
       build.pc \in {"idle", "page"} /\ packer.source = disk[packer.file]
  /\ \A f \in Files, c \in Coding :
       Complete(sibling[<<f, c>>]) /\ sibling[<<f, c>>].mtime >= disk[f].mtime =>
         disk[f].body # Torn /\ sibling[<<f, c>>].body >= disk[f].body

NewEnough(s) == Complete(s) => s.body >= req.begun

Browser ==
  /\ req.pc # "idle" =>
       /\ req.begun <= build.number
       /\ disk[req.file].body # Torn => req.begun <= disk[req.file].body
  /\ req.pc = "sibling_time" => \A c \in Coding :
       sibling[<<req.file, c>>] # Absent /\ sibling[<<req.file, c>>].mtime >= req.src =>
         NewEnough(sibling[<<req.file, c>>])
  /\ req.pc = "read_sibling" => NewEnough(sibling[<<req.file, Head(req.rest)>>])
  /\ req.pc = "idle" /\ got[req.file] # Absent /\ got[req.file].body \notin {Absent, Torn} =>
       got[req.file].body >= req.begun

Inv == Typed /\ Held /\ (careful => World /\ Browser)

(* A step of a build or of the compressor, which the browser does not see.  *)
LEMMA WorldStep ==
  ASSUME ServeAssumption, Inv, Typed', UNCHANGED <<req, got>>,
         \A f \in Files : disk'[f] = Absent => disk[f] = Absent,
         \A f \in Files, c \in Coding : sibling'[<<f, c>>] = Absent => sibling[<<f, c>>] = Absent,
         careful' => careful /\ World' /\ build.number <= build'.number,
         careful' => \A f \in Files :
           disk'[f] = disk[f] \/ disk'[f].body = Torn \/ disk'[f].body >= build.number,
         careful' => \A f \in Files, c \in Coding :
           \/ sibling'[<<f, c>>] = sibling[<<f, c>>]
           \/ sibling'[<<f, c>>].body = Torn
           \/ disk[f].body # Torn /\ sibling'[<<f, c>>].body = disk[f].body
  PROVE  Inv'
<1>1. req.file \in Files /\ req.begun \in Nat /\ req.src \in Nat
      /\ (req.pc \in Looking => Head(req.rest) \in Coding)
  BY TailLeft DEF Inv, Typed, Requests, ServeAssumption
<1>2. Held'
  BY <1>1 DEF Inv, Held
<1>3. ASSUME careful' PROVE Browser'
  <2>1. World /\ Browser /\ World'
    BY <1>3 DEF Inv
  <2>2. build.number \in Nat /\ build'.number \in Nat
        /\ \A f \in Files : disk[f].body # Torn => disk[f].body \in Nat
    <3>1. build'.number \in Nat
      BY DEF Typed, Builds, ServeAssumption
    <3>2. \A f \in Files : disk[f].body # Torn => disk[f].body \in Nat
      BY <2>1, Numbers DEF Inv, Typed, World
    <3> QED
      BY <3>1, <3>2, Numbers DEF Inv
  <2>3. \A f \in Files : disk'[f].body # Torn => disk'[f].body \in Nat
    <3>1. \A s \in Stored : s.body # Torn => s.body \in Nat
      BY Numbers DEF Inv
    <3> QED
      BY <2>1, <3>1 DEF Typed, World
  <2>4. req.pc # "idle" =>
          /\ req.begun <= build'.number
          /\ disk'[req.file].body # Torn => req.begun <= disk'[req.file].body
    BY <1>1, <1>3, <2>1, <2>2, <2>3 DEF Browser
  <2>5. ASSUME NEW c \in Coding, req.pc # "idle", Complete(sibling[<<req.file, c>>])' 
        PROVE  \/ sibling'[<<req.file, c>>] = sibling[<<req.file, c>>]
               \/ NewEnough(sibling[<<req.file, c>>])'
    BY <1>1, <1>3, <2>1, <2>2, <2>5 DEF Browser, NewEnough, Complete
  <2>6. ASSUME NEW c \in Coding, req.pc = "sibling_time",
               sibling'[<<req.file, c>>] # Absent, sibling'[<<req.file, c>>].mtime >= req.src
        PROVE  NewEnough(sibling[<<req.file, c>>])'
    BY <2>1, <2>5, <2>6 DEF Browser, NewEnough, Complete
  <2>7. req.pc = "read_sibling" => NewEnough(sibling[<<req.file, Head(req.rest)>>])'
    BY <1>1, <2>1, <2>5 DEF Browser, NewEnough, Complete, Looking
  <2> QED
    BY <2>1, <2>4, <2>6, <2>7 DEF Browser, NewEnough
<1> QED
  BY <1>2, <1>3 DEF Inv

-----------------------------------------------------------------------------
LEMMA TickStep == ASSUME ServeAssumption, Inv, Tick PROVE Inv'
<1>1. clock' \in Seconds /\ UNCHANGED <<disk, sibling, build, packer, packs, req, got, seen, careful>>
  BY DEF Tick, Inv, Typed, Seconds, ServeAssumption
<1>2. Typed' /\ clock \in Nat /\ clock' = clock + 1
  BY <1>1, Numbers DEF Inv, Typed, Tick
<1>3. ASSUME careful PROVE World'
  <2>1. World /\ \A f \in Files : disk[f].mtime \in Nat
    BY <1>3, Numbers DEF Inv, Typed, World
  <2>2. \A f \in Files : disk'[f].mtime <= clock'
    BY <1>1, <1>2, <2>1 DEF World
  <2> QED
    BY <1>1, <2>1, <2>2 DEF World, Complete
<1> QED
  BY <1>1, <1>2, <1>3 DEF Inv, Held, Browser, NewEnough, Complete

LEMMA StartBuildStep == ASSUME ServeAssumption, Inv, StartBuild PROVE Inv'
<1>1. build.pc = "idle" /\ build'.pc = "page" /\ build'.number = build.number + 1
      /\ build' \in Builds /\ build.number \in Nat
      /\ UNCHANGED <<clock, disk, sibling, packer, packs, req, got, seen, careful>>
  BY DEF StartBuild, Inv, Typed, Builds, ServeAssumption
<1>2. Typed'
  BY <1>1 DEF Inv, Typed
<1>3. ASSUME careful' PROVE World'
  <2>1. World /\ \A f \in Files : disk[f].body # Torn => disk[f].body \in Nat
    BY <1>1, <1>3, Numbers DEF Inv, Typed, World
  <2> QED
    BY <1>1, <2>1 DEF World, Complete
<1>4. careful' => careful /\ World' /\ build.number <= build'.number
  BY <1>1, <1>3
<1> QED
  BY <1>1, <1>2, <1>4, WorldStep

(* A file that is written outside the compressor's work and in a second of  *)
(* its own is newer than its siblings.                                      *)
LEMMA StoreStep ==
  ASSUME ServeAssumption, Inv, NEW f \in Files, NEW body \in Bodies, Store(f, body),
         build' \in Builds, build'.number = build.number,
         \/ build'.pc \in {"skin", "truncate"} /\ body = build.number /\ build.pc # "fill"
         \/ build'.pc = "fill" /\ body = Torn /\ f = "page"
  PROVE  Inv'
<1> DEFINE new == [body |-> body, mtime |-> clock]
<1>1. new \in Stored /\ new.body = body /\ new.mtime = clock /\ new # Absent
  BY DEF Inv, Typed, Stored, Bodies, ServeAssumption
<1>2. disk' = [disk EXCEPT ![f] = new]
      /\ UNCHANGED <<clock, sibling, packer, packs, req, got>>
      /\ careful' = (careful /\ packer.pc = "idle" /\ LaterThanStamps(f))
  BY DEF Store
<1> HIDE DEF new
<1>3. disk'[f] = new /\ \A g \in Files \ {f} : disk'[g] = disk[g]
  BY <1>2 DEF Inv, Typed
<1>4. Typed'
  BY <1>1, <1>2 DEF Inv, Typed
<1>5. build.number \in Nat /\ (body = Torn \/ body = build.number) /\ Torn \notin Nat
  BY Numbers DEF Inv
<1>6. ASSUME careful' PROVE careful /\ World'
  <2>1. careful /\ packer.pc = "idle" /\ LaterThanStamps(f) /\ World
    BY <1>2, <1>6 DEF Inv
  <2>2. ASSUME NEW c \in Coding, sibling[<<f, c>>] # Absent
        PROVE  sibling[<<f, c>>].mtime < clock /\ sibling[<<f, c>>].mtime \in Nat /\ clock \in Nat
    <3>1. sibling[<<f, c>>].mtime < clock
      BY <2>1, <2>2 DEF LaterThanStamps, Coding
    <3>2. sibling[<<f, c>>] \in Stored
      BY <2>2 DEF Inv, Typed
    <3> QED
      BY <3>1, <3>2, Numbers DEF Inv
  <2>3. \A g \in Files :
          /\ disk'[g] # Absent /\ disk'[g].mtime <= clock'
          /\ disk'[g].body = Torn => g = "page" /\ build'.pc = "fill"
          /\ disk'[g].body # Torn => disk'[g].body <= build'.number
    BY <1>1, <1>2, <1>3, <1>5, <2>1, Numbers DEF World, Inv
  <2>4. build'.pc = "fill" => disk'["page"].body = Torn
    BY <1>1, <1>3
  <2>5. ASSUME NEW g \in Files, NEW c \in Coding, Complete(sibling[<<g, c>>])',
               sibling'[<<g, c>>].mtime >= disk'[g].mtime
        PROVE  disk'[g].body # Torn /\ sibling'[<<g, c>>].body >= disk'[g].body
    <3>1. CASE g = f
      BY <1>1, <1>2, <1>3, <2>2, <2>5, <3>1 DEF Complete
    <3>2. CASE g # f
      BY <1>2, <1>3, <2>1, <2>5, <3>2 DEF World, Complete
    <3> QED
      BY <3>1, <3>2
  <2>6. packer'.pc = "idle"
    BY <1>2, <2>1
  <2> QED
    BY <2>1, <2>3, <2>4, <2>5, <2>6 DEF World
<1>7. \A g \in Files :
        /\ disk'[g] = Absent => disk[g] = Absent
        /\ disk'[g] = disk[g] \/ disk'[g].body = Torn \/ disk'[g].body >= build.number
  BY <1>1, <1>3, <1>5
<1>8. careful' => careful /\ World' /\ build.number <= build'.number
  BY <1>5, <1>6
<1> QED
  BY <1>2, <1>4, <1>7, <1>8, WorldStep

LEMMA FillPageStep == ASSUME ServeAssumption, Inv, FillPage PROVE Inv'
<1> DEFINE new == [body |-> build.number, mtime |-> clock]
<1>1. build.pc = "fill" /\ build' = [build EXCEPT !.pc = "idle"]
      /\ careful' = careful /\ UNCHANGED <<clock, sibling, packer, packs, req, got>>
      /\ disk' = IF disk["page"] = Absent THEN disk ELSE [disk EXCEPT !["page"] = new]
  BY DEF FillPage
<1>2. new \in Stored /\ new.body = build.number /\ new.mtime = clock /\ new # Absent
  BY DEF Inv, Typed, Builds, Stored, ServeAssumption
<1> HIDE DEF new
<1>0. build' \in Builds /\ build'.pc = "idle" /\ build'.number = build.number
  BY <1>1 DEF Inv, Typed, Builds
<1>3. "page" \in Files /\ build.number \in Nat /\ clock \in Nat /\ Torn \notin Nat
  BY Numbers DEF Inv, Files
<1>4. Typed'
  BY <1>0, <1>1, <1>2, <1>3 DEF Inv, Typed
<1>5. disk["page"] # Absent =>
        disk'["page"] = new /\ \A g \in Files \ {"page"} : disk'[g] = disk[g]
  BY <1>0, <1>1, <1>3 DEF Inv, Typed
<1>6. ASSUME careful' PROVE careful /\ World'
  <2>1. careful /\ World /\ disk["page"] # Absent
    BY <1>0, <1>1, <1>3, <1>6 DEF Inv, World
  <2>2. disk["page"].body = Torn /\ packer.pc = "idle" /\ disk["page"].mtime \in Nat
        /\ disk["page"].mtime <= clock
    BY <1>0, <1>1, <1>3, <2>1, Numbers DEF Inv, Typed, World
  <2>3. \A g \in Files :
          /\ disk'[g] # Absent /\ disk'[g].mtime <= clock'
          /\ disk'[g].body # Torn
          /\ disk'[g].body <= build'.number
    BY <1>0, <1>1, <1>2, <1>3, <1>5, <2>1 DEF World
  <2>4. ASSUME NEW g \in Files, NEW c \in Coding, Complete(sibling[<<g, c>>])',
               sibling'[<<g, c>>].mtime >= disk'[g].mtime
        PROVE  disk'[g].body # Torn /\ sibling'[<<g, c>>].body >= disk'[g].body
    <3>1. CASE g = "page"
      <4>1. sibling[<<g, c>>] \in Stored
        BY <1>0, <1>1, <2>4 DEF Inv, Typed, Complete
      <4>2. sibling[<<g, c>>].mtime >= disk["page"].mtime
        BY <1>0, <1>1, <1>2, <1>3, <1>5, <2>1, <2>2, <2>4, <3>1, <4>1, Numbers DEF Inv
      <4> QED
        BY <1>0, <1>1, <2>1, <2>2, <2>4, <3>1, <4>2 DEF World, Complete
    <3>2. CASE g # "page"
      BY <1>0, <1>1, <1>5, <2>1, <2>4, <3>2 DEF World, Complete
    <3> QED
      BY <3>1, <3>2
  <2> QED
    BY <1>0, <1>1, <2>1, <2>2, <2>3, <2>4 DEF World
<1>7. \A g \in Files :
        /\ disk'[g] = Absent => disk[g] = Absent
        /\ disk'[g] = disk[g] \/ disk'[g].body >= build.number
  BY <1>0, <1>1, <1>2, <1>3, <1>5
<1>8. careful' => careful /\ World' /\ build.number <= build'.number
  BY <1>0, <1>1, <1>3, <1>6
<1> QED
  BY <1>0, <1>1, <1>4, <1>7, <1>8, WorldStep

LEMMA SkipInjectionStep == ASSUME ServeAssumption, Inv, SkipInjection PROVE Inv'
<1>1. build.pc = "truncate" /\ build'.pc = "idle" /\ build'.number = build.number
      /\ build' \in Builds /\ build.number \in Nat
      /\ UNCHANGED <<clock, disk, sibling, packer, packs, req, got, seen, careful>>
  BY Numbers DEF SkipInjection, Inv, Typed, Builds
<1>2. Typed'
  BY <1>1 DEF Inv, Typed
<1>3. careful' => careful /\ World' /\ build.number <= build'.number
  BY <1>1 DEF Inv, World, Complete
<1> QED
  BY <1>1, <1>2, <1>3, WorldStep

LEMMA PackReadStep ==
  ASSUME ServeAssumption, Inv, NEW f \in Files, NEW c \in Coding, PackRead(f, c) PROVE Inv'
<1>1. packer.pc = "idle" /\ disk[f] # Absent
      /\ packer' = [pc |-> "read", file |-> f, coding |-> c, source |-> disk[f]]
      /\ careful' = (careful /\ build.pc = "idle")
      /\ UNCHANGED <<clock, disk, sibling, build, req, got>>
  BY DEF PackRead
<1>2. packer' \in [pc : {"idle", "read", "open"}, file : Files, coding : Coding, source : Stored]
      /\ packer'.pc = "read" /\ packer'.file = f /\ packer'.source = disk[f]
  BY <1>1 DEF Inv, Typed
<1>3. Typed' /\ build.number \in Nat
  BY <1>1, <1>2, Numbers DEF Inv, Typed
<1>4. ASSUME careful' PROVE careful /\ World'
  <2>1. careful /\ build.pc = "idle" /\ World
    BY <1>1, <1>4 DEF Inv
  <2> QED
    BY <1>1, <1>2, <2>1 DEF World, Complete
<1>5. careful' => careful /\ World' /\ build.number <= build'.number
  BY <1>1, <1>3, <1>4
<1> QED
  BY <1>1, <1>3, <1>5, WorldStep

(* The sibling of the file that is being compressed, and no other, changes. *)
LEMMA PackStep ==
  ASSUME ServeAssumption, Inv, NEW new \in Stored,
         UNCHANGED <<clock, disk, build, req, got, careful>>, packer.pc # "idle",
         sibling' = [sibling EXCEPT ![<<packer.file, packer.coding>>] = new],
         new.body = Torn \/ new.body = packer.source.body,
         packer' \in [pc : {"idle", "read", "open"}, file : Files, coding : Coding, source : Stored],
         packer'.pc = "idle" \/ (packer'.file = packer.file /\ packer'.source = packer.source)
  PROVE  Inv'
<1> DEFINE f == packer.file
           fc == <<packer.file, packer.coding>>
<1>1. f \in Files /\ packer.coding \in Coding /\ fc \in Files \X Coding
  BY DEF Inv, Typed
<1>2. /\ sibling' \in [Files \X Coding -> Stored \union {Absent}]
      /\ \A g \in Files, c \in Coding :
           sibling'[<<g, c>>] = sibling[<<g, c>>] \/ (g = f /\ sibling'[<<g, c>>] = new)
  BY <1>1 DEF Inv, Typed
<1>3. Typed' /\ build.number \in Nat
  BY <1>2, Numbers DEF Inv, Typed
<1>4. new # Absent
  BY Numbers DEF Inv
<1>5. ASSUME careful'
      PROVE  /\ careful /\ World /\ packer.source = disk[f] /\ disk[f].body # Torn
             /\ disk[f].body \in Nat
  <2>1. careful /\ World /\ packer.source = disk[f] /\ build.pc # "fill"
    BY <1>5 DEF Inv, World
  <2>2. disk[f] \in Stored /\ disk[f].body # Torn
    BY <1>1, <2>1 DEF Inv, Typed, World
  <2> QED
    BY <2>1, <2>2, Numbers DEF Inv
<1>6. ASSUME careful' PROVE World'
  <2>1. ASSUME NEW g \in Files, NEW c \in Coding, Complete(sibling[<<g, c>>])',
               sibling'[<<g, c>>].mtime >= disk'[g].mtime
        PROVE  disk'[g].body # Torn /\ sibling'[<<g, c>>].body >= disk'[g].body
    <3>1. CASE sibling'[<<g, c>>] = sibling[<<g, c>>]
      BY <1>5, <1>6, <2>1, <3>1 DEF World, Complete
    <3>2. CASE g = f /\ sibling'[<<g, c>>] = new
      BY <1>5, <1>6, <2>1, <3>2 DEF Complete
    <3> QED
      BY <1>2, <3>1, <3>2
  <2>2. packer'.pc # "idle" =>
          build.pc \in {"idle", "page"} /\ packer'.source = disk[packer'.file]
    BY <1>5, <1>6 DEF World
  <2> QED
    BY <1>5, <1>6, <2>1, <2>2 DEF World
<1>7. careful' => careful /\ World' /\ build.number <= build'.number
  BY <1>3, <1>5, <1>6
<1>8. \A g \in Files, c \in Coding : sibling'[<<g, c>>] = Absent => sibling[<<g, c>>] = Absent
  BY <1>2, <1>4
<1>9. careful' => \A g \in Files, c \in Coding :
        \/ sibling'[<<g, c>>] = sibling[<<g, c>>]
        \/ sibling'[<<g, c>>].body = Torn
        \/ disk[g].body # Torn /\ sibling'[<<g, c>>].body = disk[g].body
  BY <1>2, <1>5
<1> QED
  BY <1>3, <1>7, <1>8, <1>9, WorldStep

LEMMA PackOpenStep == ASSUME ServeAssumption, Inv, PackOpen PROVE Inv'
<1> DEFINE new == [body |-> Torn, mtime |-> clock]
<1>1. new \in Stored /\ new.body = Torn
  BY DEF Inv, Typed, Stored
<1>2. packer' = [packer EXCEPT !.pc = "open"] /\ packer.pc # "idle"
      /\ UNCHANGED <<clock, disk, build, req, got, careful>>
      /\ sibling' = [sibling EXCEPT ![<<packer.file, packer.coding>>] = new]
  BY DEF PackOpen
<1> HIDE DEF new
<1>3. packer' \in [pc : {"idle", "read", "open"}, file : Files, coding : Coding, source : Stored]
      /\ packer'.file = packer.file /\ packer'.source = packer.source
  BY <1>2 DEF Inv, Typed
<1> QED
  BY <1>1, <1>2, <1>3, PackStep

LEMMA PackFillStep ==
  ASSUME ServeAssumption, Inv, NEW stamp \in Seconds, PackFill(stamp) PROVE Inv'
<1>1. PICK new : new = [body |-> packer.source.body, mtime |-> stamp]
  OBVIOUS
<1>4. new \in Stored /\ new.body = packer.source.body
  BY <1>1 DEF Inv, Typed, Stored
<1>2. packer' = NotPacking /\ packer.pc # "idle"
      /\ UNCHANGED <<clock, disk, build, req, got, careful>>
      /\ sibling' = [sibling EXCEPT ![<<packer.file, packer.coding>>] = new]
  BY <1>1 DEF PackFill
<1>3. packer' \in [pc : {"idle", "read", "open"}, file : Files, coding : Coding, source : Stored]
      /\ packer'.pc = "idle"
  <2>1. [body |-> 0, mtime |-> 1] \in Stored
    BY DEF Stored, Seconds, ServeAssumption
  <2> QED
    BY <1>2, <2>1 DEF NotPacking, Files, Coding
<1> QED
  <2>1. UNCHANGED <<clock, disk, build, req, got, careful>> /\ packer.pc # "idle"
        /\ sibling' = [sibling EXCEPT ![<<packer.file, packer.coding>>] = new]
    BY <1>2
  <2>2. packer'.pc = "idle" \/ (packer'.file = packer.file /\ packer'.source = packer.source)
    BY <1>3
  <2>3. new.body = Torn \/ new.body = packer.source.body
    BY <1>4
  <2>4. packer' \in [pc : {"idle", "read", "open"}, file : Files, coding : Coding, source : Stored]
    BY <1>3
  <2> QED
    BY <1>4, <2>1, <2>2, <2>3, <2>4, PackStep

(* A removal is noted in the request it concerns, and is not careful.       *)
LEMMA RemoveStep ==
  ASSUME ServeAssumption, Inv, NEW f \in Files, NEW c \in Coding, Remove(f) \/ RemoveSibling(f, c)
  PROVE  Inv'
<1>1. /\ req' = Lost(f) /\ careful' = FALSE /\ UNCHANGED <<clock, build, packer, got>>
      /\ disk' = [disk EXCEPT ![f] = Absent] \/ disk' = disk
      /\ sibling' = [sibling EXCEPT ![<<f, c>>] = Absent] \/ sibling' = sibling
  BY DEF Remove, RemoveSibling
<1>2. /\ disk' \in [Files -> Stored \union {Absent}]
      /\ sibling' \in [Files \X Coding -> Stored \union {Absent}]
      /\ \A g \in Files \ {f} : disk'[g] = disk[g]
      /\ \A g \in Files \ {f}, d \in Coding : sibling'[<<g, d>>] = sibling[<<g, d>>]
  BY <1>1 DEF Inv, Typed
<1>3. PICK gone \in BOOLEAN : gone = (req.lost \/ req.file = f)
  BY DEF Inv, Typed, Requests
<1>4. req' = [req EXCEPT !.lost = gone] /\ req \in Requests
  BY <1>1, <1>3 DEF Lost, Inv, Typed
<1>5. req' \in Requests /\ req'.pc = req.pc /\ req'.file = req.file /\ req'.rest = req.rest
      /\ req'.lost = gone
  BY <1>4 DEF Requests
<1>6. Typed'
  BY <1>1, <1>2, <1>5 DEF Inv, Typed
<1>7. ~req'.lost => ~req.lost /\ req.file # f
  BY <1>3, <1>5
<1>8. req.file \in Files /\ (req.pc \in Looking => Head(req.rest) \in Coding)
  BY TailLeft DEF Inv, Typed, Requests
<1>9. Held'
  BY <1>1, <1>2, <1>5, <1>7, <1>8 DEF Inv, Held
<1> QED
  BY <1>1, <1>6, <1>9 DEF Inv

-----------------------------------------------------------------------------
(* A step of the browser or of the request leaves the directory as it is.   *)
LEMMA DiskKept ==
  ASSUME Inv, UNCHANGED <<clock, disk, sibling, build, packer, careful>>,
         req' \in Requests, req'.pc \in Looking => req'.rest # <<>>,
         got' \in [Files -> Answer \union {Absent}], Held', careful => Browser'
  PROVE  Inv'
BY DEF Inv, Typed, World, Complete

LEMMA AskStep ==
  ASSUME ServeAssumption, Inv, NEW f \in Files, NEW accept \in Accepts, req' = Asked(f, accept),
         UNCHANGED <<clock, disk, sibling, build, packer, careful>>,
         got' \in [Files -> Answer \union {Absent}]
  PROVE  Inv'
<1>1. /\ req' \in Requests /\ req'.pc = "resolve" /\ req'.file = f
      /\ ~req'.lost => disk[f] # Absent
      /\ disk[f] # Absent /\ disk[f].body # Torn => req'.begun = disk[f].body
      /\ disk[f] # Absent /\ disk[f].body = Torn => req'.begun = 0
  BY Asking DEF Inv
<1>2. Held' /\ (req'.pc \in Looking => req'.rest # <<>>)
  BY <1>1 DEF Held, Looking
<1>3. ASSUME careful PROVE Browser'
  <2>1. disk[f] # Absent /\ (disk[f].body # Torn => disk[f].body <= build.number)
        /\ build.number \in Nat /\ (disk[f].body # Torn => disk[f].body \in Nat)
    BY <1>3, Numbers DEF Inv, Typed, World
  <2>2. req'.begun <= build.number /\ (disk[f].body # Torn => req'.begun <= disk[f].body)
    BY <1>1, <2>1
  <2> QED
    BY <1>1, <2>2 DEF Browser
<1> QED
  BY <1>1, <1>2, <1>3, DiskKept

LEMMA AskPageStep ==
  ASSUME ServeAssumption, Inv, NEW accept \in Accepts, AskPage(accept) PROVE Inv'
<1>1. req' = Asked("page", accept) /\ "page" \in Files
      /\ UNCHANGED <<clock, disk, sibling, build, packer, careful>>
  BY DEF AskPage, Files
<1>2. got' \in [Files -> Answer \union {Absent}]
  BY DEF AskPage
<1> QED
  BY <1>1, <1>2, AskStep

LEMMA AskSkinStep ==
  ASSUME ServeAssumption, Inv, NEW accept \in Accepts, AskSkin(accept) PROVE Inv'
<1>1. req' = Asked("skin", accept) /\ "skin" \in Files
      /\ UNCHANGED <<clock, disk, sibling, build, packer, careful>>
      /\ got' \in [Files -> Answer \union {Absent}]
  BY DEF AskSkin, Untouched, Files, Inv, Typed
<1> QED
  BY <1>1, AskStep

(* An answer: of the file that was there, unless it was removed, and with   *)
(* care of a build no older than the one the request found.                 *)
LEMMA ReplyStep ==
  ASSUME ServeAssumption, Inv, Untouched, NEW status \in {200, 404, 405, 500},
         NEW body \in Bodies \union {Absent}, NEW from \in BOOLEAN, Reply(status, body, from),
         ~req.lost => status \in {200, 405},
         careful /\ body \notin {Absent, Torn} => body >= req.begun
  PROVE  Inv'
<1>1. /\ req' \in Requests /\ req'.pc = "idle" /\ req'.file = req.file
      /\ req'.begun = req.begun /\ req'.lost = req.lost
      /\ got' \in [Files -> Answer \union {Absent}]
      /\ got'[req.file].status = status /\ got'[req.file].body = body
  BY Replied DEF Inv
<1>2. UNCHANGED <<clock, disk, sibling, build, packer, careful>>
  BY DEF Untouched
<1>3. Held' /\ (req'.pc \in Looking => req'.rest # <<>>)
  BY <1>1 DEF Held, Looking
<1>4. careful => Browser'
  BY <1>1 DEF Browser
<1> QED
  BY <1>1, <1>2, <1>3, <1>4, DiskKept

(* An answer without a body.                                                *)
LEMMA BareStep ==
  ASSUME ServeAssumption, Inv, Untouched, NEW status \in {200, 404, 405, 500},
         Reply(status, Absent, FALSE), ~req.lost => status \in {200, 405}
  PROVE  Inv'
<1>1. Absent \in Bodies \union {Absent} /\ FALSE \in BOOLEAN
  OBVIOUS
<1>2. careful /\ Absent \notin {Absent, Torn} => Absent >= req.begun
  OBVIOUS
<1> QED
  BY <1>1, <1>2, ReplyStep

LEMMA RefuseStep == ASSUME ServeAssumption, Inv, RefuseMethod PROVE Inv'
<1>1. Reply(405, Absent, FALSE) /\ Untouched
  BY DEF RefuseMethod
<1> QED
  BY <1>1, BareStep

(* What fs::read finds.                                                     *)
LEMMA ReadStep ==
  ASSUME ServeAssumption, Inv, Untouched, NEW stored \in Stored \union {Absent}, NEW from \in BOOLEAN,
         ReadBody(stored, from), ~req.lost => stored # Absent, careful => NewEnough(stored)
  PROVE  Inv'
<1>1. CASE stored = Absent
  <2>1. Reply(500, Absent, FALSE)
    BY <1>1 DEF ReadBody
  <2> QED
    BY <1>1, <2>1, BareStep
<1>2. CASE stored # Absent
  <2>1. Reply(200, stored.body, from) /\ stored.body \in Bodies
    BY <1>2 DEF ReadBody, Stored, Bodies
  <2>2. careful /\ stored.body \notin {Absent, Torn} => stored.body >= req.begun
    BY <1>2 DEF NewEnough, Complete
  <2> QED
    BY <2>1, <2>2, ReplyStep
<1> QED
  BY <1>1, <1>2

LEMMA ResolveStep == ASSUME ServeAssumption, Inv, Resolve PROVE Inv'
<1>1. req.pc = "resolve" /\ Untouched /\ req \in Requests
  BY DEF Resolve, Inv, Typed
<1>2. CASE disk[req.file] = Absent /\ Reply(404, Absent, FALSE)
  <2>1. ~req.lost => 404 \in {200, 405}
    BY <1>1, <1>2 DEF Inv, Held
  <2> QED
    BY <1>1, <1>2, <2>1, BareStep
<1>3. CASE disk[req.file] # Absent /\ req' = [req EXCEPT !.pc = "negotiate"] /\ UNCHANGED got
  <2>1. req' \in Requests /\ req'.pc = "negotiate" /\ req'.file = req.file
        /\ req'.begun = req.begun /\ req'.lost = req.lost
    BY <1>1, <1>3, GoesOn, Numbers DEF Inv
  <2>2. UNCHANGED <<clock, disk, sibling, build, packer, careful>>
    BY <1>1 DEF Untouched
  <2>3. Held' /\ (req'.pc \in Looking => req'.rest # <<>>)
    BY <1>1, <1>3, <2>1, <2>2 DEF Held, Looking
  <2>4. careful => Browser'
    BY <1>1, <2>1, <2>2 DEF Inv, Browser
  <2>5. got' \in [Files -> Answer \union {Absent}]
    BY <1>3 DEF Inv, Typed
  <2> QED
    BY <2>1, <2>2, <2>3, <2>4, <2>5, DiskKept
<1> QED
  BY <1>2, <1>3 DEF Resolve

(* A request that goes on to the next coding, or to the file itself, has    *)
(* nothing to keep but the file.                                            *)
LEMMA BackToFile ==
  ASSUME ServeAssumption, Inv, Untouched, UNCHANGED got, req.pc # "idle",
         req' \in Requests, req'.pc \in {"negotiate", "read"}, req'.file = req.file,
         req'.begun = req.begun, req'.lost = req.lost
  PROVE  Inv'
<1>1. UNCHANGED <<clock, disk, sibling, build, packer, careful>>
  BY DEF Untouched
<1>2. Held' /\ (req'.pc \in Looking => req'.rest # <<>>)
  BY <1>1 DEF Inv, Held, Looking
<1>3. careful => Browser'
  BY <1>1 DEF Inv, Browser
<1>4. got' \in [Files -> Answer \union {Absent}]
  BY DEF Inv, Typed
<1> QED
  BY <1>1, <1>2, <1>3, <1>4, DiskKept

(* A request that looks at the sibling of its coding.                       *)
LEMMA LookOn ==
  ASSUME ServeAssumption, Inv, Untouched, UNCHANGED got, req.pc # "idle", req.rest # <<>>,
         req' \in Requests, req'.pc \in Looking, req'.file = req.file,
         req'.begun = req.begun, req'.lost = req.lost, req'.rest = req.rest,
         ~req.lost => sibling[<<req.file, Head(req.rest)>>] # Absent,
         careful => Browser'
  PROVE  Inv'
<1>1. UNCHANGED <<clock, disk, sibling, build, packer, careful>>
  BY DEF Untouched
<1>2. Held' /\ req'.rest # <<>>
  BY <1>1 DEF Inv, Held, Looking
<1>3. got' \in [Files -> Answer \union {Absent}]
  BY DEF Inv, Typed
<1> QED
  BY <1>1, <1>2, <1>3, DiskKept

LEMMA NegotiateStep == ASSUME ServeAssumption, Inv, Negotiate PROVE Inv'
<1>1. req.pc = "negotiate" /\ Untouched /\ got' = got /\ req \in Requests
  BY DEF Negotiate, Inv, Typed
<1>2. CASE req.rest = <<>>
  <2>1. req' = [req EXCEPT !.pc = "read"]
    BY <1>2 DEF Negotiate
  <2>2. req' \in Requests /\ req'.pc = "read" /\ req'.file = req.file
        /\ req'.begun = req.begun /\ req'.lost = req.lost
    BY <1>1, <2>1, GoesOn, Numbers DEF Inv
  <2> QED
    BY <1>1, <2>2, BackToFile
<1>3. CASE req.rest # <<>> /\ sibling[<<req.file, Head(req.rest)>>] = Absent
  <2>1. req' = NextCoding
    BY <1>3 DEF Negotiate
  <2> QED
    BY <1>1, <1>3, <2>1, Onward, BackToFile
<1>4. CASE req.rest # <<>> /\ sibling[<<req.file, Head(req.rest)>>] # Absent
  <2>1. req' = [req EXCEPT !.pc = "source_time"]
    BY <1>4 DEF Negotiate
  <2>2. req' \in Requests /\ req'.pc = "source_time" /\ req'.file = req.file
        /\ req'.begun = req.begun /\ req'.lost = req.lost /\ req'.rest = req.rest
    BY <1>1, <2>1, GoesOn, Numbers DEF Inv, Looking
  <2>3. careful => Browser'
    BY <1>1, <2>2 DEF Inv, Browser, Untouched
  <2>4. req'.pc \in Looking
    BY <2>2 DEF Looking
  <2> QED
    BY <1>1, <1>4, <2>2, <2>3, <2>4, LookOn
<1> QED
  BY <1>2, <1>3, <1>4

(* The time of the source is read: from here on a sibling that is as new    *)
(* by its time is, with care, as new as the request asks.                   *)
LEMMA StatSourceStep == ASSUME ServeAssumption, Inv, StatSource PROVE Inv'
<1>1. req.pc = "source_time" /\ Untouched /\ got' = got /\ req \in Requests
      /\ req' = [req EXCEPT !.pc = "sibling_time", !.src = Mtime(disk[req.file])]
      /\ req.file \in Files
  BY DEF StatSource, Inv, Typed, Requests
<1>2. Mtime(disk[req.file]) \in 0..MaxClock
  <2>1. disk[req.file] \in Stored \union {Absent}
    BY <1>1 DEF Inv, Typed
  <2> QED
    BY <2>1, Numbers DEF Inv, Mtime, Stored, Seconds, ServeAssumption
<1>3. req' \in Requests /\ req'.pc = "sibling_time" /\ req'.file = req.file
      /\ req'.begun = req.begun /\ req'.lost = req.lost /\ req'.rest = req.rest
      /\ req'.src = Mtime(disk[req.file])
  <2>1. PICK t \in 0..MaxClock : t = Mtime(disk[req.file])
    BY <1>2
  <2>2. req' = [req EXCEPT !.pc = "sibling_time", !.src = t]
    BY <1>1, <2>1
  <2>3. "sibling_time" \in {"idle", "resolve", "negotiate", "read"} \union Looking
    BY DEF Looking
  <2>4. req' \in Requests /\ req'.pc = "sibling_time" /\ req'.file = req.file
        /\ req'.begun = req.begun /\ req'.lost = req.lost /\ req'.rest = req.rest
        /\ req'.src = t
    BY <1>1, <2>2, <2>3 DEF Requests
  <2> QED
    BY <2>1, <2>4
<1>4. ASSUME careful PROVE Browser'
  <2>1. World /\ Browser /\ req.begun \in Nat /\ build.number \in Nat
    BY <1>1, <1>4, Numbers DEF Inv, Requests, ServeAssumption
  <2>2. disk[req.file] # Absent /\ req'.src = disk[req.file].mtime
        /\ (disk[req.file].body # Torn =>
              req.begun <= disk[req.file].body /\ disk[req.file].body \in Nat)
    BY <1>1, <1>3, <2>1, Numbers DEF Mtime, World, Browser, Inv, Typed
  <2>3. ASSUME NEW c \in Coding, Complete(sibling[<<req.file, c>>]),
               sibling[<<req.file, c>>].mtime >= req'.src
        PROVE  sibling[<<req.file, c>>].body >= req.begun
    <3>1. disk[req.file].body # Torn /\ sibling[<<req.file, c>>].body >= disk[req.file].body
      BY <1>1, <2>1, <2>2, <2>3 DEF World
    <3>2. sibling[<<req.file, c>>].body \in Nat
      BY <1>1, <2>3, Numbers DEF Inv, Typed, Complete
    <3> QED
      BY <2>1, <2>2, <3>1, <3>2
  <2> QED
    BY <1>1, <1>3, <2>1, <2>2, <2>3 DEF Browser, NewEnough, Complete, Untouched
<1>5. ~req.lost => sibling[<<req.file, Head(req.rest)>>] # Absent
  BY <1>1 DEF Inv, Held, Looking
<1>6. req.rest # <<>> /\ req'.pc \in Looking
  BY <1>1, <1>3 DEF Inv, Typed, Looking
<1> QED
  BY <1>1, <1>3, <1>4, <1>5, <1>6, LookOn

LEMMA StatSiblingStep == ASSUME ServeAssumption, Inv, StatSibling PROVE Inv'
<1> DEFINE sib == sibling[<<req.file, Head(req.rest)>>]
<1>1. req.pc = "sibling_time" /\ Untouched /\ got' = got /\ req \in Requests
      /\ req.rest # <<>> /\ req.file \in Files /\ Head(req.rest) \in Coding
  BY TailLeft DEF StatSibling, Inv, Typed, Requests, Looking
<1>2. CASE IsStale(Mtime(sib))
  <2>1. req' = NextCoding
    BY <1>2 DEF StatSibling
  <2> QED
    BY <1>1, <2>1, Onward, BackToFile
<1>3. CASE ~IsStale(Mtime(sib))
  <2>1. req' = [req EXCEPT !.pc = "read_sibling"]
    BY <1>3 DEF StatSibling
  <2>2. req' \in Requests /\ req'.pc = "read_sibling" /\ req'.file = req.file
        /\ req'.begun = req.begun /\ req'.lost = req.lost /\ req'.rest = req.rest
    BY <1>1, <2>1, GoesOn, Numbers DEF Inv, Looking
  <2>3. ASSUME careful PROVE Browser'
    <3>1. Browser /\ req.src \in Nat
      BY <1>1, <2>3 DEF Inv, Requests, ServeAssumption
    <3>2. sib # Absent => sib.mtime >= req.src
      <4>1. sib # Absent => sib.mtime \in Nat
        BY <1>1, Numbers DEF Inv, Typed
      <4> QED
        BY <1>3, <3>1, <4>1 DEF IsStale, Mtime
    <3>3. NewEnough(sib)
      BY <1>1, <3>1, <3>2 DEF Browser, NewEnough, Complete
    <3> QED
      BY <1>1, <2>2, <3>1, <3>3 DEF Browser, NewEnough, Complete, Untouched
  <2>4. ~req.lost => sib # Absent
    BY <1>1 DEF Inv, Held, Looking
  <2>5. req'.pc \in Looking
    BY <2>2 DEF Looking
  <2> QED
    BY <1>1, <2>2, <2>3, <2>4, <2>5, LookOn
<1> QED
  BY <1>2, <1>3

LEMMA ReadSiblingStep == ASSUME ServeAssumption, Inv, ReadSibling PROVE Inv'
<1>1. PICK stored \in Stored \union {Absent} : stored = sibling[<<req.file, Head(req.rest)>>]
  BY TailLeft DEF ReadSibling, Inv, Typed, Requests, Looking
<1>2. req.pc = "read_sibling" /\ Untouched /\ ReadBody(stored, TRUE) /\ TRUE \in BOOLEAN
  BY <1>1 DEF ReadSibling
<1>3. (~req.lost => stored # Absent) /\ (careful => NewEnough(stored))
  BY <1>1, <1>2 DEF Inv, Held, Browser, Looking
<1> QED
  BY <1>2, <1>3, ReadStep

LEMMA ReadFileStep == ASSUME ServeAssumption, Inv, ReadFile PROVE Inv'
<1>1. PICK stored \in Stored \union {Absent} : stored = disk[req.file]
  BY DEF ReadFile, Inv, Typed, Requests
<1>2. req.pc = "read" /\ Untouched /\ ReadBody(stored, FALSE) /\ FALSE \in BOOLEAN
  BY <1>1 DEF ReadFile
<1>3. ~req.lost => stored # Absent
  BY <1>1, <1>2 DEF Inv, Held
<1>4. careful => NewEnough(stored)
  <2>1. req.begun \in Nat /\ (Complete(stored) => stored.body \in Nat)
    BY Numbers DEF Inv, Typed, Requests, Complete, ServeAssumption
  <2> QED
    BY <1>1, <1>2, <2>1 DEF Inv, Browser, NewEnough, Complete
<1> QED
  BY <1>2, <1>3, <1>4, ReadStep

-----------------------------------------------------------------------------
LEMMA InitInv == ServeAssumption /\ ServeInit => Inv
<1> SUFFICES ASSUME ServeAssumption, ServeInit PROVE Inv
  OBVIOUS
<1>1. Typed /\ 0 \in Nat /\ Absent \notin Nat /\ Torn \notin Nat
  BY InitTyped, Numbers
<1>2. req.pc = "idle" /\ req.begun = 0 /\ req.file = "page" /\ got["page"] = Absent
  BY DEF ServeInit, NoRequest, Files
<1>3. PICK made : made = [body |-> 0, mtime |-> 1]
  OBVIOUS
<1>4. \A f \in Files : disk[f] # Absent /\ disk[f].body = 0 /\ disk[f].mtime = 1
  <2>1. made \in Stored /\ made.body = 0 /\ made.mtime = 1
    BY <1>3 DEF Stored, Seconds, ServeAssumption
  <2>2. \A f \in Files : disk[f] = made
    BY <1>3 DEF ServeInit
  <2> QED
    BY <1>1, <2>1, <2>2, Numbers
<1>5. ASSUME NEW f \in Files, NEW c \in Coding, Complete(sibling[<<f, c>>])
      PROVE  sibling[<<f, c>>].body >= 0
  <2>1. sibling[<<f, c>>] \in Stored /\ sibling[<<f, c>>].body # Torn
    BY <1>1, <1>5 DEF Typed, Complete
  <2> QED
    BY <1>1, <2>1, Numbers
<1>6. World
  <2>1. clock = 1 /\ build.pc = "idle" /\ build.number = 0 /\ packer.pc = "idle"
    BY DEF ServeInit, NotPacking
  <2> QED
    BY <1>1, <1>4, <1>5, <2>1 DEF World
<1>7. Held /\ Browser
  BY <1>2 DEF Held, Browser, Looking
<1> QED
  BY <1>1, <1>6, <1>7 DEF Inv

LEMMA NextInv == ASSUME ServeAssumption, Inv, [ServeNext]_serveVars PROVE Inv'
<1>1. CASE Tick \/ StartBuild
  BY <1>1, TickStep, StartBuildStep
<1>2. CASE RenamePage \/ RenameSkin
  <2>1. PICK f \in Files : Store(f, build.number)
    BY <1>2 DEF RenamePage, RenameSkin, Files
  <2>2. /\ build'.number = build.number
        /\ build'.pc \in {"skin", "truncate"} /\ build.pc # "fill"
        /\ build.number \in Bodies /\ build' \in Builds
    <3>1. build.pc \in {"page", "skin"}
          /\ build' \in {[build EXCEPT !.pc = "skin"], [build EXCEPT !.pc = "truncate"]}
      BY <1>2 DEF RenamePage, RenameSkin
    <3>2. build \in Builds
      BY DEF Inv, Typed
    <3> QED
      BY <3>1, <3>2 DEF Builds, Bodies
  <2> QED
    BY <2>1, <2>2, StoreStep
<1>3. CASE TruncatePage
  <2>1. Store("page", Torn) /\ "page" \in Files /\ Torn \in Bodies
    BY <1>3 DEF TruncatePage, Files, Bodies
  <2>2. build' \in Builds /\ build'.number = build.number /\ build'.pc = "fill"
    BY <1>3 DEF TruncatePage, Inv, Typed, Builds
  <2> QED
    BY <2>1, <2>2, StoreStep
<1>4. CASE FillPage \/ SkipInjection \/ PackOpen
  BY <1>4, FillPageStep, SkipInjectionStep, PackOpenStep
<1>5. ASSUME NEW f \in Files, NEW c \in {"br", "gzip"}, PackRead(f, c) \/ RemoveSibling(f, c)
      PROVE Inv'
  BY <1>5, PackReadStep, RemoveStep DEF Coding
<1>6. ASSUME NEW s \in Seconds, PackFill(s) PROVE Inv'
  BY <1>6, PackFillStep
<1>7. ASSUME NEW f \in Files, Remove(f) PROVE Inv'
  BY <1>7, RemoveStep DEF Coding
<1>8. ASSUME NEW a \in Accepts, AskPage(a) \/ AskSkin(a) PROVE Inv'
  BY <1>8, AskPageStep, AskSkinStep
<1>9. CASE RefuseMethod \/ Handle
  BY <1>9, RefuseStep, ResolveStep, NegotiateStep, StatSourceStep, StatSiblingStep,
     ReadSiblingStep, ReadFileStep DEF Handle
<1>10. CASE UNCHANGED serveVars
  BY <1>10 DEF serveVars, Inv, Typed, Held, World, Browser, NewEnough, Complete
<1> QED
  BY <1>1, <1>2, <1>3, <1>4, <1>5, <1>6, <1>7, <1>8, <1>9, <1>10 DEF ServeNext

(* A file that is there all through a request, and whose siblings nobody    *)
(* removes, is answered with it, at whatever step builds replace it.        *)
THEOREM PresentIsServedCorrect == ServeAssumption /\ ServeSpec => []PresentIsServed
<1> SUFFICES ASSUME ServeAssumption PROVE ServeSpec => []PresentIsServed
  OBVIOUS
<1>1. Inv /\ [ServeNext]_serveVars => Inv'
  BY NextInv
<1>2. Inv => PresentIsServed
  BY DEF Inv, Held, PresentIsServed
<1> QED
  BY <1>1, <1>2, InitInv, PTL DEF ServeSpec

(* While the compressor is used with care no answer holds an older build of *)
(* the file than the one there when the request arrived.                    *)
THEOREM FreshAnswerCorrect == ServeAssumption /\ ServeSpec => []FreshAnswer
<1> SUFFICES ASSUME ServeAssumption PROVE ServeSpec => []FreshAnswer
  OBVIOUS
<1>1. Inv /\ [ServeNext]_serveVars => Inv'
  BY NextInv
<1>2. Inv => FreshAnswer
  BY DEF Inv, Browser, FreshAnswer
<1> QED
  BY <1>1, <1>2, InitInv, PTL DEF ServeSpec

-----------------------------------------------------------------------------
(* A load: the page and the stylesheet it names.                            *)

(* Between the steps of a build each file is of that build or of the one    *)
(* before it; no sibling is newer than its file; and one that is not whole  *)
(* is being written.                                                        *)
OfBuild(f) ==
  CASE build.pc \in {"idle", "truncate"} -> disk[f].body = build.number
    [] build.pc = "page" -> disk[f].body + 1 = build.number
    [] build.pc = "skin" -> disk[f].body + (IF f = "page" THEN 0 ELSE 1) = build.number
    [] OTHER             -> f = "skin" => disk[f].body = build.number

NotNewer(f, c) ==
  sibling[<<f, c>>] # Absent =>
    IF sibling[<<f, c>>].body = Torn
    THEN packer.pc = "open" /\ packer.file = f /\ packer.coding = c
    ELSE /\ sibling[<<f, c>>].body <= build.number
         /\ disk[f].body # Torn => sibling[<<f, c>>].body <= disk[f].body

Settled ==
  /\ \A f \in Files : OfBuild(f)
  /\ \A f \in Files, c \in Coding : NotNewer(f, c)
  /\ ~req.lost

(* While nothing is written: both files are of the build the load began     *)
(* with, the comparison is of times that still hold, and what was answered  *)
(* is of that build.                                                        *)
Load ==
  /\ packer.pc # "open"
  /\ build.pc \in {"idle", "page"}
  /\ \A f \in Files : disk[f].body = seen.build
  /\ req.pc = "sibling_time" => req.src = disk[req.file].mtime
  /\ req.pc = "read_sibling" =>
       sibling[<<req.file, Head(req.rest)>>].mtime >= disk[req.file].mtime
  /\ \A f \in Files : got[f] # Absent /\ got[f].status = 200 => got[f].body = seen.build
  /\ got["skin"] # Absent => got["skin"].status = 200

(* The stylesheet is asked for after a page that was answered.              *)
PageFirst ==
  IF req.file = "page" THEN got["skin"] = Absent
  ELSE got["page"] # Absent /\ got["page"].status = 200

Quiet == careful /\ seen.quiet

LInv ==
  /\ seen \in [build : 0..MaxBuilds, quiet : BOOLEAN]
  /\ PageFirst
  /\ careful => Settled
  /\ Quiet => Load

(* A step of a build or of the compressor.                                  *)
LEMMA OutsideLoad ==
  ASSUME LInv, UNCHANGED <<req, got>>, careful' => careful /\ Settled',
         \/ UNCHANGED seen /\ (careful' /\ seen.quiet => Load')
         \/ seen' = [seen EXCEPT !.quiet = FALSE]
  PROVE  LInv'
<1>1. PageFirst'
  BY DEF LInv, PageFirst
<1>2. seen' \in [build : 0..MaxBuilds, quiet : BOOLEAN] /\ (seen'.quiet => UNCHANGED seen)
  BY DEF LInv
<1> QED
  BY <1>1, <1>2 DEF LInv, Quiet

LEMMA StoredFile ==
  ASSUME ServeAssumption, Inv, careful, NEW f \in Files
  PROVE  /\ disk[f] \in Stored /\ disk[f] # Absent
         /\ disk[f].body # Torn => disk[f].body \in Nat
         /\ disk[f].mtime \in Nat
         /\ build.number \in Nat /\ Torn \notin Nat
         /\ \A c \in Coding : sibling[<<f, c>>] # Absent =>
              /\ sibling[<<f, c>>].mtime \in Nat
              /\ sibling[<<f, c>>].body # Torn => sibling[<<f, c>>].body \in Nat
<1>1. disk[f] \in Stored /\ disk[f] # Absent
  BY DEF Inv, World, Typed
<1>2. \A c \in Coding : sibling[<<f, c>>] # Absent => sibling[<<f, c>>] \in Stored
  BY DEF Inv, Typed
<1> QED
  BY <1>1, <1>2, Numbers DEF Inv

LEMMA TickLoad == ASSUME LInv, Tick PROVE LInv'
<1>1. UNCHANGED <<disk, sibling, build, packer, packs, req, got, seen, careful>>
  BY DEF Tick
<1> QED
  BY <1>1, OutsideLoad DEF LInv, Quiet, Load, Settled, OfBuild, NotNewer

LEMMA StartBuildLoad == ASSUME ServeAssumption, Inv, LInv, StartBuild PROVE LInv'
<1>1. /\ build.pc = "idle" /\ build'.pc = "page" /\ build'.number = build.number + 1
      /\ UNCHANGED <<clock, disk, sibling, packer, packs, req, got, seen, careful>>
  BY DEF StartBuild
<1>2. ASSUME careful PROVE Settled'
  <2>1. Settled
    BY <1>2 DEF LInv
  <2>2. ASSUME NEW f \in Files PROVE OfBuild(f)'
    <3>1. disk[f].body = build.number
      BY <1>1, <2>1 DEF Settled, OfBuild
    <3> QED
      BY <1>1, <3>1 DEF OfBuild
  <2>3. ASSUME NEW f \in Files, NEW c \in Coding PROVE NotNewer(f, c)'
    <3>1. NotNewer(f, c)
      BY <2>1 DEF Settled
    <3> QED
      BY <1>1, <1>2, <3>1, StoredFile DEF NotNewer
  <2> QED
    BY <1>1, <2>1, <2>2, <2>3 DEF Settled
<1>3. Quiet => Load'
  BY <1>1 DEF LInv, Load
<1> QED
  BY <1>1, <1>2, <1>3, OutsideLoad DEF Quiet

(* A file is stored at its turn of the build.                               *)
LEMMA StoreLoad ==
  ASSUME ServeAssumption, Inv, LInv, RenamePage \/ RenameSkin \/ TruncatePage PROVE LInv'
<1>1. PICK f \in Files, body \in Bodies :
        /\ Store(f, body)
        /\ \/ f = "page" /\ body = build.number /\ build.pc = "page" /\ build'.pc = "skin"
           \/ f = "skin" /\ body = build.number /\ build.pc = "skin" /\ build'.pc = "truncate"
           \/ f = "page" /\ body = Torn /\ build.pc = "truncate" /\ build'.pc = "fill"
  <2>1. build \in Builds /\ "page" \in Files /\ "skin" \in Files
        /\ build.number \in Bodies /\ Torn \in Bodies
    BY DEF Inv, Typed, Files, Bodies, Builds
  <2>2. CASE RenamePage
    BY <2>1, <2>2 DEF RenamePage, Builds
  <2>3. CASE RenameSkin
    BY <2>1, <2>3 DEF RenameSkin, Builds
  <2>4. CASE TruncatePage
    BY <2>1, <2>4 DEF TruncatePage, Builds
  <2> QED
    BY <2>2, <2>3, <2>4
<1>2. build'.number = build.number
  BY DEF RenamePage, RenameSkin, TruncatePage, Inv, Typed, Builds
<1>3. /\ disk' = [disk EXCEPT ![f] = [body |-> body, mtime |-> clock]]
      /\ careful' => careful /\ packer.pc = "idle"
      /\ seen' = [seen EXCEPT !.quiet = FALSE]
      /\ UNCHANGED <<sibling, packer, req, got>>
  BY <1>1 DEF Store
<1>4. disk'[f].body = body /\ \A g \in Files \ {f} : disk'[g] = disk[g]
  BY <1>3 DEF Inv, Typed
<1>5. ASSUME careful' PROVE Settled'
  <2>1. Settled /\ careful /\ packer.pc = "idle"
    BY <1>3, <1>5 DEF LInv
  <2>2. OfBuild("page") /\ OfBuild("skin")
    BY <2>1 DEF Settled, Files
  <2>3. ASSUME NEW g \in Files PROVE OfBuild(g)'
    <3>1. g \in {"page", "skin"} /\ build.number \in Nat
      BY <2>1, StoredFile DEF Files
    <3>2. disk[g].body # Torn => disk[g].body \in Nat
      BY <2>1, StoredFile
    <3>3. CASE f = "page" /\ body = build.number /\ build.pc = "page" /\ build'.pc = "skin"
      BY <1>2, <1>4, <2>2, <3>1, <3>3 DEF OfBuild, Files
    <3>4. CASE f = "skin" /\ body = build.number /\ build.pc = "skin" /\ build'.pc = "truncate"
      <4>1. disk["page"].body + 0 = build.number
        BY <2>2, <3>4 DEF OfBuild
      <4>2. disk["page"].body # Torn
        BY <2>1, <3>4 DEF Inv, World, Files
      <4>3. disk["page"].body \in Nat
        BY <2>1, <4>2, StoredFile DEF Files
      <4>4. disk["page"].body = build.number
        BY <4>1, <4>3, <3>1
      <4> QED
        BY <1>2, <1>4, <3>1, <3>4, <4>4 DEF OfBuild, Files
    <3>5. CASE f = "page" /\ body = Torn /\ build.pc = "truncate" /\ build'.pc = "fill"
      BY <1>2, <1>4, <2>2, <3>1, <3>5 DEF OfBuild, Files
    <3> QED
      BY <1>1, <3>3, <3>4, <3>5
  <2>4. ASSUME NEW g \in Files, NEW c \in Coding PROVE NotNewer(g, c)'
    <3>1. NotNewer(g, c)
      BY <2>1 DEF Settled
    <3> QED
      BY <1>1, <1>2, <1>3, <1>4, <2>1, <3>1, StoredFile DEF NotNewer
  <2> QED
    BY <1>3, <2>1, <2>3, <2>4 DEF Settled
<1> QED
  BY <1>3, <1>5, OutsideLoad

LEMMA FillPageLoad == ASSUME ServeAssumption, Inv, LInv, FillPage PROVE LInv'
<1>1. /\ build.pc = "fill" /\ build'.pc = "idle" /\ build'.number = build.number
      /\ seen' = [seen EXCEPT !.quiet = FALSE]
      /\ UNCHANGED <<clock, sibling, packer, packs, req, got, careful>>
  BY DEF FillPage, Inv, Typed, Builds
<1>2. ASSUME careful PROVE Settled'
  <2>1. Settled /\ "page" \in Files /\ "skin" \in Files /\ Files = {"page", "skin"}
    BY <1>2 DEF LInv, Files
  <2>2. disk["page"] # Absent
    BY <1>2, <2>1, StoredFile
  <2>3. disk'["page"].body = build.number /\ disk'["skin"] = disk["skin"]
    BY <2>1, <2>2 DEF FillPage, Inv, Typed
  <2>4. disk["skin"].body = build.number
    BY <1>1, <2>1 DEF Settled, OfBuild
  <2>5. ASSUME NEW f \in Files PROVE OfBuild(f)'
    BY <1>1, <2>1, <2>3, <2>4 DEF OfBuild
  <2>6. ASSUME NEW f \in Files, NEW c \in Coding PROVE NotNewer(f, c)'
    <3>1. NotNewer(f, c)
      BY <2>1 DEF Settled
    <3> QED
      BY <1>1, <2>1, <2>3, <2>4, <3>1 DEF NotNewer
  <2> QED
    BY <1>1, <2>1, <2>5, <2>6 DEF Settled
<1> QED
  BY <1>1, <1>2, OutsideLoad

LEMMA SkipInjectionLoad == ASSUME ServeAssumption, Inv, LInv, SkipInjection PROVE LInv'
<1>1. /\ build.pc = "truncate" /\ build'.pc = "idle" /\ build'.number = build.number
      /\ UNCHANGED <<clock, disk, sibling, packer, packs, req, got, seen, careful>>
  BY DEF SkipInjection, Inv, Typed, Builds
<1>2. ~Quiet
  BY <1>1 DEF LInv, Load
<1>3. careful => Settled'
  BY <1>1 DEF LInv, Settled, OfBuild, NotNewer
<1> QED
  BY <1>1, <1>2, <1>3, OutsideLoad DEF Quiet

LEMMA PackReadLoad ==
  ASSUME ServeAssumption, Inv, LInv, NEW f \in Files, NEW c \in Coding, PackRead(f, c)
  PROVE  LInv'
<1>1. /\ packer.pc = "idle" /\ packer'.pc = "read"
      /\ careful' => careful
      /\ UNCHANGED <<disk, sibling, build, req, got, seen>>
  BY DEF PackRead
<1>2. ASSUME careful PROVE Settled'
  BY <1>1, <1>2 DEF LInv, Settled, OfBuild, NotNewer
<1>3. Quiet => Load'
  BY <1>1 DEF LInv, Load
<1> QED
  BY <1>1, <1>2, <1>3, OutsideLoad DEF Quiet

(* The compressor starts and completes a sibling of what it has read.       *)
LEMMA PackLoad ==
  ASSUME ServeAssumption, Inv, LInv, PackOpen \/ \E stamp \in Seconds : PackFill(stamp)
  PROVE  LInv'
<1>1. packer.file \in Files /\ packer.coding \in Coding
      /\ sibling \in [Files \X Coding -> Stored \union {Absent}]
  BY DEF Inv, Typed
<1>2. CASE PackOpen
  <2>1. /\ packer.pc = "read" /\ packer'.pc = "open"
        /\ packer'.file = packer.file /\ packer'.coding = packer.coding
        /\ seen' = [seen EXCEPT !.quiet = FALSE]
        /\ sibling' = [sibling EXCEPT ![<<packer.file, packer.coding>>] =
                        [body |-> Torn, mtime |-> clock]]
        /\ UNCHANGED <<disk, build, req, got, careful>>
    BY <1>2 DEF PackOpen, Inv, Typed
  <2>2. ASSUME careful, NEW f \in Files, NEW c \in Coding PROVE NotNewer(f, c)'
    <3>1. NotNewer(f, c)
      BY <2>2 DEF LInv, Settled
    <3>2. CASE f = packer.file /\ c = packer.coding
      <4>1. sibling'[<<f, c>>].body = Torn
        BY <1>1, <2>1, <3>2
      <4> QED
        BY <2>1, <3>2, <4>1 DEF NotNewer
    <3>3. CASE ~(f = packer.file /\ c = packer.coding)
      <4>1. sibling'[<<f, c>>] = sibling[<<f, c>>]
        BY <1>1, <2>1, <3>3
      <4> QED
        BY <2>1, <3>1, <4>1 DEF NotNewer
    <3> QED
      BY <3>2, <3>3
  <2>3. careful => Settled'
    BY <2>1, <2>2 DEF LInv, Settled, OfBuild
  <2> QED
    BY <2>1, <2>3, OutsideLoad
<1>3. ASSUME NEW stamp \in Seconds, PackFill(stamp) PROVE LInv'
  <2>1. /\ packer.pc = "open"
        /\ sibling' = [sibling EXCEPT ![<<packer.file, packer.coding>>] =
                        [body |-> packer.source.body, mtime |-> stamp]]
        /\ UNCHANGED <<disk, build, req, got, seen, careful>>
    BY <1>3 DEF PackFill
  <2>2. ASSUME careful, NEW f \in Files, NEW c \in Coding PROVE NotNewer(f, c)'
    <3>1. NotNewer(f, c)
      BY <2>2 DEF LInv, Settled
    <3>2. CASE f = packer.file /\ c = packer.coding
      <4>1. sibling'[<<f, c>>].body = disk[f].body
        BY <1>1, <2>1, <2>2, <3>2 DEF Inv, World
      <4>2. disk[f].body # Torn /\ disk[f].body <= build.number
        BY <2>1, <2>2 DEF Inv, World
      <4>3. disk[f].body \in Nat
        BY <2>2, <4>2, StoredFile
      <4> QED
        BY <2>1, <4>1, <4>2, <4>3 DEF NotNewer
    <3>3. CASE ~(f = packer.file /\ c = packer.coding)
      <4>1. sibling'[<<f, c>>] = sibling[<<f, c>>]
        BY <1>1, <2>1, <3>3
      <4> QED
        BY <2>1, <3>1, <3>3, <4>1 DEF NotNewer
    <3> QED
      BY <3>2, <3>3
  <2>3. careful => Settled'
    BY <2>1, <2>2 DEF LInv, Settled, OfBuild
  <2>4. ~Quiet
    BY <2>1 DEF LInv, Load
  <2> QED
    BY <2>1, <2>3, <2>4, OutsideLoad DEF Quiet
<1> QED
  BY <1>2, <1>3

(* A removal ends the operator's care.                                      *)
LEMMA RemoveLoad ==
  ASSUME Inv, LInv, NEW f \in Files, NEW c \in Coding, Remove(f) \/ RemoveSibling(f, c)
  PROVE  LInv'
<1>1. req' = Lost(f) /\ careful' = FALSE /\ UNCHANGED <<got, seen>>
  BY DEF Remove, RemoveSibling
<1>2. req'.file = req.file
  BY <1>1 DEF Lost, Inv, Typed, Requests
<1> QED
  BY <1>1, <1>2 DEF LInv, PageFirst, Quiet

(* The browser and the server only read.                                    *)
LEMMA ReadingLoad ==
  ASSUME LInv, UNCHANGED <<disk, sibling, build, packer, careful>>,
         seen' \in [build : 0..MaxBuilds, quiet : BOOLEAN],
         PageFirst', careful => ~req'.lost, careful' /\ seen'.quiet => Load'
  PROVE  LInv'
BY DEF LInv, Settled, OfBuild, NotNewer, Quiet

LEMMA AskPageLoad ==
  ASSUME ServeAssumption, Inv, LInv, NEW accept \in Accepts, AskPage(accept) PROVE LInv'
<1>1. /\ req' = Asked("page", accept) /\ "page" \in Files /\ "skin" \in Files
      /\ got' = [f \in Files |-> Absent]
      /\ seen' = [build |-> build.number, quiet |-> build.pc = "idle" /\ packer.pc # "open"]
      /\ UNCHANGED <<clock, disk, sibling, build, packer, packs, careful>>
  BY DEF AskPage, Files
<1>2. req'.file = "page" /\ req'.pc = "resolve" /\ req'.lost = (disk["page"] = Absent)
  BY <1>1 DEF Asked
<1>3. \A f \in Files : got'[f] = Absent
  BY <1>1
<1>4. seen' \in [build : 0..MaxBuilds, quiet : BOOLEAN]
  BY <1>1 DEF Inv, Typed, Builds
<1>5. PageFirst'
  BY <1>1, <1>2, <1>3 DEF PageFirst
<1>6. careful => ~req'.lost
  BY <1>1, <1>2, StoredFile
<1>7. ASSUME careful', seen'.quiet PROVE Load'
  <2>1. build.pc = "idle" /\ packer.pc # "open" /\ seen'.build = build.number
    BY <1>1, <1>7
  <2>2. \A f \in Files : disk[f].body = build.number
    BY <1>1, <1>7, <2>1 DEF LInv, Settled, OfBuild
  <2> QED
    BY <1>1, <1>2, <1>3, <2>1, <2>2 DEF Load
<1> QED
  BY <1>1, <1>4, <1>5, <1>6, <1>7, ReadingLoad

LEMMA AskSkinLoad ==
  ASSUME ServeAssumption, Inv, LInv, NEW accept \in Accepts, AskSkin(accept) PROVE LInv'
<1>1. /\ req' = Asked("skin", accept) /\ "skin" \in Files
      /\ got["page"] # Absent /\ got["page"].status = 200
      /\ UNCHANGED <<disk, sibling, build, packer, careful, seen, got>>
  BY DEF AskSkin, Untouched, Files
<1>2. req'.file = "skin" /\ req'.pc = "resolve" /\ req'.lost = (disk["skin"] = Absent)
  BY <1>1 DEF Asked
<1>3. careful => ~req'.lost
  BY <1>1, <1>2, StoredFile
<1>4. PageFirst'
  BY <1>1, <1>2 DEF PageFirst
<1>5. careful /\ seen.quiet => Load'
  BY <1>1, <1>2 DEF LInv, Quiet, Load
<1> QED
  BY <1>1, <1>3, <1>4, <1>5, ReadingLoad DEF LInv

(* The request goes on without an answer.                                   *)
LEMMA OnwardLoad ==
  ASSUME LInv, Untouched, UNCHANGED got, req'.file = req.file, req'.lost = req.lost,
         Quiet /\ Load => (/\ req'.pc = "sibling_time" => req'.src = disk[req.file].mtime
                           /\ req'.pc = "read_sibling" =>
                                sibling[<<req.file, Head(req'.rest)>>].mtime >= disk[req.file].mtime)
  PROVE  LInv'
<1>1. UNCHANGED <<disk, sibling, build, packer, careful, seen>>
  BY DEF Untouched
<1>2. PageFirst'
  BY DEF LInv, PageFirst
<1>3. careful => ~req'.lost
  BY DEF LInv, Settled
<1>4. careful /\ seen.quiet => Load'
  BY <1>1 DEF LInv, Quiet, Load
<1> QED
  BY <1>1, <1>2, <1>3, <1>4, ReadingLoad DEF LInv

(* The request is answered.                                                 *)
LEMMA AnswerLoad ==
  ASSUME ServeAssumption, Inv, LInv, Untouched, NEW status \in {200, 404, 405, 500},
         NEW body \in Bodies \union {Absent}, NEW from \in BOOLEAN, Reply(status, body, from),
         Quiet /\ Load /\ status = 200 => body = seen.build,
         Quiet /\ Load /\ status # 200 => req.file = "page"
  PROVE  LInv'
<1>1. UNCHANGED <<disk, sibling, build, packer, careful, seen>>
  BY DEF Untouched
<1>2. /\ req'.pc = "idle" /\ req'.file = req.file /\ req'.lost = req.lost
      /\ got'[req.file].status = status /\ got'[req.file].body = body
  BY Replied DEF Inv
<1>3. req.file \in {"page", "skin"} /\ Files = {"page", "skin"}
  BY DEF Inv, Typed, Requests, Files
<1>4. \A f \in Files : f # req.file => got'[f] = got[f]
  BY DEF Reply, Inv, Typed
<1>5. PageFirst'
  BY <1>2, <1>3, <1>4 DEF LInv, PageFirst
<1>6. careful => ~req'.lost
  BY <1>2 DEF LInv, Settled
<1>7. ASSUME careful, seen.quiet PROVE Load'
  <2>1. Load /\ Quiet
    BY <1>7 DEF LInv, Quiet
  <2>2. \A f \in Files : got'[f] # Absent /\ got'[f].status = 200 => got'[f].body = seen.build
    BY <1>2, <1>4, <2>1 DEF Load
  <2>3. got'["skin"] # Absent => got'["skin"].status = 200
    BY <1>2, <1>3, <1>4, <2>1 DEF Load
  <2> QED
    BY <1>1, <1>2, <2>1, <2>2, <2>3 DEF Load
<1> QED
  BY <1>1, <1>5, <1>6, <1>7, ReadingLoad DEF LInv

(* An answer without a body that is not a success: only the page may get it *)
(* after a quiet build.                                                     *)
LEMMA BareLoad ==
  ASSUME ServeAssumption, Inv, LInv, Untouched, NEW status \in {200, 404, 405, 500},
         status # 200, Reply(status, Absent, FALSE), Quiet /\ Load => req.file = "page"
  PROVE  LInv'
<1>1. PICK body : body = Absent /\ body \in Bodies \union {Absent}
  OBVIOUS
<1>2. PICK from \in BOOLEAN : from = FALSE
  OBVIOUS
<1>3. Reply(status, body, from)
  BY <1>1, <1>2
<1>4. /\ Quiet /\ Load /\ status = 200 => body = seen.build
      /\ Quiet /\ Load /\ status # 200 => req.file = "page"
  OBVIOUS
<1> QED
  BY <1>1, <1>2, <1>3, <1>4, AnswerLoad

LEMMA ReadBodyLoad ==
  ASSUME ServeAssumption, Inv, LInv, Untouched, NEW stored \in Stored \union {Absent},
         NEW from \in BOOLEAN, ReadBody(stored, from),
         Quiet /\ Load => stored # Absent /\ stored.body = seen.build
  PROVE  LInv'
<1>1. CASE stored = Absent
  <2>1. Reply(500, Absent, FALSE)
    BY <1>1 DEF ReadBody
  <2>2. 500 \in {200, 404, 405, 500} /\ 500 # 200
    OBVIOUS
  <2>3. Quiet /\ Load => req.file = "page"
    BY <1>1
  <2> QED
    BY <2>1, <2>2, <2>3, BareLoad
<1>2. CASE stored # Absent
  <2>1. Reply(200, stored.body, from) /\ stored.body \in Bodies
    BY <1>2 DEF ReadBody, Stored, Bodies
  <2>2. stored.body \in Bodies \union {Absent} /\ 200 \in {200, 404, 405, 500}
    BY <2>1
  <2>3. /\ Quiet /\ Load /\ 200 = 200 => stored.body = seen.build
        /\ Quiet /\ Load /\ 200 # 200 => req.file = "page"
    OBVIOUS
  <2> QED
    BY <2>1, <2>2, <2>3, AnswerLoad
<1> QED
  BY <1>1, <1>2

LEMMA HandleLoad == ASSUME ServeAssumption, Inv, LInv, Handle PROVE LInv'
<1>0. /\ req \in Requests /\ req.file \in Files /\ 0 \in 0..MaxClock
      /\ req.pc \in Looking => req.rest # <<>> /\ Head(req.rest) \in Coding
      /\ disk[req.file] \in Stored \union {Absent}
  BY TailLeft, Numbers DEF Inv, Typed, Requests
<1>1. CASE Resolve
  <2>0. Untouched
    BY <1>1 DEF Resolve
  <2>1. CASE disk[req.file] = Absent /\ Reply(404, Absent, FALSE)
    <3>1. ~Quiet
      BY <1>0, <2>1, StoredFile DEF Quiet
    <3>2. 404 \in {200, 404, 405, 500} /\ 404 # 200
      OBVIOUS
    <3>3. Quiet /\ Load => req.file = "page"
      BY <3>1
    <3> QED
      BY <2>0, <2>1, <3>2, <3>3, BareLoad
  <2>2. CASE req' = [req EXCEPT !.pc = "negotiate"] /\ UNCHANGED got
    <3>1. req'.pc = "negotiate" /\ req'.file = req.file /\ req'.lost = req.lost
      BY <1>0, <2>2, GoesOn
    <3> QED
      BY <2>0, <2>2, <3>1, OnwardLoad
  <2> QED
    BY <1>1, <2>1, <2>2 DEF Resolve
<1>2. CASE Negotiate
  <2>1. req'.pc \in {"read", "negotiate", "source_time"} /\ req'.file = req.file /\ req'.lost = req.lost
    <3>1. CASE req.rest = <<>>
      BY <1>0, <1>2, <3>1, GoesOn DEF Negotiate
    <3>2. CASE req.rest # <<>> /\ sibling[<<req.file, Head(req.rest)>>] = Absent
      BY <1>0, <1>2, <3>2, Onward DEF Negotiate
    <3>3. CASE req.rest # <<>> /\ sibling[<<req.file, Head(req.rest)>>] # Absent
      <4>1. req' = [req EXCEPT !.pc = "source_time"]
        BY <1>2, <3>3 DEF Negotiate
      <4> QED
        BY <1>0, <4>1 DEF Requests
    <3> QED
      BY <3>1, <3>2, <3>3
  <2> QED
    BY <1>2, <2>1, OnwardLoad DEF Negotiate
<1>3. CASE StatSource
  <2>1. PICK t : t = Mtime(disk[req.file])
    OBVIOUS
  <2>2. req' = [req EXCEPT !.pc = "sibling_time", !.src = t]
    BY <1>3, <2>1 DEF StatSource
  <2>3. /\ req'.pc = "sibling_time" /\ req'.src = t
        /\ req'.file = req.file /\ req'.lost = req.lost
    BY <1>0, <2>2 DEF Requests
  <2>4. Quiet => t = disk[req.file].mtime
    BY <1>0, <2>1, StoredFile DEF Mtime, Quiet
  <2> QED
    BY <1>3, <2>3, <2>4, OnwardLoad DEF StatSource
<1>4. CASE StatSibling
  <2>0. req.pc = "sibling_time" /\ Untouched /\ UNCHANGED got /\ req.rest # <<>>
    BY <1>0, <1>4 DEF StatSibling, Looking
  <2>1. CASE req' = NextCoding
    BY <1>0, <2>0, <2>1, Onward, OnwardLoad
  <2>2. CASE /\ ~IsStale(Mtime(sibling[<<req.file, Head(req.rest)>>]))
             /\ req' = [req EXCEPT !.pc = "read_sibling"]
    <3>1. /\ req'.pc = "read_sibling" /\ req'.file = req.file /\ req'.lost = req.lost
          /\ req'.rest = req.rest
      BY <1>0, <2>2 DEF Requests
    <3>2. ASSUME Quiet, Load
          PROVE  sibling[<<req.file, Head(req.rest)>>].mtime >= disk[req.file].mtime
      <4>1. PICK s : s = sibling[<<req.file, Head(req.rest)>>]
        OBVIOUS
      <4>2. s # Absent
        BY <1>0, <2>0, <3>2, <4>1 DEF LInv, Quiet, Settled, Inv, Held, Looking
      <4>3. s.mtime \in Nat /\ disk[req.file].mtime \in Nat
        BY <1>0, <2>0, <3>2, <4>1, <4>2, StoredFile DEF Quiet, Looking
      <4>4. ~(s.mtime < disk[req.file].mtime)
        BY <2>0, <2>2, <3>2, <4>1, <4>2 DEF IsStale, Mtime, Load
      <4> QED
        BY <4>1, <4>3, <4>4
    <3> QED
      BY <2>0, <3>1, <3>2, OnwardLoad
  <2> QED
    BY <1>4, <2>1, <2>2 DEF StatSibling
<1>5. CASE ReadSibling
  <2>0. req.pc = "read_sibling" /\ Untouched /\ req.rest # <<>> /\ Head(req.rest) \in Coding
    BY <1>0, <1>5 DEF ReadSibling, Looking
  <2>1. PICK s : s = sibling[<<req.file, Head(req.rest)>>]
    OBVIOUS
  <2>2. s \in Stored \union {Absent}
    BY <1>0, <2>0, <2>1 DEF Inv, Typed
  <2>3. ASSUME Quiet, Load PROVE s # Absent /\ s.body = seen.build
    <3>1. s # Absent
      BY <2>0, <2>1, <2>3 DEF LInv, Quiet, Settled, Inv, Held, Looking
    <3>2. careful /\ Settled /\ World /\ NotNewer(req.file, Head(req.rest))
      BY <1>0, <2>0, <2>3 DEF LInv, Quiet, Settled, Inv
    <3>3. s.body # Torn /\ disk[req.file].body # Torn
      <4>1. s.body # Torn
        BY <2>1, <2>3, <3>1, <3>2 DEF NotNewer, Load
      <4>2. disk[req.file].body # Torn
        BY <1>0, <2>3, <3>2 DEF World, Load
      <4> QED
        BY <4>1, <4>2
    <3>4. s.body <= disk[req.file].body
      BY <2>1, <3>1, <3>2, <3>3 DEF NotNewer
    <3>5. s.mtime >= disk[req.file].mtime
      BY <2>0, <2>1, <2>3 DEF Load
    <3>6. s.body >= disk[req.file].body
      BY <1>0, <2>0, <2>1, <3>1, <3>2, <3>3, <3>5 DEF World, Complete
    <3>7. s.body \in Nat /\ disk[req.file].body \in Nat
      BY <1>0, <2>0, <2>1, <3>1, <3>2, <3>3, StoredFile
    <3> QED
      BY <1>0, <2>3, <3>1, <3>4, <3>6, <3>7 DEF Load
  <2> QED
    BY <1>5, <2>0, <2>1, <2>2, <2>3, ReadBodyLoad DEF ReadSibling
<1>6. CASE ReadFile
  <2>1. Quiet /\ Load => disk[req.file] # Absent /\ disk[req.file].body = seen.build
    BY <1>0, StoredFile DEF Quiet, Load
  <2> QED
    BY <1>0, <1>6, <2>1, ReadBodyLoad DEF ReadFile
<1> QED
  BY <1>1, <1>2, <1>3, <1>4, <1>5, <1>6 DEF Handle

LEMMA RefuseLoad == ASSUME ServeAssumption, Inv, LInv, RefuseMethod PROVE LInv'
<1>1. Reply(405, Absent, FALSE) /\ Untouched /\ req.file = "page"
  BY DEF RefuseMethod, LInv, PageFirst
<1> QED
  BY <1>1, BareLoad

LEMMA NextLoad == ASSUME ServeAssumption, Inv, LInv, [ServeNext]_serveVars PROVE LInv'
<1>1. CASE UNCHANGED serveVars
  BY <1>1 DEF serveVars, LInv, Quiet, PageFirst, Load, Settled, OfBuild, NotNewer
<1>2. ASSUME NEW f \in Files, NEW c \in {"br", "gzip"}, PackRead(f, c) \/ RemoveSibling(f, c)
      PROVE  LInv'
  BY <1>2, PackReadLoad, RemoveLoad DEF Coding
<1>3. ASSUME NEW f \in Files, Remove(f) PROVE LInv'
  BY <1>3, RemoveLoad DEF Coding
<1>4. ASSUME NEW accept \in Accepts, AskPage(accept) \/ AskSkin(accept) PROVE LInv'
  BY <1>4, AskPageLoad, AskSkinLoad
<1> QED
  BY <1>1, <1>2, <1>3, <1>4, TickLoad, StartBuildLoad, StoreLoad, FillPageLoad,
     SkipInjectionLoad, PackLoad, RefuseLoad, HandleLoad DEF ServeNext

LEMMA InitLoad == ServeAssumption /\ ServeInit => LInv
<1> SUFFICES ASSUME ServeAssumption, ServeInit PROVE LInv
  OBVIOUS
<1>1. /\ build.pc = "idle" /\ build.number = 0 /\ packer.pc = "idle"
      /\ req.pc = "idle" /\ req.file = "page" /\ ~req.lost
      /\ seen = [build |-> 0, quiet |-> TRUE]
      /\ \A f \in Files : disk[f].body = 0 /\ got[f] = Absent
  BY DEF ServeInit, NotPacking, NoRequest
<1>2. \A f \in Files, c \in Coding : sibling[<<f, c>>] # Absent => sibling[<<f, c>>].body = 0
  BY DEF ServeInit, Coding
<1>3. 0 \in 0..MaxBuilds /\ Torn # 0
  BY DEF ServeAssumption
<1>4. "skin" \in Files
  BY DEF Files
<1> QED
  BY <1>1, <1>2, <1>3, <1>4 DEF LInv, Quiet, PageFirst, Load, Settled, OfBuild, NotNewer

(* In a load during which no file is written, whatever is compared and from *)
(* whichever sibling it is read, the browser gets the stylesheet its page   *)
(* names and not one of an earlier build.                                   *)
THEOREM LoadMatchesCorrect == ServeAssumption /\ ServeSpec => []LoadMatches
<1> SUFFICES ASSUME ServeAssumption PROVE ServeSpec => []LoadMatches
  OBVIOUS
<1>1. Inv /\ LInv /\ [ServeNext]_serveVars => (Inv /\ LInv)'
  BY NextInv, NextLoad
<1>2. Inv /\ LInv => LoadMatches
  <2> SUFFICES ASSUME Inv, LInv, careful, seen.quiet, got["skin"] # Absent
               PROVE  got["page"].body = seen.build /\ got["skin"].body = seen.build
    BY DEF LoadMatches
  <2>1. Load /\ "page" \in Files /\ "skin" \in Files
    BY DEF LInv, Quiet, Files
  <2>2. got["page"] # Absent /\ got["page"].status = 200
    BY DEF LInv, PageFirst
  <2> QED
    BY <2>1, <2>2 DEF Load
<1> QED
  BY <1>1, <1>2, InitInv, InitLoad, PTL DEF ServeSpec
=============================================================================
