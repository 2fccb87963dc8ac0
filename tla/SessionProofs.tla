--------------------------- MODULE SessionProofs ----------------------------
(***************************************************************************)
(* Proofs about what a session keeps: its progress log, which is the log   *)
(* the tasks, lessons and gaps are kept in as well, and its context cache. *)
(***************************************************************************)
EXTENDS EventLog, ContextCache, TLAPS

-----------------------------------------------------------------------------
(***************************************************************************)
(* Proofs about the event logs, for any number of servers, items and       *)
(* events.  The inductive invariant adds to TypeOK that the log's numbers  *)
(* are events, that what was acknowledged or is about to be is in the log, *)
(* and that an event's id is above the id of every event acknowledged      *)
(* before its call began.                                                  *)
(***************************************************************************)

LogEvents == {log[i] : i \in Positions}

Numbered == \A i \in Positions : log[i] \in DOMAIN event

AckedInLog ==
  /\ acked \subseteq LogEvents
  /\ \A s \in Servers : server[s].pc = "written" => server[s].event \in LogEvents

(* What a call remembers was acknowledged.                                  *)
BeforeAcked ==
  /\ \A s \in Servers : server[s].before \subseteq acked
  /\ \A e \in DOMAIN event : event[e].before \subseteq acked

IdsGrow == \A e \in DOMAIN event : \A a \in event[e].before : event[a].id < event[e].id

IInv == TypeOK /\ Numbered /\ AckedInLog /\ BeforeAcked /\ IdsGrow

-----------------------------------------------------------------------------
(* Appending a piece keeps the lines before it.                             *)
LEMMA AppendKeeps ==
  ASSUME log \in Seq(Pieces), NEW piece \in Pieces, log' = Append(log, piece)
  PROVE  /\ log' \in Seq(Pieces)
         /\ Positions \subseteq Positions'
         /\ \A i \in Positions : log'[i] = log[i]
         /\ \A i \in Positions' : i \in Positions \/ (i = Len(log) + 1 /\ log'[i] = piece)
         /\ piece \in Nat => (Len(log) + 1) \in Positions' /\ log'[Len(log) + 1] = piece
BY DEF Positions

LEMMA PiecesAreTyped == Nat \subseteq Pieces /\ Newline \in Pieces /\ Torn \in Pieces
BY DEF Pieces

LEMMA MarksAreNoEvents == Newline \notin Nat /\ Torn \notin Nat
BY PiecesAssumption

-----------------------------------------------------------------------------
LEMMA InitEstablishes == Init => IInv
<1> SUFFICES ASSUME Init PROVE IInv
  OBVIOUS
<1>1. server \in [Servers -> [pc: {"idle"}, item: Items, before: {{}}, event: {0}]]
  BY DEF Init
<1>2. \A s \in Servers : server[s].pc = "idle" /\ server[s].item \in Items /\ server[s].before = {}
  BY <1>1
<1>3. log = << >> /\ event = << >> /\ acked = {} /\ DOMAIN event = {} /\ Positions = {}
  BY DEF Init, Positions
<1>4. TypeOK
  <2>1. server \in [Servers -> Call]
    BY <1>1 DEF Call
  <2>2. log \in Seq(Pieces) /\ event \in Seq(Event)
    BY <1>3
  <2> QED
    BY <1>2, <1>3, <2>1, <2>2 DEF TypeOK
<1>5. Numbered /\ AckedInLog /\ BeforeAcked /\ IdsGrow
  BY <1>2, <1>3 DEF Numbered, AckedInLog, BeforeAcked, IdsGrow
<1> QED
  BY <1>4, <1>5 DEF IInv

(* A step that leaves the log and the events alone and moves one server.    *)
LEMMA ServerStep ==
  ASSUME IInv, UNCHANGED <<log, event, acked>>, server' \in [Servers -> Call],
         \A s \in Servers :
           \/ server'[s] = server[s]
           \/ /\ server'[s].pc \in {"idle", "started"}
              /\ server'[s].before \subseteq acked
  PROVE  IInv'
<1>1. Positions' = Positions /\ LogEvents' = LogEvents
  BY DEF Positions, LogEvents
<1>2. TypeOK'
  <2>1. \A s \in Servers :
          server'[s].pc \in {"composed", "written"} => server'[s].event \in DOMAIN event
    BY DEF IInv, TypeOK
  <2> QED
    BY <2>1 DEF IInv, TypeOK
<1>3. Numbered' /\ IdsGrow'
  BY <1>1 DEF IInv, Numbered, IdsGrow
<1>4. AckedInLog'
  BY <1>1 DEF IInv, AckedInLog
<1>5. BeforeAcked'
  BY DEF IInv, BeforeAcked
<1> QED
  BY <1>2, <1>3, <1>4, <1>5 DEF IInv

(* Step changes one program counter and nothing else of a call.             *)
LEMMA StepIs ==
  ASSUME server \in [Servers -> Call], NEW s \in Servers,
         NEW pc \in {"idle", "started", "composed", "written"}, Step(s, pc)
  PROVE  /\ server' \in [Servers -> Call]
         /\ \A t \in Servers : t # s => server'[t] = server[t]
         /\ server'[s].pc = pc /\ server'[s].item = server[s].item
         /\ server'[s].before = server[s].before /\ server'[s].event = server[s].event
BY DEF Step, Call

LEMMA BeginPreserves ==
  ASSUME IInv, NEW s \in Servers, NEW item \in Items, Begin(s, item)
  PROVE  IInv'
<1> DEFINE call == [pc |-> "started", item |-> item, before |-> acked, event |-> 0]
<1>1. server' = [server EXCEPT ![s] = call]
  BY DEF Begin
<1>2. acked \in SUBSET Nat
  BY DEF IInv, TypeOK
<1>3. call \in Call
  BY <1>2 DEF Call
<1>4. server' \in [Servers -> Call] /\ \A t \in Servers : t # s => server'[t] = server[t]
  BY <1>1, <1>3 DEF IInv, TypeOK
<1>5. server'[s] = call
  BY <1>1 DEF IInv, TypeOK
<1> QED
  BY <1>4, <1>5, ServerStep DEF Begin

LEMMA ToIdlePreserves ==
  ASSUME IInv, NEW s \in Servers, Step(s, "idle"), UNCHANGED <<log, event, acked>>
  PROVE  IInv'
<1>1. server \in [Servers -> Call]
  BY DEF IInv, TypeOK
<1>2. server[s].before \subseteq acked
  BY DEF IInv, BeforeAcked
<1> QED
  BY <1>1, <1>2, StepIs, ServerStep

-----------------------------------------------------------------------------
(* The event composed has an id above all that are in the log, hence above  *)
(* all that were acknowledged when its call began.                          *)
LEMMA ComposePreserves ==
  ASSUME IInv, NEW s \in Servers, Compose(s)
  PROVE  IInv'
<1> DEFINE new == Len(event) + 1
<1>1. PICK n \in 0..MaxEvents :
        /\ NextId(n)
        /\ event' = Append(event, [id |-> n, item |-> server[s].item,
                                   before |-> server[s].before])
  BY DEF Compose
<1>2. UNCHANGED <<log, acked>> /\ server[s].pc = "started"
  BY DEF Compose
<1>3. server \in [Servers -> Call] /\ event \in Seq(Event) /\ Len(event) \in Nat
  BY DEF IInv, TypeOK
<1>4. n \in Nat
  BY EventLogAssumption
<1>5. [id |-> n, item |-> server[s].item, before |-> server[s].before] \in Event
  BY <1>3, <1>4 DEF Call, Event
<1>6. /\ event' \in Seq(Event) /\ DOMAIN event' = DOMAIN event \union {new}
      /\ \A e \in DOMAIN event : event'[e] = event[e]
      /\ event'[new] = [id |-> n, item |-> server[s].item, before |-> server[s].before]
      /\ new \notin DOMAIN event
  BY <1>1, <1>3, <1>5
<1> DEFINE call == [pc |-> "composed", item |-> server[s].item,
                    before |-> server[s].before, event |-> new]
<1>7. server' = [server EXCEPT ![s] = call]
  BY DEF Compose
<1>8. /\ server' \in [Servers -> Call]
      /\ \A t \in Servers : t # s => server'[t] = server[t]
      /\ server'[s].pc = "composed" /\ server'[s].event = new
      /\ server'[s].before = server[s].before
  <2>2. call \in Call
    BY <1>3 DEF Call
  <2> HIDE DEF call
  <2>3. server' \in [Servers -> Call] /\ server'[s] = call
        /\ \A t \in Servers : t # s => server'[t] = server[t]
    BY <1>3, <1>7, <2>2
  <2> QED
    BY <2>3 DEF call
<1>9. Positions' = Positions /\ LogEvents' = LogEvents
  BY <1>2 DEF Positions, LogEvents
<1>10. \A a \in server[s].before : a \in DOMAIN event /\ event[a].id < n
  <2> SUFFICES ASSUME NEW a \in server[s].before
               PROVE  a \in DOMAIN event /\ event[a].id < n
    OBVIOUS
  <2>1. a \in acked
    BY DEF IInv, BeforeAcked
  <2>2. PICK i \in Positions : log[i] = a
    BY <2>1 DEF IInv, AckedInLog, LogEvents
  <2> QED
    BY <1>1, <2>1, <2>2 DEF NextId, IdAt, IInv, TypeOK
<1>11. n > 0
  <2>1. CASE Positions = {}
    BY <1>1, <2>1 DEF NextId
  <2>2. CASE Positions # {}
    <3>1. PICK i \in Positions : n = event[log[i]].id + 1
      BY <1>1, <2>2 DEF NextId, IdAt
    <3>2. event[log[i]] \in Event
      BY <1>3 DEF IInv, Numbered
    <3>3. event[log[i]].id \in Nat
      BY <3>2 DEF Event
    <3> QED
      BY <3>1, <3>3
  <2> QED
    BY <2>1, <2>2
<1>12. TypeOK'
  <2>1. \A e \in DOMAIN event' : event'[e].id > 0
    BY <1>6, <1>11 DEF IInv, TypeOK
  <2>2. log' \in Seq(Pieces) /\ acked' \subseteq DOMAIN event'
    BY <1>2, <1>6 DEF IInv, TypeOK
  <2>3. \A t \in Servers :
          server'[t].pc \in {"composed", "written"} => server'[t].event \in DOMAIN event'
    BY <1>6, <1>8 DEF IInv, TypeOK
  <2> QED
    BY <1>6, <1>8, <2>1, <2>2, <2>3 DEF TypeOK
<1>13. Numbered'
  BY <1>2, <1>6, <1>9 DEF IInv, Numbered
<1>14. AckedInLog'
  BY <1>2, <1>8, <1>9 DEF IInv, AckedInLog
<1>15. BeforeAcked'
  BY <1>2, <1>6, <1>8 DEF IInv, BeforeAcked
<1>16. IdsGrow'
  <2> SUFFICES ASSUME NEW e \in DOMAIN event', NEW a \in event'[e].before
               PROVE  event'[a].id < event'[e].id
    BY DEF IdsGrow
  <2>1. CASE e \in DOMAIN event
    <3>1. a \in DOMAIN event
      BY <1>6, <2>1 DEF IInv, BeforeAcked, TypeOK
    <3> QED
      BY <1>6, <2>1, <3>1 DEF IInv, IdsGrow
  <2>2. CASE e = new
    BY <1>6, <1>10, <2>2
  <2> QED
    BY <1>6, <2>1, <2>2
<1> QED
  BY <1>12, <1>13, <1>14, <1>15, <1>16 DEF IInv

(* A write appends one piece.                                               *)
LEMMA WritePreserves ==
  ASSUME IInv, NEW s \in Servers, NEW piece \in Pieces,
         NEW pc \in {"idle", "written"}, Step(s, pc), UNCHANGED event,
         log' = Append(log, piece),
         piece \in Nat => piece \in DOMAIN event,
         pc = "written" => piece \in Nat /\ piece = server[s].event,
         \/ acked' = acked
         \/ server[s].pc = "written" /\ acked' = acked \union {server[s].event}
  PROVE  IInv'
<1>1. server \in [Servers -> Call] /\ log \in Seq(Pieces) /\ acked \subseteq DOMAIN event
  BY DEF IInv, TypeOK
<1>2. /\ server' \in [Servers -> Call]
      /\ \A t \in Servers : t # s => server'[t] = server[t]
      /\ server'[s].pc = pc /\ server'[s].before = server[s].before
      /\ server'[s].event = server[s].event
  BY <1>1, StepIs
<1>3. /\ log' \in Seq(Pieces)
      /\ Positions \subseteq Positions'
      /\ \A i \in Positions : log'[i] = log[i]
      /\ \A i \in Positions' : i \in Positions \/ (i = Len(log) + 1 /\ log'[i] = piece)
      /\ piece \in Nat => (Len(log) + 1) \in Positions' /\ log'[Len(log) + 1] = piece
  BY <1>1, AppendKeeps
<1>4. LogEvents \subseteq LogEvents'
  BY <1>3 DEF LogEvents
<1>5. server[s].pc = "written" => server[s].event \in LogEvents /\ server[s].event \in DOMAIN event
  BY DEF IInv, AckedInLog, TypeOK
<1>6. acked \subseteq acked'
  OBVIOUS
<1>7. TypeOK'
  <2>1. acked' \subseteq DOMAIN event'
    BY <1>1, <1>5
  <2>2. \A t \in Servers :
          server'[t].pc \in {"composed", "written"} => server'[t].event \in DOMAIN event'
    BY <1>2 DEF IInv, TypeOK
  <2> QED
    BY <1>2, <1>3, <2>1, <2>2 DEF IInv, TypeOK
<1>8. Numbered'
  <2> SUFFICES ASSUME NEW i \in Positions'
               PROVE  log'[i] \in DOMAIN event
    BY DEF Numbered
  <2>1. CASE i \in Positions
    BY <1>3, <2>1 DEF IInv, Numbered
  <2>2. CASE i = Len(log) + 1 /\ log'[i] = piece
    <3>1. piece \in Nat
      BY <2>2 DEF Positions
    <3> QED
      BY <2>2, <3>1
  <2> QED
    BY <1>3, <2>1, <2>2
<1>9. AckedInLog'
  <2>1. ASSUME NEW e \in acked' PROVE e \in LogEvents'
    BY <1>4, <1>5 DEF IInv, AckedInLog
  <2>2. ASSUME NEW t \in Servers, server'[t].pc = "written" PROVE server'[t].event \in LogEvents'
    <3>1. CASE t = s
      <4>1. piece \in Nat /\ piece = server'[t].event
        BY <1>2, <2>2, <3>1
      <4> QED
        BY <1>3, <4>1 DEF LogEvents
    <3>2. CASE t # s
      BY <1>2, <1>4, <2>2, <3>2 DEF IInv, AckedInLog
    <3> QED
      BY <3>1, <3>2
  <2> QED
    BY <2>1, <2>2 DEF AckedInLog
<1>10. BeforeAcked'
  BY <1>2, <1>6 DEF IInv, BeforeAcked
<1>11. IdsGrow'
  BY DEF IInv, IdsGrow
<1> QED
  BY <1>7, <1>8, <1>9, <1>10, <1>11 DEF IInv

LEMMA StepPreserves == IInv /\ [Next]_vars => IInv'
<1> SUFFICES ASSUME IInv, [Next]_vars PROVE IInv'
  OBVIOUS
<1>1. CASE UNCHANGED vars
  BY <1>1 DEF vars, IInv, TypeOK, Numbered, AckedInLog, BeforeAcked, IdsGrow, LogEvents, Positions
<1>2. ASSUME NEW s \in Servers, NEW item \in Items, Begin(s, item) PROVE IInv'
  BY <1>2, BeginPreserves
<1>3. ASSUME NEW s \in Servers, Compose(s) PROVE IInv'
  BY <1>3, ComposePreserves
<1>4. ASSUME NEW s \in Servers, RefuseUnreadable(s) \/ Die(s) PROVE IInv'
  BY <1>4, ToIdlePreserves DEF RefuseUnreadable, Die
<1>5. ASSUME NEW s \in Servers, WriteBody(s) PROVE IInv'
  <2>1. server[s].event \in DOMAIN event
    BY <1>5 DEF WriteBody, IInv, TypeOK
  <2>2. server[s].event \in Nat
    BY <2>1 DEF IInv, TypeOK
  <2> QED
    BY <1>5, <2>1, <2>2, WritePreserves, PiecesAreTyped DEF WriteBody
<1>6. ASSUME NEW s \in Servers, WriteNewline(s) PROVE IInv'
  BY <1>6, WritePreserves, PiecesAreTyped, MarksAreNoEvents DEF WriteNewline
<1>7. ASSUME NEW s \in Servers, TearBody(s) PROVE IInv'
  BY <1>7, WritePreserves, PiecesAreTyped, MarksAreNoEvents DEF TearBody
<1> QED
  BY <1>1, <1>2, <1>3, <1>4, <1>5, <1>6, <1>7 DEF Next

LEMMA IInvInvariant == Spec => []IInv
BY InitEstablishes, StepPreserves, PTL DEF Spec

-----------------------------------------------------------------------------
(* Every variable of the event log keeps its type.                          *)
THEOREM EventLogTypeCorrect == Spec => []TypeOK
<1>1. IInv => TypeOK
  BY DEF IInv
<1> QED
  BY <1>1, IInvInvariant, PTL

(* An event is never shown as its item's state when the log holds one that  *)
(* was begun after it was acknowledged: whatever order the servers append   *)
(* in and whichever ids they share, the later one has the higher id.        *)
THEOREM LatestWinsCorrect == Spec => []LatestWins
<1>1. IInv => LatestWins
  <2> SUFFICES ASSUME IInv, NEW i \in Positions, NEW j \in Positions,
                      ItemAt(i) = ItemAt(j), log[i] \in event[log[j]].before
               PROVE  ~IsLatest(i)
    BY DEF LatestWins
  <2>1. IdAt(i) < IdAt(j)
    BY DEF IInv, IdsGrow, Numbered, IdAt
  <2>2. event[log[i]] \in Event /\ event[log[j]] \in Event
    BY DEF IInv, TypeOK, Numbered
  <2>3. IdAt(i) \in Nat /\ IdAt(j) \in Nat
    BY <2>2 DEF IdAt, Event
  <2> QED
    BY <2>1, <2>3 DEF IsLatest
<1> QED
  BY <1>1, IInvInvariant, PTL

(* Every acknowledged event is read by every replay that succeeds.          *)
THEOREM AckedReplaysCorrect == Spec => []AckedReplays
<1>1. IInv => AckedReplays
  <2> SUFFICES ASSUME IInv, Readable(log), NEW e \in acked
               PROVE  \E i \in Positions : log[i] = e /\ LineParses(log, i)
    BY DEF AckedReplays
  <2>1. PICK i \in Positions : log[i] = e
    BY DEF IInv, AckedInLog, LogEvents
  <2>2. i \in DOMAIN log /\ log[i] # Newline
    BY MarksAreNoEvents DEF Positions
  <2> QED
    BY <2>1, <2>2 DEF Readable
<1> QED
  BY <1>1, IInvInvariant, PTL

-----------------------------------------------------------------------------
(***************************************************************************)
(* Proof that load_cached returns a context of the site it was asked for   *)
(* and less out of date than the time to live, for any number of sessions, *)
(* sites and edits, however their reads and writes of the one cache file   *)
(* interleave, unless the clock is set back.                               *)
(***************************************************************************)

SessionRec == [pc : {"idle", "load", "open", "fill", "done"}, root : Roots,
               begun : 0..MaxClock, context : Context \union {Absent}, alone : BOOLEAN]

Typed ==
  /\ clock \in 0..MaxClock
  /\ version \in [Roots -> 0..MaxVersion]
  /\ changed \in [Roots -> [0..MaxVersion -> 0..MaxClock]]
  /\ cache \in Context \union {Absent, Garbled}
  /\ session \in [Sessions -> SessionRec]

Complete(s) == session[s].pc \in {"open", "fill", "done"}

(* A context that has been captured is of the site of its session.          *)
OfItsSite(s) ==
  /\ Complete(s) => session[s].context \in Context
  /\ Complete(s) \/ (session[s].pc = "load" /\ session[s].context # Absent)
       => session[s].context.root = session[s].root

(* What a context leaves out was changed no earlier than it was captured.   *)
Honest(c) ==
  /\ c.captured <= clock
  /\ c.version < version[c.root] => c.captured <= changed[c.root][c.version + 1]

(* A context that is loaded afresh was captured after the call began, one   *)
(* from the cache less than Ttl before.                                     *)
Timely(s) ==
  /\ session[s].begun <= clock
  /\ session[s].pc = "load" /\ session[s].context # Absent =>
       /\ session[s].begun <= session[s].context.captured
       /\ session[s].context.captured <= clock
  /\ Complete(s) =>
       Honest(session[s].context) /\ session[s].begun < session[s].context.captured + Ttl

CInv ==
  /\ Typed
  /\ \A s \in Sessions : OfItsSite(s)
  /\ steadily =>
       /\ cache \notin {Absent, Garbled} => Honest(cache)
       /\ \A s \in Sessions : Timely(s)

-----------------------------------------------------------------------------
LEMMA Numbers ==
  ASSUME CacheAssumption, Typed
  PROVE  /\ clock \in Nat /\ Ttl \in Nat
         /\ \A r \in Roots : version[r] \in Nat
         /\ \A s \in Sessions : session[s] \in SessionRec /\ session[s].begun \in Nat
         /\ \A c \in Context : c.captured \in Nat /\ c.version \in Nat /\ c.root \in Roots
BY DEF CacheAssumption, Typed, SessionRec, Context

(* While the clock does not step back a context stays honest.               *)
LEMMA HonestKept ==
  ASSUME CacheAssumption, Typed, clock' \in Nat, clock <= clock',
         UNCHANGED <<version, changed>>, NEW c \in Context, Honest(c)
  PROVE  Honest(c)'
BY Numbers DEF Honest

(* A step that leaves sessions and cache alone and keeps contexts honest.   *)
LEMMA WorldStep ==
  ASSUME CacheAssumption, CInv, Typed', UNCHANGED <<cache, session, steadily>>,
         clock <= clock', \A c \in Context : Honest(c) => Honest(c)'
  PROVE  CInv'
<1>1. \A s \in Sessions : OfItsSite(s)'
  BY DEF CInv, OfItsSite, Complete
<1>2. clock \in Nat /\ clock' \in Nat
  BY Numbers DEF CInv, CacheAssumption, Typed
<1>3. ASSUME steadily, NEW s \in Sessions PROVE Timely(s)'
  <2>1. Timely(s) /\ OfItsSite(s)
    BY <1>3 DEF CInv
  <2>2. session[s].begun \in Nat
    BY Numbers DEF CInv
  <2>3. session[s].pc = "load" /\ session[s].context # Absent => session[s].context.captured \in Nat
    BY Numbers DEF CInv, SessionRec
  <2>4. Complete(s) => Honest(session[s].context)'
    BY <2>1 DEF Timely, OfItsSite
  <2>5. Complete(s) => Honest(session[s].context)' /\ session'[s] = session[s]
    BY <2>4
  <2>6. session'[s] = session[s] /\ (Complete(s)' <=> Complete(s))
    BY DEF Complete
  <2> QED
    BY <1>2, <2>1, <2>2, <2>3, <2>5, <2>6 DEF Timely, Honest
<1>4. steadily /\ cache \notin {Absent, Garbled} => Honest(cache)'
  <2>1. cache \notin {Absent, Garbled} => cache \in Context
    BY DEF CInv, Typed
  <2> QED
    BY <2>1 DEF CInv
<1>5. steadily' /\ cache' \notin {Absent, Garbled} => Honest(cache)'
  BY <1>4
<1> QED
  BY <1>1, <1>3, <1>5 DEF CInv

LEMMA TickStep == ASSUME CacheAssumption, CInv, Tick PROVE CInv'
<1>1. clock' = clock + 1 /\ clock' \in 0..MaxClock /\ clock \in Nat
  BY Numbers DEF Tick, CInv, Typed, CacheAssumption
<1>2. Typed'
  BY <1>1 DEF CInv, Typed, Tick
<1>3. \A c \in Context : Honest(c) => Honest(c)'
  BY <1>1, HonestKept DEF CInv, Tick
<1> QED
  BY <1>1, <1>2, <1>3, WorldStep DEF Tick

LEMMA EditStep ==
  ASSUME CacheAssumption, CInv, NEW r \in Roots, EditIdentity(r) PROVE CInv'
<1> DEFINE v == version[r] + 1
<1>1. v \in 0..MaxVersion /\ v \in Nat /\ clock \in 0..MaxClock /\ clock \in Nat
  BY Numbers DEF EditIdentity, CInv, Typed, CacheAssumption
<1>2. version' = [version EXCEPT ![r] = v]
      /\ changed' = [changed EXCEPT ![r] = [changed[r] EXCEPT ![v] = clock]]
      /\ UNCHANGED <<clock, cache, session, steadily>>
  BY DEF EditIdentity
<1> HIDE DEF v
<1>3. version' \in [Roots -> 0..MaxVersion]
  BY <1>1, <1>2 DEF CInv, Typed
<1>4. [changed[r] EXCEPT ![v] = clock] \in [0..MaxVersion -> 0..MaxClock]
  BY <1>1 DEF CInv, Typed
<1>5. Typed'
  BY <1>2, <1>3, <1>4 DEF CInv, Typed
<1>6. ASSUME NEW c \in Context, Honest(c) PROVE Honest(c)'
  <2>1. c.captured \in Nat /\ c.version \in Nat /\ c.root \in Roots
    BY Numbers DEF CInv
  <2>2. CASE c.root # r
    <3>1. version'[c.root] = version[c.root] /\ changed'[c.root] = changed[c.root]
      BY <1>2, <2>1, <2>2 DEF CInv, Typed
    <3> QED
      BY <1>2, <1>6, <3>1 DEF Honest
  <2>3. CASE c.root = r
    <3>1. version'[r] = v /\ version[r] \in Nat /\ v = version[r] + 1
      BY <1>2, Numbers DEF CInv, Typed, v
    <3>2. \A w \in 0..MaxVersion : changed'[r][w] = IF w = v THEN clock ELSE changed[r][w]
      BY <1>2, <1>4 DEF CInv, Typed
    <3>3. ASSUME c.version < v PROVE c.captured <= changed'[r][c.version + 1]
      <4>1. c.version + 1 \in 0..MaxVersion
        BY <1>1, <2>1, <3>3 DEF CacheAssumption
      <4>2. CASE c.version + 1 = v
        BY <1>6, <3>2, <4>1, <4>2 DEF Honest
      <4>3. CASE c.version + 1 # v
        <5>1. c.version < version[r]
          BY <2>1, <3>1, <3>3, <4>3
        <5> QED
          BY <1>6, <2>3, <3>2, <4>1, <4>3, <5>1 DEF Honest
      <4> QED
        BY <4>2, <4>3
    <3> QED
      BY <1>2, <1>6, <2>3, <3>1, <3>3 DEF Honest
  <2> QED
    BY <2>2, <2>3
<1> QED
  BY <1>1, <1>2, <1>5, <1>6, WorldStep

(* The clock is set back: from now on only types and sites are claimed.     *)
LEMMA BackStep == ASSUME CacheAssumption, CInv, StepBack PROVE CInv'
<1>1. clock' \in 0..MaxClock /\ steadily' = FALSE
      /\ UNCHANGED <<version, changed, cache, session>>
  BY Numbers DEF StepBack, CInv, Typed, CacheAssumption
<1> QED
  BY <1>1 DEF CInv, Typed, OfItsSite, Complete

LEMMA InvalidateStep == ASSUME CacheAssumption, CInv, Invalidate PROVE CInv'
<1>1. cache' = Absent /\ UNCHANGED <<clock, version, changed, session, steadily>>
  BY DEF Invalidate
<1> QED
  BY <1>1 DEF CInv, Typed, OfItsSite, Complete, Timely, Honest

-----------------------------------------------------------------------------
(* A step of one session: the world stays as it is, and what the cache      *)
(* holds afterwards is there already or what a session had completed.       *)
LEMMA SessionStep ==
  ASSUME CacheAssumption, CInv, NEW s \in Sessions, Quietly, session' \in [Sessions -> SessionRec],
         \A t \in Sessions \ {s} :
           /\ session'[t].pc = session[t].pc /\ session'[t].root = session[t].root
           /\ session'[t].begun = session[t].begun /\ session'[t].context = session[t].context,
         OfItsSite(s)', steadily => Timely(s)',
         \/ cache' \in {cache, Garbled}
         \/ Complete(s) /\ cache' = session[s].context
  PROVE  CInv'
<1>0. UNCHANGED <<clock, version, changed, steadily>>
  BY DEF Quietly
<1>1. Complete(s) => session[s].context \in Context
  BY DEF CInv, OfItsSite
<1>2. Typed'
  BY <1>0, <1>1 DEF CInv, Typed
<1>3. \A t \in Sessions : OfItsSite(t)'
  BY DEF CInv, OfItsSite, Complete
<1>4. steadily => \A t \in Sessions : Timely(t)'
  BY <1>0 DEF CInv, Timely, Complete, Honest
<1>5. steadily /\ cache' \notin {Absent, Garbled} => Honest(cache)'
  BY <1>0 DEF CInv, Timely, Honest
<1> QED
  BY <1>0, <1>2, <1>3, <1>4, <1>5 DEF CInv

LEMMA LoadCachedStep ==
  ASSUME CacheAssumption, Ttl > 0, CInv, NEW s \in Sessions, LoadCached(s) PROVE CInv'
<1> DEFINE r == session[s].root
           hit == [pc |-> "done", root |-> r, begun |-> clock, context |-> cache, alone |-> TRUE]
           miss == [pc |-> "load", root |-> r, begun |-> clock, context |-> Absent, alone |-> TRUE]
           rec == IF Usable(cache, r) THEN hit ELSE miss
<1>1. Quietly /\ cache' = cache /\ session \in [Sessions -> SessionRec] /\ r \in Roots
      /\ clock \in 0..MaxClock
  BY DEF LoadCached, CInv, Typed, SessionRec
<1>2. session' = [session EXCEPT ![s] = rec]
  <2> DEFINE hits == Usable(cache, r)
  <2>1. session' = [session EXCEPT ![s] =
          [pc |-> IF hits THEN "done" ELSE "load", root |-> r, begun |-> clock,
           context |-> IF hits THEN cache ELSE Absent, alone |-> TRUE]]
    BY DEF LoadCached, Moves
  <2> QED
    BY <2>1
<1>3. Usable(cache, r) => cache \in Context /\ cache.root = r
  BY DEF Usable, CInv, Typed
<1>4. hit.pc = "done" /\ hit.root = r /\ hit.begun = clock /\ hit.context = cache
  OBVIOUS
<1>5. miss.pc = "load" /\ miss.root = r /\ miss.begun = clock /\ miss.context = Absent
  OBVIOUS
<1>6. rec \in SessionRec
  <2>1. miss \in SessionRec
    BY <1>1 DEF SessionRec
  <2>2. Usable(cache, r) => hit \in SessionRec
    BY <1>1, <1>3 DEF SessionRec
  <2> QED
    BY <2>1, <2>2
<1>7. steadily /\ Usable(cache, r) => Honest(cache) /\ clock < cache.captured + Ttl
  <2>1. Usable(cache, r) => clock < cache.captured + Ttl
    BY <1>3, Numbers DEF Usable, Age, CInv
  <2> QED
    BY <2>1 DEF Usable, CInv
<1>8. (Usable(cache, r) => rec = hit) /\ (~Usable(cache, r) => rec = miss)
  OBVIOUS
<1> HIDE DEF rec, hit, miss, r
<1>9. session'[s] = rec /\ session' \in [Sessions -> SessionRec]
      /\ \A t \in Sessions \ {s} : session'[t] = session[t]
  BY <1>1, <1>2, <1>6
<1>10. clock' = clock /\ version' = version /\ changed' = changed /\ clock <= clock
  BY <1>1, Numbers DEF Quietly, CInv
<1>11. OfItsSite(s)' /\ (steadily => Timely(s)')
  <2>1. CASE Usable(cache, r)
    <3>1. session'[s].pc = "done" /\ session'[s].root = r /\ session'[s].begun = clock
          /\ session'[s].context = cache
      BY <1>4, <1>8, <1>9, <2>1
    <3> QED
      BY <1>3, <1>7, <1>10, <2>1, <3>1 DEF OfItsSite, Timely, Complete, Honest
  <2>2. CASE ~Usable(cache, r)
    <3>1. session'[s].pc = "load" /\ session'[s].root = r /\ session'[s].begun = clock
          /\ session'[s].context = Absent
      BY <1>5, <1>8, <1>9, <2>2
    <3> QED
      BY <1>10, <3>1 DEF OfItsSite, Timely, Complete
  <2> QED
    BY <2>1, <2>2
<1>12. \A t \in Sessions \ {s} :
        /\ session'[t].pc = session[t].pc /\ session'[t].root = session[t].root
        /\ session'[t].begun = session[t].begun /\ session'[t].context = session[t].context
  BY <1>9
<1>13. cache' \in {cache, Garbled} \/ (Complete(s) /\ cache' = session[s].context)
  BY <1>1
<1> QED
  BY <1>1, <1>9, <1>11, <1>12, <1>13, SessionStep

LEMMA LoadStep ==
  ASSUME CacheAssumption, Ttl > 0, CInv, NEW s \in Sessions, Load(s) PROVE CInv'
<1> DEFINE r == session[s].root
<1>1. Quietly /\ cache' = cache /\ session \in [Sessions -> SessionRec] /\ r \in Roots
      /\ session[s] \in SessionRec /\ session[s].pc = "load" /\ clock \in 0..MaxClock
  BY DEF Load, CInv, Typed, SessionRec
<1>2. clock' = clock /\ version' = version /\ changed' = changed /\ clock <= clock
      /\ version[r] \in 0..MaxVersion /\ 0 \in 0..MaxVersion
  BY <1>1, Numbers DEF Quietly, CInv, Typed, CacheAssumption
<1>3. CASE session[s].context = Absent
  <2> DEFINE c == [root |-> r, captured |-> clock, version |-> 0]
             rec == [session[s] EXCEPT !.context = c]
  <2>1. c \in Context /\ c.root = r /\ c.captured = clock
    BY <1>1, <1>2 DEF Context
  <2>2. session' = [session EXCEPT ![s] = rec]
    BY <1>1, <1>3 DEF Load, Moves
  <2> HIDE DEF c
  <2>3. rec \in SessionRec /\ rec.pc = "load" /\ rec.root = r /\ rec.context = c
        /\ rec.begun = session[s].begun
    BY <1>1, <2>1 DEF SessionRec
  <2> HIDE DEF rec, r
  <2>4. session'[s] = rec /\ session' \in [Sessions -> SessionRec]
        /\ \A t \in Sessions \ {s} : session'[t] = session[t]
    BY <1>1, <2>2, <2>3
  <2>5. OfItsSite(s)' /\ (steadily => Timely(s)')
    BY <1>2, <2>1, <2>3, <2>4 DEF OfItsSite, Timely, Complete, CInv
  <2>6. \A t \in Sessions \ {s} :
          /\ session'[t].pc = session[t].pc /\ session'[t].root = session[t].root
          /\ session'[t].begun = session[t].begun /\ session'[t].context = session[t].context
    BY <2>4
  <2>7. cache' \in {cache, Garbled} \/ (Complete(s) /\ cache' = session[s].context)
    BY <1>1
  <2> QED
    BY <1>1, <2>4, <2>5, <2>6, <2>7, SessionStep
<1>4. CASE session[s].context # Absent
  <2>0. PICK c : c = [session[s].context EXCEPT !.version = version[r]]
    OBVIOUS
  <2> DEFINE rec == [session[s] EXCEPT !.pc = "open", !.context = c]
  <2>1. session[s].context \in Context
    BY <1>1, <1>4 DEF SessionRec
  <2>2. c \in Context /\ c.root = session[s].context.root /\ c.version = version[r]
        /\ c.captured = session[s].context.captured
    BY <1>2, <2>0, <2>1 DEF Context
  <2>3. session' = [session EXCEPT ![s] = rec]
    BY <1>4, <2>0 DEF Load, Moves
  <2>4. rec \in SessionRec /\ rec.pc = "open" /\ rec.root = r /\ rec.context = c
        /\ rec.begun = session[s].begun
    BY <1>1, <2>2 DEF SessionRec
  <2> HIDE DEF rec
  <2>5. session'[s] = rec /\ session' \in [Sessions -> SessionRec]
        /\ \A t \in Sessions \ {s} : session'[t] = session[t]
    BY <1>1, <2>3, <2>4
  <2>6. c.root = r
    BY <1>1, <1>4, <2>2 DEF CInv, OfItsSite
  <2>7. OfItsSite(s)'
    BY <2>2, <2>4, <2>5, <2>6 DEF OfItsSite, Complete
  <2>8. steadily => Timely(s)'
    <3> SUFFICES ASSUME steadily PROVE Timely(s)'
      OBVIOUS
    <3>1. session[s].begun <= c.captured /\ c.captured <= clock /\ session[s].begun <= clock
      BY <1>1, <1>4, <2>2 DEF CInv, Timely
    <3>2. c.captured \in Nat /\ session[s].begun \in Nat /\ Ttl \in Nat /\ version[r] \in Nat
      BY <1>1, <2>2, Numbers DEF CInv
    <3>3. session[s].begun < c.captured + Ttl /\ ~(c.version < version[r])
      BY <2>2, <3>1, <3>2
    <3>4. Honest(c)'
      BY <1>2, <2>6, <3>1, <3>3 DEF Honest
    <3>5. Honest(session[s].context)'
      BY <2>4, <2>5, <3>4
    <3> QED
      BY <1>2, <2>4, <2>5, <3>1, <3>3, <3>5 DEF Timely, Complete
  <2>9. \A t \in Sessions \ {s} :
          /\ session'[t].pc = session[t].pc /\ session'[t].root = session[t].root
          /\ session'[t].begun = session[t].begun /\ session'[t].context = session[t].context
    BY <2>5
  <2>10. cache' \in {cache, Garbled} \/ (Complete(s) /\ cache' = session[s].context)
    BY <1>1
  <2> QED
    BY <1>1, <2>5, <2>7, <2>8, <2>9, <2>10, SessionStep
<1> QED
  BY <1>3, <1>4

(* Opening, filling and giving up keep the context and what is known of it. *)
LEMMA WriteStep ==
  ASSUME CacheAssumption, CInv, NEW s \in Sessions, Complete(s),
         OpenCache(s) \/ FillCache(s) \/ WriteFails(s)
  PROVE  CInv'
<1>1. Quietly /\ session \in [Sessions -> SessionRec] /\ session[s] \in SessionRec
  BY DEF OpenCache, FillCache, WriteFails, CInv, Typed
<1>2. \/ cache' \in {cache, Garbled}
      \/ cache' = session[s].context
  BY DEF OpenCache, FillCache, WriteFails
<1>3. /\ session' \in [Sessions -> SessionRec]
      /\ session'[s].pc \in {"fill", "done"}
      /\ \A t \in Sessions :
           /\ t # s => session'[t].pc = session[t].pc
           /\ session'[t].root = session[t].root
           /\ session'[t].begun = session[t].begun
           /\ session'[t].context = session[t].context
  <2>1. CASE OpenCache(s)
    <3>1. ASSUME NEW t \in Sessions, NEW p \in {"fill", session[t].pc}, NEW a \in BOOLEAN
          PROVE  /\ [session[t] EXCEPT !.pc = p, !.alone = a] \in SessionRec
                 /\ [session[t] EXCEPT !.pc = p, !.alone = a].pc = p
                 /\ [session[t] EXCEPT !.pc = p, !.alone = a].root = session[t].root
                 /\ [session[t] EXCEPT !.pc = p, !.alone = a].begun = session[t].begun
                 /\ [session[t] EXCEPT !.pc = p, !.alone = a].context = session[t].context
      BY <1>1 DEF SessionRec
    <3>2. ASSUME NEW t \in Sessions, NEW a \in BOOLEAN
          PROVE  /\ [session[t] EXCEPT !.alone = a] \in SessionRec
                 /\ [session[t] EXCEPT !.alone = a].pc = session[t].pc
                 /\ [session[t] EXCEPT !.alone = a].root = session[t].root
                 /\ [session[t] EXCEPT !.alone = a].begun = session[t].begun
                 /\ [session[t] EXCEPT !.alone = a].context = session[t].context
      BY <1>1 DEF SessionRec
    <3>3. \A t \in Sessions : (session[t].alone /\ session[t].pc # "fill") \in BOOLEAN
      OBVIOUS
    <3>4. session'[s] = [session[s] EXCEPT !.pc = "fill", !.alone = TRUE]
      BY <2>1 DEF OpenCache
    <3>5. ASSUME NEW t \in Sessions, t # s
          PROVE  session'[t] = [session[t] EXCEPT !.alone = session[t].alone /\ session[t].pc # "fill"]
      BY <1>1, <2>1, <3>5 DEF OpenCache
    <3>6. session'[s] \in SessionRec /\ session'[s].pc = "fill"
          /\ session'[s].root = session[s].root /\ session'[s].begun = session[s].begun
          /\ session'[s].context = session[s].context
      BY <3>1, <3>4
    <3>8. ASSUME NEW t \in Sessions, t # s
          PROVE  /\ session'[t] \in SessionRec /\ session'[t].pc = session[t].pc
                 /\ session'[t].root = session[t].root /\ session'[t].begun = session[t].begun
                 /\ session'[t].context = session[t].context
      <4>1. PICK a \in BOOLEAN : session'[t] = [session[t] EXCEPT !.alone = a]
        BY <3>3, <3>5, <3>8
      <4> QED
        BY <3>2, <4>1
    <3>7. session' \in [Sessions -> SessionRec]
      BY <2>1, <3>6, <3>8 DEF OpenCache
    <3> QED
      BY <3>6, <3>7, <3>8
  <2>2. CASE FillCache(s) \/ WriteFails(s)
    <3> DEFINE rec == [session[s] EXCEPT !.pc = "done", !.alone = TRUE]
    <3>1. session' = [session EXCEPT ![s] = rec]
      BY <2>2 DEF FillCache, WriteFails, Moves
    <3>2. rec \in SessionRec /\ rec.pc = "done" /\ rec.root = session[s].root
          /\ rec.begun = session[s].begun /\ rec.context = session[s].context
      BY <1>1 DEF SessionRec
    <3> HIDE DEF rec
    <3> QED
      BY <1>1, <3>1, <3>2
  <2> QED
    BY <2>1, <2>2
<1>4. Complete(s)'
  BY <1>3 DEF Complete
<1>5. OfItsSite(s)'
  BY <1>3, <1>4 DEF CInv, OfItsSite
<1>6. steadily => Timely(s)'
  BY <1>1, <1>3, <1>4 DEF CInv, Timely, Honest, Quietly, Complete
<1> QED
  BY <1>1, <1>2, <1>3, <1>5, <1>6, SessionStep

-----------------------------------------------------------------------------
LEMMA InitCInv == CacheAssumption /\ CacheInit => CInv
<1> SUFFICES ASSUME CacheAssumption, CacheInit PROVE CInv
  OBVIOUS
<1>1. PICK at \in Placements : session = [s \in Sessions |-> Resting(at[s])]
  BY DEF CacheInit
<1>2. \A r \in Roots : Resting(r) \in SessionRec /\ Resting(r).pc = "idle" /\ Resting(r).begun = 0
  BY DEF Resting, SessionRec, CacheAssumption
<1>3. \A s \in Sessions : at[s] \in Roots
  BY DEF CacheAssumption
<1>4. session \in [Sessions -> SessionRec]
      /\ \A s \in Sessions : session[s].pc = "idle" /\ session[s].begun = 0
  BY <1>1, <1>2, <1>3
<1>5. 0 \in 0..MaxClock /\ 0 \in 0..MaxVersion /\ clock = 0
  BY DEF CacheInit, CacheAssumption
<1>6. Typed
  BY <1>4, <1>5 DEF CacheInit, Typed
<1> QED
  BY <1>4, <1>5, <1>6 DEF CacheInit, CInv, OfItsSite, Timely, Complete

LEMMA NextCInv ==
  ASSUME CacheAssumption, Ttl > 0, CInv, [CacheNext]_ctxVars PROVE CInv'
<1>1. CASE Tick
  BY <1>1, TickStep
<1>2. CASE StepBack
  BY <1>2, BackStep
<1>3. CASE Invalidate
  BY <1>3, InvalidateStep
<1>4. ASSUME NEW r \in Roots, EditIdentity(r) PROVE CInv'
  BY <1>4, EditStep
<1>5. ASSUME NEW s \in Sessions, LoadCached(s) PROVE CInv'
  BY <1>5, LoadCachedStep
<1>6. ASSUME NEW s \in Sessions, Load(s) PROVE CInv'
  BY <1>6, LoadStep
<1>7. ASSUME NEW s \in Sessions, OpenCache(s) \/ FillCache(s) \/ WriteFails(s) PROVE CInv'
  <2>1. Complete(s)
    BY <1>7 DEF OpenCache, FillCache, WriteFails, Complete
  <2> QED
    BY <1>7, <2>1, WriteStep
<1>8. CASE UNCHANGED ctxVars
  BY <1>8 DEF ctxVars, CInv, Typed, OfItsSite, Timely, Complete, Honest
<1> QED
  BY <1>1, <1>2, <1>3, <1>4, <1>5, <1>6, <1>7, <1>8 DEF CacheNext

(* The context a call returns is of the site that was asked for and had not *)
(* been replaced Ttl seconds before the call began, whatever other sessions *)
(* write, unless the clock was set back.                                    *)
THEOREM StaleByLessThanTtlCorrect ==
  CacheAssumption /\ Ttl > 0 /\ CacheSpec => []StaleByLessThanTtl
<1> SUFFICES ASSUME CacheAssumption, Ttl > 0 PROVE CacheSpec => []StaleByLessThanTtl
  OBVIOUS
<1>1. CInv /\ [CacheNext]_ctxVars => CInv'
  BY NextCInv
<1>2. CInv => StaleByLessThanTtl
  <2> SUFFICES ASSUME CInv, NEW s \in Sessions, session[s].pc = "done"
               PROVE  /\ session[s].context.root = session[s].root
                      /\ steadily /\ session[s].context.version < version[session[s].context.root] =>
                           changed[session[s].context.root][session[s].context.version + 1] + Ttl
                             > session[s].begun
    BY DEF StaleByLessThanTtl
  <2>1. Complete(s) /\ session[s].context \in Context
        /\ session[s].context.root = session[s].root
    BY DEF Complete, CInv, OfItsSite
  <2> DEFINE c == session[s].context
  <2>2. c.captured \in Nat /\ c.version \in Nat /\ c.root \in Roots /\ Ttl \in Nat
        /\ session[s].begun \in Nat /\ version[c.root] \in 0..MaxVersion
    BY <2>1, Numbers DEF CInv, Typed
  <2>3. ASSUME steadily, c.version < version[c.root]
        PROVE  changed[c.root][c.version + 1] + Ttl > session[s].begun
    <3>1. c.version + 1 \in 0..MaxVersion
      BY <2>2, <2>3 DEF CacheAssumption
    <3>2. changed[c.root][c.version + 1] \in Nat
      BY <2>2, <3>1 DEF CInv, Typed, CacheAssumption
    <3>3. c.captured <= changed[c.root][c.version + 1] /\ session[s].begun < c.captured + Ttl
      BY <2>1, <2>3 DEF CInv, Timely, Honest
    <3> HIDE DEF c
    <3> QED
      BY <2>2, <3>2, <3>3
  <2> QED
    BY <2>1, <2>3
<1> QED
  BY <1>1, <1>2, InitCInv, PTL DEF CacheSpec

(* What has a type, whatever Ttl is: Ttl may be 0, which turns the cache    *)
(* off, and CInv says more than then holds.                                 *)
CTyped == Typed /\ steadily \in BOOLEAN /\ \A s \in Sessions : OfItsSite(s)

(* A step of one session that leaves the site and the clock alone.          *)
LEMMA MoveTyped ==
  ASSUME CTyped, NEW s \in Sessions, NEW rec \in SessionRec, Moves(s, rec), Quietly,
         cache' \in Context \union {Absent, Garbled},
         rec.pc \in {"open", "fill", "done"} => rec.context \in Context,
         rec.pc \in {"open", "fill", "done"} \/ (rec.pc = "load" /\ rec.context # Absent)
           => rec.context.root = rec.root
  PROVE  CTyped'
<1>1. /\ session' = [session EXCEPT ![s] = rec] /\ session \in [Sessions -> SessionRec]
      /\ UNCHANGED <<clock, version, changed, steadily>>
  BY DEF Moves, Quietly, CTyped, Typed
<1>2. session' \in [Sessions -> SessionRec] /\ session'[s] = rec
      /\ \A t \in Sessions : t # s => session'[t] = session[t]
  BY <1>1
<1>3. \A t \in Sessions : OfItsSite(t)'
  BY <1>2 DEF CTyped, OfItsSite, Complete
<1>4. Typed'
  BY <1>1, <1>2 DEF CTyped, Typed
<1> QED
  BY <1>1, <1>3, <1>4 DEF CTyped

LEMMA LoadCachedTyped ==
  ASSUME CacheAssumption, CTyped, NEW s \in Sessions, LoadCached(s) PROVE CTyped'
<1> DEFINE hit == Usable(cache, session[s].root)
           rec == [pc |-> IF hit THEN "done" ELSE "load", root |-> session[s].root,
                   begun |-> clock, context |-> IF hit THEN cache ELSE Absent, alone |-> TRUE]
<1>1. Moves(s, rec) /\ Quietly /\ cache' = cache
  BY DEF LoadCached
<1>2. /\ cache \in Context \union {Absent, Garbled} /\ session[s].root \in Roots
      /\ clock \in 0..MaxClock
  BY DEF CTyped, Typed, SessionRec
<1>3. hit => cache \in Context /\ cache.root = session[s].root
  BY <1>2 DEF Usable
<1> HIDE DEF hit
<1>4. rec \in SessionRec
  BY <1>2, <1>3 DEF SessionRec
<1>5. rec.pc = "done" => hit
  OBVIOUS
<1>6. rec.pc = "load" => rec.context = Absent
  BY DEF hit
<1> QED
  BY <1>1, <1>2, <1>3, <1>4, <1>5, <1>6, MoveTyped

LEMMA LoadTyped ==
  ASSUME CacheAssumption, CTyped, NEW s \in Sessions, Load(s) PROVE CTyped'
<1>1. /\ session[s] \in SessionRec /\ session[s].pc = "load" /\ Quietly /\ cache' = cache
      /\ cache \in Context \union {Absent, Garbled} /\ clock \in 0..MaxClock
      /\ version \in [Roots -> 0..MaxVersion]
  BY DEF Load, CTyped, Typed
<1>2. session[s].root \in Roots /\ session[s].context \in Context \union {Absent}
  BY <1>1 DEF SessionRec
<1>3. CASE session[s].context = Absent
  <2> DEFINE c == [root |-> session[s].root, captured |-> clock, version |-> 0]
             rec == [session[s] EXCEPT !.context = c]
  <2>1. Moves(s, rec)
    BY <1>3 DEF Load
  <2>2. c \in Context /\ c.root = session[s].root
    BY <1>1, <1>2 DEF Context, CacheAssumption
  <2> HIDE DEF c
  <2>3. rec \in SessionRec /\ rec.pc = "load" /\ rec.context = c /\ rec.root = session[s].root
    BY <1>1, <2>2 DEF SessionRec
  <2> HIDE DEF rec
  <2> QED
    BY <1>1, <2>1, <2>2, <2>3, MoveTyped
<1>4. CASE session[s].context # Absent
  <2> DEFINE c == [session[s].context EXCEPT !.version = version[session[s].root]]
             rec == [session[s] EXCEPT !.pc = "open", !.context = c]
  <2>1. Moves(s, rec)
    BY <1>4 DEF Load
  <2>2. session[s].context \in Context /\ session[s].context.root = session[s].root
    BY <1>1, <1>2, <1>4 DEF CTyped, OfItsSite
  <2>3. c \in Context /\ c.root = session[s].root
    BY <1>1, <1>2, <2>2 DEF Context
  <2> HIDE DEF c
  <2>4. rec \in SessionRec /\ rec.pc = "open" /\ rec.context = c /\ rec.root = session[s].root
    BY <1>1, <2>3 DEF SessionRec
  <2> HIDE DEF rec
  <2> QED
    BY <1>1, <2>1, <2>3, <2>4, MoveTyped
<1> QED
  BY <1>3, <1>4

LEMMA OpenCacheTyped ==
  ASSUME CTyped, NEW s \in Sessions, OpenCache(s) PROVE CTyped'
<1>1. /\ session[s].pc = "open" /\ cache' = Garbled
      /\ session' = [t \in Sessions |->
           IF t = s THEN [session[s] EXCEPT !.pc = "fill", !.alone = TRUE]
           ELSE [session[t] EXCEPT !.alone = session[t].alone /\ session[t].pc # "fill"]]
      /\ UNCHANGED <<clock, version, changed, steadily>>
      /\ session \in [Sessions -> SessionRec]
  BY DEF OpenCache, Quietly, CTyped, Typed
<1>2. ASSUME NEW t \in Sessions
      PROVE  /\ session'[t] \in SessionRec /\ session'[t].context = session[t].context
             /\ session'[t].root = session[t].root
             /\ session'[t].pc = IF t = s THEN "fill" ELSE session[t].pc
  <2>1. session[t] \in SessionRec
    BY <1>1
  <2>2. CASE t = s
    BY <1>1, <2>1, <2>2 DEF SessionRec
  <2>3. CASE t # s
    <3>1. session'[t] = [session[t] EXCEPT !.alone = session[t].alone /\ session[t].pc # "fill"]
      BY <1>1, <2>3
    <3> DEFINE b == session[t].alone /\ session[t].pc # "fill"
    <3>2. b \in BOOLEAN
      OBVIOUS
    <3> HIDE DEF b
    <3>3. \A r \in SessionRec : \A x \in BOOLEAN :
            /\ [r EXCEPT !.alone = x] \in SessionRec /\ [r EXCEPT !.alone = x].context = r.context
            /\ [r EXCEPT !.alone = x].root = r.root /\ [r EXCEPT !.alone = x].pc = r.pc
      BY DEF SessionRec
    <3>4. session'[t] = [session[t] EXCEPT !.alone = b]
      BY <3>1 DEF b
    <3> QED
      BY <2>1, <2>3, <3>2, <3>3, <3>4
  <2> QED
    BY <2>2, <2>3
<1>3. session' \in [Sessions -> SessionRec]
  BY <1>1, <1>2
<1>4. \A t \in Sessions : OfItsSite(t)'
  BY <1>1, <1>2 DEF CTyped, OfItsSite, Complete
<1>5. Typed'
  BY <1>1, <1>3 DEF CTyped, Typed
<1> QED
  BY <1>1, <1>4, <1>5 DEF CTyped

LEMMA WriteTyped ==
  ASSUME CTyped, NEW s \in Sessions, FillCache(s) \/ WriteFails(s) PROVE CTyped'
<1> DEFINE rec == [session[s] EXCEPT !.pc = "done", !.alone = TRUE]
<1>1. /\ session[s].pc \in {"open", "fill"} /\ Moves(s, rec) /\ Quietly
      /\ cache' \in {cache, session[s].context, Garbled}
  BY DEF FillCache, WriteFails
<1>2. /\ session[s] \in SessionRec /\ cache \in Context \union {Absent, Garbled}
      /\ session[s].context \in Context /\ session[s].context.root = session[s].root
  BY <1>1 DEF CTyped, Typed, OfItsSite, Complete
<1>3. /\ rec \in SessionRec /\ rec.pc = "done" /\ rec.context = session[s].context
      /\ rec.root = session[s].root
  BY <1>2 DEF SessionRec
<1> HIDE DEF rec
<1> QED
  BY <1>1, <1>2, <1>3, MoveTyped

(* What a session holds of a context is one of a site at a version, and     *)
(* the cache file holds one, nothing, or what does not parse.               *)
THEOREM CacheTypeCorrect == CacheAssumption /\ CacheSpec => []CacheTypeOK
<1> SUFFICES ASSUME CacheAssumption PROVE CacheSpec => []CacheTypeOK
  OBVIOUS
<1>1. CacheInit => CTyped
  BY InitCInv DEF CInv, CTyped, CacheInit
<1>2. CTyped /\ [CacheNext]_ctxVars => CTyped'
  <2> SUFFICES ASSUME CTyped, [CacheNext]_ctxVars PROVE CTyped'
    OBVIOUS
  <2>1. CASE Tick \/ StepBack
    <3>1. clock' \in 0..MaxClock
      BY <2>1 DEF Tick, StepBack, CTyped, Typed, CacheAssumption
    <3>2. UNCHANGED <<version, changed, cache, session>> /\ steadily' \in BOOLEAN
      BY <2>1 DEF Tick, StepBack, CTyped
    <3> QED
      BY <3>1, <3>2 DEF CTyped, Typed, OfItsSite, Complete
  <2>2. ASSUME NEW r \in Roots, EditIdentity(r) PROVE CTyped'
    <3>1. /\ version[r] < MaxVersion /\ version' = [version EXCEPT ![r] = @ + 1]
          /\ changed' = [changed EXCEPT ![r][version[r] + 1] = clock]
          /\ UNCHANGED <<clock, cache, session, steadily>>
      BY <2>2 DEF EditIdentity
    <3>2. version \in [Roots -> 0..MaxVersion] /\ changed \in [Roots -> [0..MaxVersion -> 0..MaxClock]]
          /\ clock \in 0..MaxClock /\ MaxVersion \in Nat
      BY DEF CTyped, Typed, CacheAssumption
    <3>3. version[r] + 1 \in 0..MaxVersion
      BY <3>1, <3>2
    <3>4. version' \in [Roots -> 0..MaxVersion]
      BY <3>1, <3>2, <3>3
    <3>5. changed' \in [Roots -> [0..MaxVersion -> 0..MaxClock]]
      BY <3>1, <3>2, <3>3
    <3> QED
      BY <3>1, <3>4, <3>5 DEF CTyped, Typed, OfItsSite, Complete
  <2>3. CASE Invalidate
    BY <2>3 DEF Invalidate, CTyped, Typed, OfItsSite, Complete
  <2>4. ASSUME NEW s \in Sessions,
               LoadCached(s) \/ Load(s) \/ OpenCache(s) \/ FillCache(s) \/ WriteFails(s)
        PROVE  CTyped'
    BY <2>4, LoadCachedTyped, LoadTyped, OpenCacheTyped, WriteTyped
  <2>5. CASE UNCHANGED ctxVars
    BY <2>5 DEF ctxVars, CTyped, Typed, OfItsSite, Complete
  <2> QED
    BY <2>1, <2>2, <2>3, <2>4, <2>5 DEF CacheNext
<1>3. CTyped => CacheTypeOK
  BY DEF CTyped, Typed, SessionRec, CacheTypeOK
<1> QED
  BY <1>1, <1>2, <1>3, PTL DEF CacheSpec
=============================================================================
