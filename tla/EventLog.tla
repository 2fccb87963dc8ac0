------------------------------ MODULE EventLog ------------------------------
(***************************************************************************)
(* The id-assigning JSONL logs of forge-core (session_progress, and with   *)
(* the same read-then-append shape gap_registry, operator_corrections and  *)
(* outcome_ratings), as the forge-mcp servers of several agents use one    *)
(* file at a time without a lock: a call reads the whole log, takes the    *)
(* highest event_id plus one, and appends a line in two writes.  A server  *)
(* can be killed, and the disk can fill up, at any step.                   *)
(*                                                                         *)
(* An event is its number in `event`; the log holds event numbers.  An     *)
(* event remembers which events had been acknowledged, to anyone, when its *)
(* own call began: that is the order the callers saw.                      *)
(***************************************************************************)
EXTENDS JsonLines, FiniteSets

CONSTANTS
  Servers,   \* forge-mcp processes
  Items,     \* item_ids
  MaxEvents  \* bound: events composed in a behaviour

ASSUME EventLogAssumption == MaxEvents \in Nat

VARIABLES
  log,     \* the file
  event,   \* every event composed so far
  acked,   \* events whose call returned Ok
  server   \* the call each server is serving

vars == <<log, event, acked, server>>

Event == [id: Nat, item: Items, before: SUBSET Nat]

Call == [pc: {"idle", "started", "composed", "written"},
         item: Items, before: SUBSET Nat, event: Nat]

Idle(s) == server[s].pc = "idle"

(* Every variable keeps its type, and ids start at 1.                       *)
TypeOK ==
  /\ log \in Seq(Pieces)
  /\ event \in Seq(Event)
  /\ \A e \in DOMAIN event : event[e].id > 0
  /\ acked \subseteq DOMAIN event
  /\ server \in [Servers -> Call]
  /\ \A s \in Servers :
       server[s].pc \in {"composed", "written"} => server[s].event \in DOMAIN event

Init ==
  /\ log = << >>
  /\ event = << >>
  /\ acked = {}
  /\ server \in [Servers -> [pc: {"idle"}, item: Items, before: {{}}, event: {0}]]

-----------------------------------------------------------------------------
(* The lines that hold an event.                                            *)
Positions == {i \in DOMAIN log : log[i] \in Nat}

IdAt(i) == event[log[i]].id

Step(s, pc) == server' = [server EXCEPT ![s].pc = pc]

(* tool_forge_progress_record: the call begins.                             *)
Begin(s, item) ==
  /\ Idle(s)
  /\ server' = [server EXCEPT ![s] = [pc |-> "started", item |-> item,
                                      before |-> acked, event |-> 0]]
  /\ UNCHANGED <<log, event, acked>>

\* Mutant of NextId: the id of the last line plus one.
NextAfterLastLine(n) ==
  IF Positions = {} THEN n = 1
  ELSE \E i \in Positions : (\A j \in Positions : j <= i) /\ n = IdAt(i) + 1

\* Mutant of NextId: the highest id, not the one after it.
NextIsHighest(n) ==
  IF Positions = {} THEN n = 0
  ELSE \E i \in Positions : (\A j \in Positions : IdAt(j) <= IdAt(i)) /\ n = IdAt(i)

(* max(event_id).unwrap_or(0) + 1.                                          *)
NextId(n) ==
  /\ \A i \in Positions : IdAt(i) < n
  /\ IF Positions = {} THEN n = 1 ELSE \E i \in Positions : n = IdAt(i) + 1

(* record_event reads the log and composes the event.                       *)
Compose(s) ==
  /\ server[s].pc = "started"
  /\ Len(event) < MaxEvents
  /\ Readable(log)
  /\ \E n \in 0..MaxEvents :
       /\ NextId(n)
       /\ event' = Append(event, [id |-> n, item |-> server[s].item,
                                  before |-> server[s].before])
  /\ server' = [server EXCEPT ![s] = [pc |-> "composed", item |-> @.item,
                                      before |-> @.before, event |-> Len(event) + 1]]
  /\ UNCHANGED <<log, acked>>

(* One bad line fails the read, and with it the call.                       *)
RefuseUnreadable(s) ==
  /\ server[s].pc = "started"
  /\ ~Readable(log)
  /\ Step(s, "idle")
  /\ UNCHANGED <<log, event, acked>>

\* Mutant of WriteBody: the log is rewritten from the one line.
RewriteLog(s) ==
  /\ server[s].pc = "composed"
  /\ log' = <<server[s].event>>
  /\ Step(s, "written")
  /\ UNCHANGED <<event, acked>>

(* writeln! makes two writes in O_APPEND mode.                              *)
WriteBody(s) ==
  /\ server[s].pc = "composed"
  /\ log' = Append(log, server[s].event)
  /\ Step(s, "written")
  /\ UNCHANGED <<event, acked>>

WriteNewline(s) ==
  /\ server[s].pc = "written"
  /\ log' = Append(log, Newline)
  /\ acked' = acked \union {server[s].event}
  /\ Step(s, "idle")
  /\ UNCHANGED event

(* The body is cut short by a kill or a full disk.                          *)
TearBody(s) ==
  /\ server[s].pc = "composed"
  /\ log' = Append(log, Torn)
  /\ Step(s, "idle")
  /\ UNCHANGED <<event, acked>>

(* A kill, or a write that fails before it writes anything.                 *)
Die(s) ==
  /\ ~Idle(s)
  /\ Step(s, "idle")
  /\ UNCHANGED <<log, event, acked>>

Next ==
  \E s \in Servers :
    \/ \E item \in Items : Begin(s, item)
    \/ Compose(s) \/ RefuseUnreadable(s)
    \/ WriteBody(s) \/ WriteNewline(s) \/ TearBody(s)
    \/ Die(s)

Spec == Init /\ [][Next]_vars

-----------------------------------------------------------------------------
(* resolved_items: the events of an item are sorted by event_id, stably, so *)
(* among equal ids the later line is last, and the last one is its state.   *)
ItemAt(i) == event[log[i]].item

IsLatest(i) ==
  \A j \in Positions : ItemAt(j) = ItemAt(i) =>
    IdAt(j) < IdAt(i) \/ (IdAt(j) = IdAt(i) /\ j <= i)

(* "The latest event for a given item_id wins": although two servers may    *)
(* give out the same id and append in the other order, an event is never    *)
(* shown as an item's state when the log holds another event of that item   *)
(* whose call began after this one was acknowledged.                        *)
LatestWins ==
  \A i, j \in Positions :
    (ItemAt(i) = ItemAt(j) /\ log[i] \in event[log[j]].before) => ~IsLatest(i)

(* Whatever was acknowledged is in the log, and every replay that succeeds  *)
(* reads it: an overlapping append or a kill can make the log unreadable,   *)
(* but never drops an event from a log that reads.                          *)
AckedReplays ==
  Readable(log) => \A e \in acked : \E i \in Positions : log[i] = e /\ LineParses(log, i)
=============================================================================
