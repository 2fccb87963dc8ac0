------------------------------ MODULE Resumption ------------------------------
(***************************************************************************)
(* The brief a new session starts from (build_brief of resumption.rs, by   *)
(* the tool forge.resumption_brief): items of the session log change their *)
(* status as time passes in whole seconds, and the brief lists some of     *)
(* them.  An item is a number, the order of numbers that of item ids.      *)
(***************************************************************************)
EXTENDS Listing, SequencesExt

CONSTANTS
  TaskIds,     \* item ids, numbers
  Cap,         \* recent_completed_limit and pending_head_limit
  LastSecond,  \* bound on the clock
  NotYet       \* an item with no event

ASSUME BriefAssumption ==
  /\ IsFiniteSet(TaskIds) /\ TaskIds \subseteq Nat
  /\ Cap \in Nat /\ LastSecond \in Nat

Statuses == {"pending", "in-progress", "blocked", "completed", "cancelled"}

VARIABLES
  items,       \* item id -> NotYet or [status, created_at, updated_at]
  second       \* the clock

briefVars == <<items, second>>

BriefInit == items = [i \in TaskIds |-> NotYet] /\ second = 0

BriefTypeOK ==
  /\ second \in 0..LastSecond
  /\ items \in [TaskIds -> [status : Statuses, created_at : 0..LastSecond,
                            updated_at : 0..LastSecond] \union {NotYet}]

\* resolved_items: created with its first event, updated with its last
Record(i, status) ==
  /\ items' = [items EXCEPT ![i] =
       [status |-> status, updated_at |-> second,
        created_at |-> IF items[i] = NotYet THEN second ELSE items[i].created_at]]
  /\ UNCHANGED second

NextSecond == second < LastSecond /\ second' = second + 1 /\ UNCHANGED items

BriefNext == NextSecond \/ \E i \in TaskIds, status \in Statuses : Record(i, status)

BriefSpec == BriefInit /\ [][BriefNext]_briefVars

-----------------------------------------------------------------------------
Known == {i \in TaskIds : items[i] # NotYet}
WithStatus(status) == {i \in Known : items[i].status = status}

\* A stable sort by a key, of items that come in the order of their ids.
SortedBy(S, key) ==
  Listed(S, {p \in S \X S : \/ key[p[1]] < key[p[2]]
                            \/ key[p[1]] = key[p[2]] /\ p[1] < p[2]})
ById(S) == SortedBy(S, [i \in S |-> 0])

\* most recent first
Recency == [i \in Known |-> LastSecond - items[i].updated_at]
Creation == [i \in Known |-> items[i].created_at]

Capped(seq) == SubSeq(seq, 1, IF Len(seq) < Cap THEN Len(seq) ELSE Cap)

\* Mutant of Completed: cut before it is sorted
CompletedCutFirst == SortedBy(ToSet(Capped(ById(WithStatus("completed")))), Recency)

Completed == Capped(SortedBy(WithStatus("completed"), Recency))
\* created_at has whole seconds: items of one second come in the order of their ids
Pending == Capped(SortedBy(WithStatus("pending"), Creation))
InProgress == ById(WithStatus("in-progress"))
Blocked == ById(WithStatus("blocked"))

Counts == [s \in Statuses \union {"total"} |->
             IF s = "total" THEN Cardinality(Known) ELSE Cardinality(WithStatus(s))]

\* Nothing that needs attention is left out of the brief, nothing is in it twice, and what the
\* caps leave out is, to the second, older work that is done and newer work that waits; the
\* counts still tell of it.
BriefIsHonest ==
  LET shown == Completed \o Pending \o InProgress \o Blocked
  IN  /\ IsInjective(shown)
      /\ WithStatus("in-progress") \union WithStatus("blocked") \subseteq ToSet(shown)
      /\ \A i \in WithStatus("completed") \ ToSet(Completed), j \in ToSet(Completed) :
           items[i].updated_at <= items[j].updated_at
      /\ \A i \in WithStatus("pending") \ ToSet(Pending), j \in ToSet(Pending) :
           items[i].created_at >= items[j].created_at
      /\ Counts["total"] - Counts["cancelled"] - Len(shown) =
           (Counts["completed"] - Len(Completed)) + (Counts["pending"] - Len(Pending))

=============================================================================
