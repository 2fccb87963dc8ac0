---------------------------- MODULE ExtensionHost -----------------------------
(***************************************************************************)
(* NullHost of extension-host: load, invoke and unload over its list of    *)
(* loaded extensions.  A capability is its variant; load compares no more  *)
(* of it than that.                                                        *)
(***************************************************************************)
EXTENDS Listing

CONSTANTS
  Ids,         \* extension ids
  Caps,        \* variants of capabilities
  NotLoaded    \* HostError::NotLoaded, and the grant of an id that is not loaded

VARIABLES
  loaded,      \* NullHost::loaded: [id, granted]
  asked,       \* id -> capabilities its manifest asked for when it was last loaded
  given        \* id -> what the operator granted it then; NotLoaded after an unload

hostVars == <<loaded, asked, given>>

HostInit ==
  /\ loaded = <<>>
  /\ asked = [id \in Ids |-> {}]
  /\ given = [id \in Ids |-> NotLoaded]

IsLoaded(id) == \E i \in DOMAIN loaded : loaded[i].id = id

\* Mutant of Accepted: loading again is how an extension is upgraded
AcceptedAgain(id, wanted, granted, compatible) == compatible /\ wanted \subseteq granted

\* Mutant of Accepted: one capability that was granted is enough
AcceptedPartly(id, wanted, granted, compatible) ==
  compatible /\ (wanted = {} \/ wanted \intersect granted # {}) /\ ~IsLoaded(id)

\* the three refusals of load
Accepted(id, wanted, granted, compatible) ==
  compatible /\ wanted \subseteq granted /\ ~IsLoaded(id)

HostLoad(id, wanted, granted, compatible) ==
  /\ Accepted(id, wanted, granted, compatible)
  /\ loaded' = Append(loaded, [id |-> id, granted |-> granted])
  /\ asked' = [asked EXCEPT ![id] = wanted]
  /\ given' = [given EXCEPT ![id] = granted]

\* Mutant of Unloaded: only the first entry is looked at
UnloadedFirst(id) == IF Head(loaded).id = id THEN Tail(loaded) ELSE loaded

Unloaded(id) == Picked(loaded, {i \in DOMAIN loaded : loaded[i].id # id})

\* refuses an id that is not loaded
HostUnload(id) ==
  /\ IsLoaded(id)
  /\ loaded' = Unloaded(id)
  /\ given' = [given EXCEPT ![id] = NotLoaded]
  /\ UNCHANGED asked

HostNext ==
  \E id \in Ids :
    \/ HostUnload(id)
    \/ \E wanted, granted \in SUBSET Caps, compatible \in BOOLEAN :
         HostLoad(id, wanted, granted, compatible)

HostSpec == HostInit /\ [][HostNext]_hostVars

-----------------------------------------------------------------------------
\* NullHost::granted: the first entry with the id
Granted(id) ==
  LET at == {i \in DOMAIN loaded : loaded[i].id = id}
  IN  IF at = {} THEN NotLoaded
      ELSE loaded[CHOOSE i \in at : \A j \in at : i <= j].granted

HostTypeOK ==
  /\ Len(loaded) \in Nat
  /\ \A i \in DOMAIN loaded : loaded[i].id \in Ids /\ loaded[i].granted \subseteq Caps

\* After any sequence of loads and unloads, what the host says an extension was granted is what
\* the operator granted it at its last load, and nothing once it is unloaded; and one that is
\* loaded holds every capability its manifest asked for.
GrantIsLastGiven ==
  \A id \in Ids :
    /\ Granted(id) = given[id]
    /\ IsLoaded(id) => asked[id] \subseteq Granted(id)
=============================================================================
