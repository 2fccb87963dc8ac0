----------------------------- MODULE ContextCache -----------------------------
(***************************************************************************)
(* load_cached of session_context: sessions in several sites read one      *)
(* cache file and, when it is not to their use, load the context afresh    *)
(* and write it back, while the identities of the sites are edited.  The   *)
(* file is written with fs::write, which truncates and then fills; nothing *)
(* keeps two sessions from writing at once.  Seconds are natural numbers.  *)
(***************************************************************************)
EXTENDS Naturals

CONSTANTS
  Roots,       \* sites
  Sessions,    \* processes that load a context
  Placements,  \* session -> the site it works in, the assignments in use
  Ttl,         \* ttl_seconds
  MaxClock,    \* bound on the clock
  MaxVersion,  \* bound on the edits of a site
  Absent,      \* no cache file, no answer
  Garbled         \* a cache file that does not parse: truncated, or overlaid by two writers

\* what the constants are assumed to be
CacheAssumption ==
  /\ {Ttl, MaxClock, MaxVersion} \subseteq Nat
  /\ Placements \subseteq [Sessions -> Roots]

VARIABLES
  clock,
  version,     \* root -> the number of its last edit of [site_identity]
  changed,     \* root -> version -> when it was made
  cache,       \* Absent, Garbled or a context
  session,     \* [pc, root, begun, context, alone]
  steadily     \* history: the clock has never stepped back

ctxVars == <<clock, version, changed, cache, session, steadily>>

Context == [root : Roots, captured : 0..MaxClock, version : 0..MaxVersion]

Resting(r) == [pc |-> "idle", root |-> r, begun |-> 0, context |-> Absent, alone |-> TRUE]

CacheTypeOK ==
  /\ clock \in 0..MaxClock /\ steadily \in BOOLEAN
  /\ version \in [Roots -> 0..MaxVersion]
  /\ cache \in Context \union {Absent, Garbled}
  /\ \A s \in Sessions :
       /\ session[s].pc \in {"idle", "load", "open", "fill", "done"}
       /\ session[s].root \in Roots /\ session[s].context \in Context \union {Absent}

CacheInit ==
  /\ clock = 0 /\ steadily = TRUE
  /\ version = [r \in Roots |-> 0]
  /\ changed = [r \in Roots |-> [v \in 0..MaxVersion |-> 0]]
  /\ cache = Absent
  /\ \E at \in Placements : session = [s \in Sessions |-> Resting(at[s])]

Tick ==
  /\ clock < MaxClock /\ clock' = clock + 1
  /\ UNCHANGED <<version, changed, cache, session, steadily>>

\* once in a behaviour
StepBack ==
  /\ clock > 0 /\ steadily /\ clock' = clock - 1 /\ steadily' = FALSE
  /\ UNCHANGED <<version, changed, cache, session>>

\* of a site in which a session works
EditIdentity(r) ==
  /\ version[r] < MaxVersion /\ \E s \in Sessions : session[s].root = r
  /\ version' = [version EXCEPT ![r] = @ + 1]
  /\ changed' = [changed EXCEPT ![r][version[r] + 1] = clock]
  /\ UNCHANGED <<clock, cache, session, steadily>>

\* invalidate_cache, or the temporary directory emptied
Invalidate ==
  /\ cache # Absent /\ cache' = Absent
  /\ UNCHANGED <<clock, version, changed, session, steadily>>

-----------------------------------------------------------------------------
Moves(s, rec) == session' = [session EXCEPT ![s] = rec]
Quietly == UNCHANGED <<clock, version, changed, steadily>>

Age(c) == IF clock > c.captured THEN clock - c.captured ELSE 0

\* Mutant of Usable: the site is not compared
UsableAnywhere(c, r) == c \notin {Absent, Garbled} /\ Age(c) < Ttl

Usable(c, r) == c \notin {Absent, Garbled} /\ Ttl > 0 /\ Age(c) < Ttl /\ c.root = r

\* load_cached: a call begins with a look at the cache
LoadCached(s) ==
  /\ session[s].pc \in {"idle", "done"}
  /\ LET hit == Usable(cache, session[s].root)
     IN  Moves(s, [pc |-> IF hit THEN "done" ELSE "load", root |-> session[s].root,
                   begun |-> clock, context |-> IF hit THEN cache ELSE Absent, alone |-> TRUE])
  /\ Quietly /\ UNCHANGED cache

\* load: the second is taken first, then forge.toml is read
Load(s) ==
  /\ session[s].pc = "load"
  /\ \/ /\ session[s].context = Absent
        /\ Moves(s, [session[s] EXCEPT
             !.context = [root |-> session[s].root, captured |-> clock, version |-> 0]])
     \/ /\ session[s].context # Absent
        /\ LET read == [session[s].context EXCEPT !.version = version[session[s].root]]
           IN  Moves(s, [session[s] EXCEPT !.pc = "open", !.context = read])
  /\ Quietly /\ UNCHANGED cache

OpenCache(s) ==
  /\ session[s].pc = "open"
  /\ cache' = Garbled
  /\ session' = [t \in Sessions |->
       IF t = s THEN [session[s] EXCEPT !.pc = "fill", !.alone = TRUE]
       ELSE [session[t] EXCEPT !.alone = @ /\ session[t].pc # "fill"]]
  /\ Quietly

\* A writer over whose file another has opened may leave a mixture of the two.
FillCache(s) ==
  /\ session[s].pc = "fill"
  /\ cache' \in {session[s].context} \union IF session[s].alone THEN {} ELSE {Garbled}
  /\ Moves(s, [session[s] EXCEPT !.pc = "done", !.alone = TRUE])
  /\ Quietly

\* the result of fs::write is not looked at; a session may also be killed
WriteFails(s) ==
  /\ session[s].pc \in {"open", "fill"}
  /\ Moves(s, [session[s] EXCEPT !.pc = "done", !.alone = TRUE])
  /\ Quietly /\ UNCHANGED cache

CacheNext ==
  \/ Tick \/ StepBack \/ Invalidate
  \/ \E r \in Roots : EditIdentity(r)
  \/ \E s \in Sessions :
       \/ LoadCached(s) \/ Load(s) \/ OpenCache(s) \/ FillCache(s) \/ WriteFails(s)

CacheSpec == CacheInit /\ [][CacheNext]_ctxVars

-----------------------------------------------------------------------------
\* Whatever other sessions write meanwhile, in this site or another, the context a call returns
\* is of the site that was asked for, and it is out of date by less than the time to live: an
\* identity that had been replaced Ttl seconds before the call began is not returned, unless the
\* clock was set back.
StaleByLessThanTtl ==
  \A s \in Sessions : session[s].pc = "done" =>
    LET c == session[s].context
    IN  /\ c.root = session[s].root
        /\ steadily /\ c.version < version[c.root] =>
             changed[c.root][c.version + 1] + Ttl > session[s].begun
=============================================================================
