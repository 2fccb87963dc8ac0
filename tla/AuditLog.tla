------------------------------- MODULE AuditLog -------------------------------
(***************************************************************************)
(* The hash chain of observability-core (AuditChain) as `forge audit-log   *)
(* verify` reads it back from a file: a writer appends, an editor changes  *)
(* the file, and an operator now and then writes down the hash of the last *)
(* entry.  A hash is collision-free: it is the record of what was hashed.  *)
(* Entry i of the code is entry i + 1 here.                                *)
(***************************************************************************)
EXTENDS Naturals, Sequences, SequencesExt

CONSTANTS
  Kinds,       \* what an entry may record: actor, kind, payload and second of `at` in one
  MaxEntries,  \* bound on the length of the log
  MaxFileEdits \* bound on the edits of the file

ASSUME LogAssumption == MaxEntries \in Nat /\ MaxFileEdits \in Nat

VARIABLES
  entries,     \* the log: [sequence, prev_hash, entry_hash, kind, fraction]
  noted,       \* the log at the moment its last hash was written down
  edits        \* edits of the file so far

logVars == <<entries, noted, edits>>

\* the rest of `at`: a fraction of the second and an offset from UTC
Fractions == {"none", "some"}

\* EntryHash::zero: the hash of nothing
Zero == <<>>

\* recompute_entry_hash: the sequence, the hash before it and the payload; of `at` only
\* unix_timestamp(), which drops the fraction and the offset
Hash(e) == [sequence |-> e.sequence, prev_hash |-> e.prev_hash, kind |-> e.kind]

LastHash(log) == IF log = <<>> THEN Zero ELSE Last(log).entry_hash

Sealed(e) == [e EXCEPT !.entry_hash = Hash(e)]

\* Mutant of Entry: sequences count from one
EntryFromOne(k, f) ==
  Sealed([sequence |-> Len(entries) + 1, prev_hash |-> LastHash(entries), entry_hash |-> Zero,
          kind |-> k, fraction |-> f])

Entry(k, f) ==
  Sealed([sequence |-> Len(entries), prev_hash |-> LastHash(entries), entry_hash |-> Zero,
          kind |-> k, fraction |-> f])

LogInit == entries = <<>> /\ noted = <<>> /\ edits = 0

AppendEntry(k, f) ==
  /\ Len(entries) < MaxEntries
  /\ entries' = Append(entries, Entry(k, f))
  /\ UNCHANGED <<noted, edits>>

Note ==
  /\ noted' = entries
  /\ UNCHANGED <<entries, edits>>

(* The file may be edited in any of these ways; a new hash can be computed *)
(* for an entry by whoever edits it.                                       *)
Edited(log) ==
  /\ edits < MaxFileEdits
  /\ edits' = edits + 1
  /\ entries' = log
  /\ UNCHANGED noted

Rewrite(i, k) == Edited([entries EXCEPT ![i].kind = k])
Retime(i, f) == Edited([entries EXCEPT ![i].fraction = f])
Reseal(i) == Edited([entries EXCEPT ![i] = Sealed(@)])
Relink(i) == i > 1 /\ Edited([entries EXCEPT ![i].prev_hash = entries[i - 1].entry_hash])
Renumber(i) == Edited([entries EXCEPT ![i].sequence = i - 1])
Drop(i) == Edited(RemoveAt(entries, i))

LogNext ==
  \/ \E k \in Kinds, f \in Fractions : AppendEntry(k, f)
  \/ Note
  \/ \E i \in DOMAIN entries :
       \/ \E k \in Kinds : Rewrite(i, k)
       \/ \E f \in Fractions : Retime(i, f)
       \/ Reseal(i) \/ Relink(i) \/ Renumber(i) \/ Drop(i)

LogSpec == LogInit /\ [][LogNext]_logVars

-----------------------------------------------------------------------------
\* Mutant of Sound: the link to the entry before is not compared
SoundUnlinked(log, i) == log[i].sequence = i - 1 /\ Hash(log[i]) = log[i].entry_hash

\* one turn of the loop in verify
Sound(log, i) ==
  /\ log[i].sequence = i - 1
  /\ log[i].prev_hash = LastHash(SubSeq(log, 1, i - 1))
  /\ Hash(log[i]) = log[i].entry_hash

\* AuditChain::verify and the verdict of the command
Verdict(log) == IF \A i \in DOMAIN log : Sound(log, i) THEN "pass" ELSE "fail"

LogTypeOK ==
  /\ Len(entries) \in 0..MaxEntries /\ edits \in 0..MaxFileEdits
  /\ \A i \in DOMAIN entries : /\ entries[i].kind \in Kinds /\ entries[i].sequence < MaxEntries
                               /\ entries[i].fraction \in Fractions

Stands == Verdict(entries) = "pass" /\ LastHash(entries) = LastHash(noted) /\ Verdict(noted) = "pass"

\* Whatever is done to the file, if it still verifies and ends in the hash that was written
\* down, it has the entries of that moment, in their order and with all that the hash covers:
\* to rewrite, to drop or to reorder a noted entry, even with every hash computed anew, shows.
NotedIsSealed ==
  Stands =>
    /\ Len(entries) = Len(noted)
    /\ \A i \in DOMAIN entries, field \in {"sequence", "prev_hash", "entry_hash", "kind"} :
         entries[i][field] = noted[i][field]

\* What the doc of AuditEntry says and TLC refutes (README, section 6): "`entry_hash` is the
\* SHA-256 of `(prev_hash, sequence, actor, at, kind, payload)`", so that the time of a noted
\* entry cannot be changed unseen.
TimeIsSealed ==
  Stands => Len(entries) = Len(noted) /\ \A i \in DOMAIN entries : entries[i].fraction = noted[i].fraction
=============================================================================
