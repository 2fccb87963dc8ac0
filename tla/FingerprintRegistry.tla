------------------------- MODULE FingerprintRegistry -------------------------
(***************************************************************************)
(* The fingerprint registry (forge-core/src/fingerprint_registry.rs): a    *)
(* JSONL file in which every entry carries a sequence number and the hash  *)
(* of the entry before it, and the `forge fingerprint register` command    *)
(* that appends to it.  Several sites may share one registry.              *)
(*                                                                         *)
(* Entries are numbered in the order they are composed; the number stands  *)
(* for the entry's canonical bytes, so it is also its hash.  `prev` is     *)
(* NoEntry for prev_hash = None.  A site is the project directory a        *)
(* command runs in; its operator may edit it between any two commands, so  *)
(* each of them finds any fingerprint.                                     *)
(***************************************************************************)
EXTENDS JsonLines, FiniteSets

CONSTANTS
  Sites,        \* projects that register in this file
  Fingerprints, \* fingerprints their cms/ can have
  MaxEntries,   \* bound: entries composed in a behaviour
  Faults,       \* environment: a command can die or a write can fail
  Unset,        \* no fingerprint
  WholeSeconds  \* environment: the clock is always read at nanosecond zero

ASSUME RegistryAssumption ==
  /\ MaxEntries \in Nat
  /\ {Faults, WholeSeconds} \subseteq BOOLEAN

NoEntry == 0

Entry == [seq: Nat, prev: Nat, site: Sites, fp: Fingerprints]

VARIABLES
  registry,  \* fingerprints.jsonl: what was appended to it
  entry,     \* every entry ever composed; entry[i] has hash i
  register,  \* site -> its `forge fingerprint register` process
  acked,     \* entries whose command exited 0
  overlapped \* history: a command began while another one was running

registryVars == <<registry, entry, register, acked, overlapped>>

Register == [pc: {"idle", "stamped", "composed", "body_written"},
             fp: Fingerprints \union {Unset}, id: Nat,
             exit: {"other", "bad_timestamp"}]   \* what its last command ended with
NotRunning(exit) == [pc |-> "idle", fp |-> Unset, id |-> NoEntry, exit |-> exit]

RegistryTypeOK ==
  /\ registry \in Seq(Pieces)
  /\ entry \in Seq(Entry)
  /\ register \in [Sites -> Register]
  /\ acked \subseteq Nat
  /\ overlapped \in BOOLEAN

RegistryInit ==
  /\ registry = <<>>
  /\ entry = <<>>
  /\ register = [s \in Sites |-> NotRunning("other")]
  /\ acked = {}
  /\ overlapped = FALSE

Registering(s) == register[s].pc # "idle"

Exits(s, exit) == register' = [register EXCEPT ![s] = NotRunning(exit)]

-----------------------------------------------------------------------------
(* fingerprint_registry::append *)

(* The register command computes the fingerprint and stamps itself with     *)
(* OffsetDateTime::now_utc().format(&Rfc3339). No lock keeps it from another *)
(* site's command on the same file.                                         *)
StartRegister(s, fp) ==
  /\ ~Registering(s)
  /\ register' = [register EXCEPT ![s].pc = "stamped", ![s].fp = fp]
  /\ overlapped' = (overlapped \/ \E t \in Sites : Registering(t))
  /\ UNCHANGED <<registry, entry, acked>>

(* That format prints a fraction unless the nanoseconds are zero, and       *)
(* is_canonical_rfc3339_utc accepts no fraction.                            *)
RejectTimestamp(s) ==
  /\ register[s].pc = "stamped"
  /\ ~WholeSeconds
  /\ Exits(s, "bad_timestamp")
  /\ UNCHANGED <<registry, entry, acked, overlapped>>

(* The lines that hold an entry, when the file is read at all.              *)
Positions == {i \in DOMAIN registry : registry[i] \in Nat}

\* Mutant of LastEntry: the entries read are not kept.
NoLastEntry(last) == last = NoEntry

(* read_last_entry: None for a missing or empty file.                       *)
LastEntry(last) ==
  \/ \E i \in Positions : (\A j \in Positions : j <= i) /\ last = registry[i]
  \/ Positions = {} /\ last = NoEntry

\* Mutant of NextSequence: counts down.
SequenceBefore(last) == IF last = NoEntry THEN 0 ELSE entry[last].seq - 1

NextSequence(last) == IF last = NoEntry THEN 0 ELSE entry[last].seq + 1

(* The first half of append: chain to the last entry, hash and sign.        *)
ComposeEntry(s) ==
  /\ register[s].pc = "stamped"
  /\ Len(entry) < MaxEntries
  /\ Readable(registry)
  /\ \E last \in 0..Len(entry) :
       /\ LastEntry(last)
       /\ entry' = Append(entry,
            [seq |-> NextSequence(last), prev |-> last, site |-> s, fp |-> register[s].fp])
  /\ register' = [register EXCEPT ![s].pc = "composed", ![s].id = Len(entry) + 1]
  /\ UNCHANGED <<registry, acked, overlapped>>

(* read_last_entry fails on the first line that does not parse.             *)
RefuseUnreadable(s) ==
  /\ register[s].pc = "stamped"
  /\ ~Readable(registry)
  /\ Exits(s, "other")
  /\ UNCHANGED <<registry, entry, acked, overlapped>>

\* Mutant of WriteBody: the file is rewritten from the entries that were read.
RewriteFile(s) ==
  /\ register[s].pc = "composed"
  /\ LET prior == entry[register[s].id].prev
     IN registry' = IF \E i \in DOMAIN registry : registry[i] = prior
                    THEN SubSeq(registry, 1, CHOOSE i \in DOMAIN registry : registry[i] = prior)
                           \o <<Newline, register[s].id>>
                    ELSE <<register[s].id>>
  /\ register' = [register EXCEPT ![s].pc = "body_written"]
  /\ UNCHANGED <<entry, acked, overlapped>>

(* file.write_all(json_line)                                                *)
WriteBody(s) ==
  /\ register[s].pc = "composed"
  /\ registry' = Append(registry, register[s].id)
  /\ register' = [register EXCEPT ![s].pc = "body_written"]
  /\ UNCHANGED <<entry, acked, overlapped>>

(* file.write_all(b"\n"), and the command exits 0.                          *)
WriteNewline(s) ==
  /\ register[s].pc = "body_written"
  /\ registry' = Append(registry, Newline)
  /\ acked' = acked \union {register[s].id}
  /\ Exits(s, "other")
  /\ UNCHANGED <<entry, overlapped>>

(* The command is killed, or a write fails and `?` ends it.                 *)
RegisterDies(s) ==
  /\ Faults
  /\ Registering(s)
  /\ Exits(s, "other")
  /\ UNCHANGED <<registry, entry, acked, overlapped>>

(* The disk fills up while the body is written.                             *)
TearBody(s) ==
  /\ Faults
  /\ register[s].pc = "composed"
  /\ registry' = Append(registry, Torn)
  /\ Exits(s, "other")
  /\ UNCHANGED <<entry, acked, overlapped>>

RegisterSteps(s) ==
  \/ RejectTimestamp(s) \/ ComposeEntry(s) \/ RefuseUnreadable(s)
  \/ WriteBody(s) \/ WriteNewline(s) \/ RegisterDies(s) \/ TearBody(s)

RegistryNext == \E s \in Sites :
  RegisterSteps(s) \/ \E fp \in Fingerprints : StartRegister(s, fp)

RegistrySpec == RegistryInit /\ [][RegistryNext]_registryVars

-----------------------------------------------------------------------------
(* fingerprint_registry::verify_chain *)

Precedes(j, i) == j < i /\ \A k \in Positions : k <= j \/ i <= k

(* The genesis entry has sequence 0 and no predecessor, each other entry    *)
(* the next number and the hash of the one before it.                       *)
ChainHolds ==
  /\ \A i \in Positions : (\A j \in Positions : i <= j) =>
       entry[registry[i]].seq = 0 /\ entry[registry[i]].prev = NoEntry
  /\ \A i, j \in Positions : Precedes(j, i) =>
       /\ entry[registry[i]].prev = registry[j]
       /\ entry[registry[i]].seq = entry[registry[j]].seq + 1

Verdict ==
  IF ~Readable(registry) THEN "unreadable"
  ELSE IF ChainHolds THEN "ok"
  ELSE "chain_broken"

-----------------------------------------------------------------------------
(* Properties *)

(* Until two commands overlap the chain is never forked, whatever dies      *)
(* where: `forge fingerprint verify` may find a line it cannot parse, but   *)
(* never an entry out of sequence or with the wrong predecessor.            *)
NeverForked == ~overlapped => Verdict # "chain_broken"

(* Once the registry verifies, every registration a command reported as     *)
(* done is in it, even when commands overlap: the appends of one process    *)
(* cannot displace those of another.                                        *)
AckedIsListed ==
  Verdict = "ok" => \A id \in acked : \E i \in Positions : registry[i] = id

-----------------------------------------------------------------------------
(* What comments and docs of the code say and TLC refutes (the README lists *)
(* each with its runs or its settings).                                     *)

(* "One FingerprintRegistryEntry per line": what a process that died leaves *)
(* behind is still a file every reader accepts.                             *)
OneEntryPerLine == Readable(registry)

(* "typically the forge-cli build runner holds an exclusive registry lock   *)
(* for the duration of one build's append": no two commands are between     *)
(* reading the last entry and writing theirs.                               *)
ExclusiveAppend ==
  \A s, t \in Sites :
    register[s].pc \in {"composed", "body_written"} /\ register[t].pc \in {"composed", "body_written"}
      => s = t

(* "Anywhere the substrate stamps a moment-of-build (... fingerprint        *)
(* registry `timestamp` ...) flows through format_rfc3339_utc": the         *)
(* register command's own timestamp is accepted by append.                  *)
OwnTimestampAccepted == \A s \in Sites : register[s].exit # "bad_timestamp"
=============================================================================
