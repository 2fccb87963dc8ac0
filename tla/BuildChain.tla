------------------------------ MODULE BuildChain ------------------------------
(***************************************************************************)
(* The Merkle-chained report store of `forge build`: the directory         *)
(* reports/ with one build-<second>.json per build, reports/latest.json,   *)
(* and the Ed25519 key pair `forge attest init` installs there.            *)
(*                                                                         *)
(* A build process stamps itself with the wall clock, runs its phases,     *)
(* reads the newest report, chains to it (attest::chain_step), signs if a  *)
(* key is installed, and writes its report and then latest.json with       *)
(* std::fs::write, which truncates first and fills afterwards: both steps  *)
(* are separate here, so that a reader or a crash can fall between them.   *)
(*                                                                         *)
(* Reports are numbered in the order they are composed; the number stands  *)
(* for the report's bytes, so it is also its SHA-256 (two reports with     *)
(* equal bytes would be the same report) and `prev` is the number of the   *)
(* report whose hash is recorded, NoReport for prev_hash = None.           *)
(***************************************************************************)
EXTENDS Naturals, Sequences

CONSTANTS
  Builders,     \* concurrent `forge build` / `forge watch` processes
  Attesters,    \* concurrent `forge attest init` processes
  MaxClock,     \* bound: the clock counts seconds 1..MaxClock
  MaxReports,   \* bound: reports composed in a behaviour
  MaxKeys,      \* bound: key pairs generated in a behaviour
  OneAtATime,   \* environment: no build starts while another one runs
  FreshSecond,  \* environment: no two builds start in the same second
  Faults,       \* environment: processes crash and writes fail
  AllowForce,   \* environment: `forge attest init --force` is used
  Absent,       \* no such file
  Torn          \* truncated or partly written: does not parse

ASSUME BoundsAssumption == MaxClock \in Nat \ {0} /\ MaxReports \in Nat /\ MaxKeys \in Nat
ASSUME EnvironmentAssumption ==
  {OneAtATime, FreshSecond, Faults, AllowForce} \subseteq BOOLEAN
ASSUME ContentsAssumption == Absent \notin Nat /\ Torn \notin Nat /\ Absent # Torn

NoReport == 0           \* prev_hash = None
Unsigned == 0           \* signature = None
NoKey    == 0

Seconds  == 1..MaxClock
Report   == [prev: Nat, len: Nat, signer: Nat, stamp: Seconds]

VARIABLES
  clock,      \* wall clock in whole seconds
  sealed,     \* every report ever composed, in order; sealed[i] has hash i
  dir,        \* build-<second>.json: second -> Absent, Torn or a report number
  latest,     \* latest.json: Absent, Torn or a report number
  build,      \* builder -> its process state
  keyFile,    \* attest-key.b64: Absent, Torn or a key number
  pubFile,    \* attest-pubkey.b64: Absent, Torn or a key number
  attest,     \* attester -> its process state
  keys,       \* key pairs generated so far
  disturbed   \* history: an init was forced, or began beside another one

chainVars == <<sealed, dir, latest, build>>
keyVars   == <<keyFile, pubFile, attest, keys, disturbed>>
vars      == <<clock, chainVars, keyVars>>

BuildState == [pc: {"idle", "phases", "chained", "sealed", "filling",
                    "report_written", "filling_latest"},
               stamp: 0..MaxClock, prev: Nat, len: Nat, id: Nat]
Idle       == [pc |-> "idle", stamp |-> 0, prev |-> 0, len |-> 0, id |-> 0]
Attesting  == [pc: {"idle", "generated", "filling_key", "key_written",
                    "filling_pub"}, key: Nat]
NotAttesting == [pc |-> "idle", key |-> NoKey]

Contents == {Absent, Torn} \union Nat

TypeOK ==
  /\ clock \in Seconds
  /\ sealed \in Seq(Report)
  /\ dir \in [Seconds -> Contents]
  /\ latest \in Contents
  /\ build \in [Builders -> BuildState]
  /\ keyFile \in Contents
  /\ pubFile \in Contents
  /\ attest \in [Attesters -> Attesting]
  /\ keys \in Nat
  /\ disturbed \in BOOLEAN

Init ==
  /\ clock = 1
  /\ sealed = <<>>
  /\ dir = [s \in Seconds |-> Absent]
  /\ latest = Absent
  /\ build = [b \in Builders |-> Idle]
  /\ keyFile = Absent
  /\ pubFile = Absent
  /\ attest = [a \in Attesters |-> NotAttesting]
  /\ keys = 0
  /\ disturbed = FALSE

-----------------------------------------------------------------------------
(* Reading the store. *)

Parses(file) == file \notin {Absent, Torn}

IsNewest(s) == dir[s] # Absent /\ \A t \in Seconds : t > s => dir[t] = Absent

\* Mutant of NewestPrior: the listing's order is reversed.
OldestPrior(p) ==
  \/ \E s \in Seconds :
       /\ dir[s] # Absent /\ \A t \in Seconds : t < s => dir[t] = Absent
       /\ p = (IF Parses(dir[s]) THEN dir[s] ELSE NoReport)
  \/ (\A s \in Seconds : dir[s] = Absent) /\ p = NoReport

(* load_newest_prior_report: the file with the greatest name; a missing     *)
(* directory, an unreadable file and a parse error all give None.           *)
NewestPrior(p) ==
  \/ \E s \in Seconds : IsNewest(s) /\ p = (IF Parses(dir[s]) THEN dir[s] ELSE NoReport)
  \/ (\A s \in Seconds : dir[s] = Absent) /\ p = NoReport

\* Mutant of NextLength: counts reports instead of following the prior one.
CountedLength(p) == Len(sealed) + 1

(* chain_step: the length that follows a prior report. *)
NextLength(p) == IF p = NoReport THEN 1 ELSE sealed[p].len + 1

InFlight(b) == build[b].pc # "idle"

-----------------------------------------------------------------------------
(* The build process. *)

Tick == clock < MaxClock /\ clock' = clock + 1 /\ UNCHANGED <<chainVars, keyVars>>

\* Mutants of Stamp: rounds up; names reports by a coarser unit.
StampRoundedUp == clock + 1
StampCoarse    == (clock + 1) \div 2

(* current_rfc3339_utc: whole seconds, the fraction dropped. *)
Stamp == clock

(* The start of run(): `started` is taken from the clock before the phases. *)
StartBuild(b) ==
  /\ ~InFlight(b)
  /\ OneAtATime => \A c \in Builders : ~InFlight(c)
  /\ FreshSecond => /\ dir[clock] = Absent
                    /\ \A c \in Builders : InFlight(c) => build[c].stamp # clock
  /\ build' = [build EXCEPT ![b].pc = "phases", ![b].stamp = Stamp]
  /\ UNCHANGED <<clock, sealed, dir, latest, keyVars>>

(* A phase returns Err: run() propagates it and writes nothing. *)
PhaseError(b) ==
  /\ build[b].pc = "phases"
  /\ build' = [build EXCEPT ![b] = Idle]
  /\ UNCHANGED <<clock, sealed, dir, latest, keyVars>>

(* The phases are done: read the newest report and chain to it. *)
ChainStep(b) ==
  /\ build[b].pc = "phases"
  /\ \E p \in 0..Len(sealed) :
       /\ NewestPrior(p)
       /\ build' = [build EXCEPT ![b].pc = "chained", ![b].prev = p,
                                 ![b].len = NextLength(p)]
  /\ UNCHANGED <<clock, sealed, dir, latest, keyVars>>

(* Sign with the installed key; a missing or undecodable key file gives an   *)
(* unsigned report. From here on the report's bytes are fixed.               *)
SealReport(b) ==
  /\ build[b].pc = "chained"
  /\ Len(sealed) < MaxReports
  /\ sealed' = Append(sealed,
       [prev |-> build[b].prev, len |-> build[b].len, stamp |-> build[b].stamp,
        signer |-> IF Parses(keyFile) THEN keyFile ELSE Unsigned])
  /\ build' = [build EXCEPT ![b].pc = "sealed", ![b].id = Len(sealed) + 1]
  /\ UNCHANGED <<clock, dir, latest, keyVars>>

(* fs::write(build_path): create or truncate. *)
OpenReport(b) ==
  /\ build[b].pc = "sealed"
  /\ dir' = [dir EXCEPT ![build[b].stamp] = Torn]
  /\ build' = [build EXCEPT ![b].pc = "filling"]
  /\ UNCHANGED <<clock, sealed, latest, keyVars>>

(* fs::write(build_path): the bytes arrive. If another process truncated and  *)
(* filled the same file in between, the two texts overlap and the result      *)
(* parses only if this one covers the other.                                  *)
FillReport(b) ==
  /\ build[b].pc = "filling"
  /\ \E c \in {build[b].id} \union (IF Parses(dir[build[b].stamp]) THEN {Torn} ELSE {}) :
       dir' = [dir EXCEPT ![build[b].stamp] = c]
  /\ build' = [build EXCEPT ![b].pc = "report_written"]
  /\ UNCHANGED <<clock, sealed, latest, keyVars>>

\* Mutant of OpenLatest: does not wait for the report to be written.
OpenLatestEarly(b) ==
  /\ build[b].pc \in {"filling", "report_written"}
  /\ latest' = Torn
  /\ build' = [build EXCEPT ![b].pc = "filling_latest"]
  /\ UNCHANGED <<clock, sealed, dir, keyVars>>

(* fs::write(latest_path), only after the report was written; errors ignored. *)
OpenLatest(b) ==
  /\ build[b].pc = "report_written"
  /\ latest' = Torn
  /\ build' = [build EXCEPT ![b].pc = "filling_latest"]
  /\ UNCHANGED <<clock, sealed, dir, keyVars>>

FillLatest(b) ==
  /\ build[b].pc = "filling_latest"
  /\ \E c \in {build[b].id} \union (IF Parses(latest) THEN {Torn} ELSE {}) : latest' = c
  /\ build' = [build EXCEPT ![b] = Idle]
  /\ UNCHANGED <<clock, sealed, dir, keyVars>>

(* A write fails or the process dies: the files stay as they are. In every    *)
(* state from "sealed" on a failed write ends the build with its verdict; in  *)
(* every state a kill ends it.                                                *)
StopEarly(b) ==
  /\ Faults
  /\ InFlight(b)
  /\ build' = [build EXCEPT ![b] = Idle]
  /\ UNCHANGED <<clock, sealed, dir, latest, keyVars>>

-----------------------------------------------------------------------------
(* `forge attest init [--force]`. Nothing keeps two of them apart: each looks *)
(* for the key file once and writes the two files later. Every key and every  *)
(* public key has the same length, so of two overlapping writes of one file   *)
(* the later one is what it holds.                                            *)

Attests(a) == attest[a].pc # "idle"

(* A new pair for `a`; the history notes an init that takes its key while     *)
(* another one is installing.                                                 *)
NewPair(a) ==
  /\ ~Attests(a)
  /\ keys < MaxKeys
  /\ keys' = keys + 1
  /\ attest' = [attest EXCEPT ![a] = [pc |-> "generated", key |-> keys + 1]]
  /\ UNCHANGED <<clock, chainVars, keyFile, pubFile>>

\* Mutant of GenerateKey: replaces an existing key unasked.
GenerateKeyAlways(a, force) ==
  /\ force => AllowForce
  /\ NewPair(a)
  /\ disturbed' = (disturbed \/ force \/ \E c \in Attesters : Attests(c))

(* Without --force an existing key file, whatever it holds, is refused.       *)
GenerateKey(a, force) ==
  /\ force => AllowForce
  /\ keyFile = Absent \/ force
  /\ NewPair(a)
  /\ disturbed' = (disturbed \/ force \/ \E c \in Attesters : Attests(c))

AttestStep(a, from, to) ==
  /\ attest[a].pc = from
  /\ attest' = [attest EXCEPT ![a].pc = to]
  /\ UNCHANGED <<clock, chainVars, keys, disturbed>>

OpenKey(a) ==
  /\ AttestStep(a, "generated", "filling_key")
  /\ keyFile' = Torn
  /\ UNCHANGED pubFile

FillKey(a) ==
  /\ AttestStep(a, "filling_key", "key_written")
  /\ keyFile' = attest[a].key
  /\ UNCHANGED pubFile

OpenPub(a) ==
  /\ AttestStep(a, "key_written", "filling_pub")
  /\ pubFile' = Torn
  /\ UNCHANGED keyFile

FillPub(a) ==
  /\ attest[a].pc = "filling_pub"
  /\ pubFile' = attest[a].key
  /\ attest' = [attest EXCEPT ![a] = NotAttesting]
  /\ UNCHANGED <<clock, chainVars, keyFile, keys, disturbed>>

(* A write fails or the process dies: the files stay as they are.             *)
StopAttest(a) ==
  /\ Faults
  /\ Attests(a)
  /\ attest' = [attest EXCEPT ![a] = NotAttesting]
  /\ UNCHANGED <<clock, chainVars, keyFile, pubFile, keys, disturbed>>

-----------------------------------------------------------------------------

BuildStep(b) ==
  \/ StartBuild(b)
  \/ PhaseError(b)
  \/ ChainStep(b)
  \/ SealReport(b)
  \/ OpenReport(b)
  \/ FillReport(b)
  \/ OpenLatest(b)
  \/ FillLatest(b)
  \/ StopEarly(b)

AttestInit(a) ==
  \/ \E force \in BOOLEAN : GenerateKey(a, force)
  \/ OpenKey(a)
  \/ FillKey(a)
  \/ OpenPub(a)
  \/ FillPub(a)
  \/ StopAttest(a)

Next ==
  \/ Tick
  \/ \E a \in Attesters : AttestInit(a)
  \/ \E b \in Builders : BuildStep(b)

Spec == Init /\ [][Next]_vars

-----------------------------------------------------------------------------
(* Properties. *)

(* The length a report claims is its depth in the tree of prev links, and    *)
(* its parent was composed before it, however builds interleave, collide or  *)
(* crash: a chain never has a cycle and never links to bytes nobody wrote.   *)
DepthIsLength ==
  \A i \in 1..Len(sealed) :
    LET r == sealed[i] IN
      IF r.prev = NoReport THEN r.len = 1
      ELSE r.prev < i /\ r.len = sealed[r.prev].len + 1

(* The file just before `s` in name order. *)
IsBefore(u, s) ==
  /\ u < s
  /\ dir[u] # Absent
  /\ \A v \in Seconds : u < v /\ v < s => dir[v] = Absent

(* A report with prev hash `p` and chain_length `l` in the file of second `s` *)
(* continues the file before it, or restarts the chain where the file before  *)
(* it does not parse or there is none.                                        *)
Follows(s, p, l) ==
  \/ \E u \in Seconds :
       /\ IsBefore(u, s) /\ Parses(dir[u])
       /\ p = dir[u] /\ l = sealed[dir[u]].len + 1
  \/ /\ \A u \in Seconds : IsBefore(u, s) => ~Parses(dir[u])
     /\ p = NoReport /\ l = 1

(* Between two torn files the store is one intact chain: with builds one at   *)
(* a time in distinct seconds, every report links to the report in the file   *)
(* before its own, and a chain restarts only after an unreadable file.        *)
Linked ==
  \A s \in Seconds : Parses(dir[s]) =>
    Follows(s, sealed[dir[s]].prev, sealed[dir[s]].len)

(* latest.json, when it can be read, is a report that is also in the trail:   *)
(* it is written only after its build-<second>.json, and nothing is removed.  *)
LatestIsInTrail == Parses(latest) => \E s \in Seconds : dir[s] = latest

(* The report files implement the append-only trail: a report is visible once *)
(* its file parses, later in name order than every visible report, linked to  *)
(* the newest one or starting afresh, and it never changes again.             *)
Unpublished == [id |-> NoReport, prev |-> NoReport, len |-> 0]

Published ==
  [s \in Seconds |->
    IF Parses(dir[s])
    THEN [id |-> dir[s], prev |-> sealed[dir[s]].prev, len |-> sealed[dir[s]].len]
    ELSE Unpublished]

Trail == INSTANCE AuditTrail WITH trail <- Published, Nothing <- Unpublished

AppendOnlyTrail == Trail!Spec
=============================================================================
