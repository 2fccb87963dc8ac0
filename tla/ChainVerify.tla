----------------------------- MODULE ChainVerify -----------------------------
(***************************************************************************)
(* `forge verify --chain --signatures` running beside the builds of        *)
(* BuildChain: it lists the report files once, reads them one by one in    *)
(* name order, skips the ones that do not parse, walks the rest with       *)
(* attest::verify_chain and then checks the signatures.                    *)
(***************************************************************************)
EXTENDS BuildChain, SequencesExt

VARIABLES
  entries,   \* the report files listed, in name order
  walked,    \* the numbers of the reports that parsed, in the same order
  names,     \* the files `walked` came from
  cursor,    \* files read so far
  verdict    \* what the last run printed

verifyVars == <<entries, walked, names, cursor, verdict>>
allVars    == <<vars, verifyVars>>

NotRun == [kind |-> "not_run", at |-> 0]

VerifyInit ==
  /\ Init
  /\ entries = <<>> /\ walked = <<>> /\ names = <<>> /\ cursor = 0
  /\ verdict = NotRun

-----------------------------------------------------------------------------
(* attest::verify_chain on the reports numbered c[1], c[2], ... *)

\* Mutants of Defect: expects equal lengths; leaves out the hash comparison.
DefectOffByOne(c, i) ==
  LET r == sealed[c[i]] IN
  IF i = 1 THEN (IF r.prev # NoReport THEN "GenesisHasPrev" ELSE "ok")
  ELSE IF r.len # sealed[c[i - 1]].len THEN "SequenceGap" ELSE "ok"
DefectNoHash(c, i) ==
  LET r == sealed[c[i]] IN
  IF i = 1 THEN (IF r.prev # NoReport THEN "GenesisHasPrev" ELSE "ok")
  ELSE IF r.len # sealed[c[i - 1]].len + 1 THEN "SequenceGap"
  ELSE IF r.prev = NoReport THEN "MissingPrev" ELSE "ok"

Defect(c, i) ==
  LET r == sealed[c[i]] IN
  IF i = 1 THEN (IF r.prev # NoReport THEN "GenesisHasPrev" ELSE "ok")
  ELSE IF r.len # sealed[c[i - 1]].len + 1 THEN "SequenceGap"
  ELSE IF r.prev = NoReport THEN "MissingPrev"
  ELSE IF r.prev # c[i - 1] THEN "Broken"
  ELSE "ok"

First(S) == CHOOSE i \in S : \A j \in S : i <= j

ChainVerdict(c) ==
  LET bad == {i \in 1..Len(c) : Defect(c, i) # "ok"} IN
  IF bad = {} THEN [kind |-> "ok", at |-> 0]
  ELSE [kind |-> Defect(c, First(bad)), at |-> First(bad)]

(* The signature pass, entered when the chain is intact. *)
SignatureVerdict(c) ==
  LET bad == {i \in 1..Len(c) : sealed[c[i]].signer \notin {Unsigned, pubFile}} IN
  IF pubFile = Absent THEN [kind |-> "no_pubkey", at |-> 0]
  ELSE IF pubFile = Torn THEN [kind |-> "bad_pubkey", at |-> 0]
  ELSE IF bad = {} THEN [kind |-> "ok", at |-> 0]
  ELSE [kind |-> "bad_signature", at |-> First(bad)]

(* chain_error_index, counted from 1; 0 for None. *)
ErrorIndex(v) ==
  CASE v.kind = "Broken" -> v.at - 1
    [] v.kind \in {"SequenceGap", "MissingPrev"} -> v.at
    [] OTHER -> 0

(* The file the operator is told to open: the error's index looked up in the *)
(* list of files, which still holds the skipped ones.                        *)
BadPath(v) == entries[ErrorIndex(v)]

-----------------------------------------------------------------------------

(* `q` lists the report files in name order. *)
IsListing(q) ==
  /\ ToSet(q) = {s \in Seconds : dir[s] # Absent}
  /\ \A i, j \in DOMAIN q : i < j => q[i] < q[j]

StartVerify ==
  /\ verdict.kind # "running"
  /\ \E n \in 0..MaxClock : \E q \in [1..n -> Seconds] : IsListing(q) /\ entries' = q
  /\ walked' = <<>> /\ names' = <<>> /\ cursor' = 0
  /\ verdict' = [kind |-> IF entries' = <<>> THEN "empty" ELSE "running", at |-> 0]
  /\ UNCHANGED vars

(* Read one file: a report that does not parse is skipped; one that was torn  *)
(* inside a character is not UTF-8 and read_to_string ends the run.           *)
ReadReport ==
  /\ verdict.kind = "running"
  /\ cursor < Len(entries)
  /\ cursor' = cursor + 1
  /\ LET s == entries[cursor + 1] IN
     IF Parses(dir[s])
     THEN /\ walked' = Append(walked, dir[s])
          /\ names' = Append(names, s)
          /\ UNCHANGED verdict
     ELSE /\ \E fatal \in BOOLEAN :
               verdict' = IF fatal THEN [kind |-> "unreadable", at |-> 0] ELSE verdict
          /\ UNCHANGED <<walked, names>>
  /\ UNCHANGED <<vars, entries>>

WalkChain ==
  /\ verdict.kind = "running"
  /\ cursor = Len(entries)
  /\ verdict' = IF ChainVerdict(walked).kind = "ok" THEN SignatureVerdict(walked)
                ELSE ChainVerdict(walked)
  /\ UNCHANGED <<vars, entries, walked, names, cursor>>

VerifyNext == StartVerify \/ ReadReport \/ WalkChain

SystemNext == (Next /\ UNCHANGED verifyVars) \/ VerifyNext

VerifySpec == VerifyInit /\ [][SystemNext]_allVars

-----------------------------------------------------------------------------
(* Properties. *)

ChainPassed == verdict.kind \in {"ok", "no_pubkey", "bad_pubkey", "bad_signature"}

(* When builds run one at a time in distinct seconds, verify (even while a    *)
(* build is writing) reports a broken chain only right after a report file    *)
(* it skipped, and then as a SequenceGap whose chain restarts at length 1.    *)
FailsOnlyAtTear ==
  verdict.kind \in {"GenesisHasPrev", "SequenceGap", "MissingPrev", "Broken"} =>
    /\ verdict.kind = "SequenceGap"
    /\ sealed[walked[verdict.at]].len = 1
    /\ \E s \in ToSet(entries) \ ToSet(names) :
         names[verdict.at - 1] < s /\ s < names[verdict.at]

(* A set of reports that holds the parent of each. *)
ClosedUnderPrev(S) ==
  \A j \in S : sealed[j].prev # NoReport => sealed[j].prev \in S

(* The reports `i` descends from, itself included. *)
Ancestors(i) ==
  {j \in 1..Len(sealed) :
     \A S \in SUBSET (1..Len(sealed)) : i \in S /\ ClosedUnderPrev(S) => j \in S}

(* A chain verify calls intact is the whole history of its head: no ancestor  *)
(* is missing and no unrelated report is among the ones it walked, whatever   *)
(* was written, overwritten or torn while verify was reading.                 *)
IntactIsWholeHistory ==
  ChainPassed /\ walked # <<>> =>
    ToSet(walked) = Ancestors(walked[Len(walked)])

(* A signature fails only after an init was forced or two of them overlapped: *)
(* until then a build signs, at whatever moment it reads the key and wherever *)
(* an init was killed, only with a key whose public half is the one installed *)
(* or about to be installed.                                                  *)
SignaturesVerify == ~disturbed => verdict.kind # "bad_signature"

-----------------------------------------------------------------------------
(* What comments and docs of the code say and TLC refutes (the README lists *)
(* each with its runs or its settings).                                     *)

(* The path printed with a sequence gap is the report whose chain_length is   *)
(* wrong.                                                                     *)
GapNamesItsReport ==
  verdict.kind = "SequenceGap" => BadPath(verdict) = names[verdict.at]

(* A report that does not parse does not make verify fail: the chain is       *)
(* verified from the next valid entry.                                        *)
TornReportTolerated ==
  verdict.kind \notin {"GenesisHasPrev", "SequenceGap", "MissingPrev", "Broken"}

NoInitRunning == \A a \in Attesters : ~Attests(a)

(* What verify prints when the public key is missing, "run `forge attest      *)
(* init`", works: while no init is running, init would not refuse.            *)
MissingPubkeyCanBeInitialised ==
  verdict.kind = "no_pubkey" /\ pubFile = Absent /\ NoInitRunning => keyFile = Absent

(* "Refuses to overwrite an existing key without --force": without --force    *)
(* the two key files, once nobody writes them, are the halves of one pair.    *)
PairInstalled ==
  Parses(keyFile) /\ Parses(pubFile) /\ NoInitRunning => pubFile = keyFile
=============================================================================
