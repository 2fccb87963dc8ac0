-------------------------- MODULE BuildChainProofs --------------------------
(***************************************************************************)
(* Proofs about the report store: its types, the depth invariant that      *)
(* holds under every interleaving and crash, and the linkage of the files  *)
(* when builds run one at a time in distinct seconds.                      *)
(***************************************************************************)
EXTENDS BuildChain, TLAPS

-----------------------------------------------------------------------------
(* Type correctness, strengthened: every number on disk or in a process     *)
(* names a report that was composed.                                        *)

RefsOK ==
  /\ \A s \in Seconds : Parses(dir[s]) => dir[s] \in 1..Len(sealed)
  /\ \A b \in Builders :
       /\ build[b].pc # "idle" => build[b].stamp \in Seconds
       /\ build[b].prev \in 0..Len(sealed)
       /\ build[b].pc \in {"sealed", "filling", "report_written", "filling_latest"}
            => build[b].id \in 1..Len(sealed)

TypeInv == TypeOK /\ RefsOK

LEMMA ReportFields ==
  ASSUME TypeOK, NEW i \in 1..Len(sealed)
  PROVE  sealed[i] \in Report /\ sealed[i].len \in Nat /\ sealed[i].prev \in Nat
  <1>1. sealed[i] \in Report
    BY DEF TypeOK
  <1> QED
    BY <1>1 DEF Report

LEMMA InitTypeInv == Init => TypeInv
  <1> SUFFICES ASSUME Init PROVE TypeInv
    OBVIOUS
  <1>1. attest \in [Attesters -> Attesting] /\ disturbed \in BOOLEAN
    BY DEF Init, Attesting, NotAttesting, NoKey
  <1> QED
    BY <1>1, BoundsAssumption, ContentsAssumption
    DEF Init, TypeInv, TypeOK, RefsOK, Seconds, Contents, BuildState, Idle, Parses, Report

LEMMA BuildStepTypeInv ==
  ASSUME TypeInv, NEW b \in Builders, BuildStep(b) PROVE TypeInv'
  <1> USE BoundsAssumption, ContentsAssumption DEF TypeInv, TypeOK, RefsOK
  <1>0. build[b] \in BuildState /\ Len(sealed) \in Nat
    OBVIOUS
  <1>1. CASE StartBuild(b)
    <2>0. clock \in 0..MaxClock
      BY DEF Seconds
    <2>1. [build[b] EXCEPT !.pc = "phases", !.stamp = clock] \in BuildState
      BY <1>0, <2>0 DEF BuildState
    <2>2. build' = [build EXCEPT ![b] = [build[b] EXCEPT !.pc = "phases", !.stamp = clock]]
      BY <1>1, <1>0 DEF StartBuild, Stamp, BuildState
    <2>3. build' \in [Builders -> BuildState]
      BY <2>1, <2>2
    <2> QED
      BY <1>1, <2>3 DEF StartBuild, Stamp, keyVars, BuildState
  <1>2. CASE PhaseError(b)
    BY <1>2 DEF PhaseError, Idle, BuildState, keyVars
  <1>3. CASE ChainStep(b)
    <2>1. PICK p \in 0..Len(sealed) :
            build' = [build EXCEPT ![b].pc = "chained", ![b].prev = p,
                                   ![b].len = NextLength(p)]
      BY <1>3 DEF ChainStep
    <2>2. NextLength(p) \in Nat
      BY ReportFields DEF NextLength, NoReport
    <2> DEFINE r == [build[b] EXCEPT !.pc = "chained", !.prev = p, !.len = NextLength(p)]
    <2>a. p \in Nat
      BY <1>0
    <2>b. r \in BuildState
      BY <1>0, <2>2, <2>a DEF BuildState
    <2>c. build' = [build EXCEPT ![b] = r]
      BY <1>0, <2>1 DEF BuildState
    <2>3. build' \in [Builders -> BuildState]
      BY <2>b, <2>c
    <2> QED
      BY <1>3, <2>1, <2>3 DEF ChainStep, keyVars, BuildState
  <1>4. CASE SealReport(b)
    <2> DEFINE r == [prev |-> build[b].prev, len |-> build[b].len,
                     stamp |-> build[b].stamp,
                     signer |-> IF Parses(keyFile) THEN keyFile ELSE Unsigned]
    <2>1. r \in Report
      BY <1>4, <1>0 DEF SealReport, Report, Unsigned, BuildState, Parses, Contents
    <2>2. sealed' = Append(sealed, r)
      BY <1>4 DEF SealReport
    <2> HIDE DEF r
    <2>3. sealed' \in Seq(Report) /\ Len(sealed') = Len(sealed) + 1
      BY <2>1, <2>2
    <2> DEFINE q == [build[b] EXCEPT !.pc = "sealed", !.id = Len(sealed) + 1]
    <2>d. ASSUME NEW n \in Nat PROVE [build[b] EXCEPT !.pc = "sealed", !.id = n] \in BuildState
      BY <1>0 DEF BuildState
    <2>e. Len(sealed) + 1 \in Nat
      BY <1>0
    <2>a. q \in BuildState
      BY <2>d, <2>e
    <2>c. build' = [build EXCEPT ![b].pc = "sealed", ![b].id = Len(sealed) + 1]
      BY <1>4 DEF SealReport
    <2>b. build' = [build EXCEPT ![b] = q]
      BY <1>0, <2>c DEF BuildState
    <2>4. build' \in [Builders -> BuildState]
      BY <2>a, <2>b
    <2>5. TypeOK'
      BY <1>4, <2>3, <2>4 DEF SealReport, keyVars
    <2>6. RefsOK'
      BY <1>4, <2>3, <1>0 DEF SealReport, BuildState
    <2> QED
      BY <2>5, <2>6
  <1>5. CASE OpenReport(b)
    BY <1>5, <1>0 DEF OpenReport, keyVars, BuildState, Contents, Parses
  <1>6. CASE FillReport(b)
    <2>1. PICK c \in {build[b].id, Torn} :
            dir' = [dir EXCEPT ![build[b].stamp] = c]
      BY <1>6 DEF FillReport
    <2>2. build[b].id \in 1..Len(sealed) /\ build[b].stamp \in Seconds
      BY <1>6 DEF FillReport
    <2>3. dir' \in [Seconds -> Contents]
      BY <2>1, <2>2, <1>0 DEF Contents
    <2>4. build' \in [Builders -> BuildState]
      BY <1>0, <1>6 DEF FillReport, BuildState
    <2>5. \A s \in Seconds : Parses(dir'[s]) => dir'[s] \in 1..Len(sealed)
      BY <2>1, <2>2 DEF Parses
    <2>6. TypeOK'
      BY <1>6, <2>3, <2>4 DEF FillReport, keyVars
    <2>7. RefsOK'
      BY <1>6, <2>5, <1>0 DEF FillReport, BuildState, Parses
    <2> QED
      BY <2>6, <2>7
  <1>7. CASE OpenLatest(b)
    BY <1>7, <1>0 DEF OpenLatest, keyVars, BuildState, Contents
  <1>8. CASE FillLatest(b)
    BY <1>8, <1>0 DEF FillLatest, Idle, BuildState, keyVars, Contents
  <1>9. CASE StopEarly(b)
    BY <1>9 DEF StopEarly, Idle, BuildState, keyVars
  <1> QED
    BY <1>1, <1>2, <1>3, <1>4, <1>5, <1>6, <1>7, <1>8, <1>9 DEF BuildStep

(* `attest init` touches nothing but the key pair. *)
LEMMA InitKeepsTheStore ==
  (\E a \in Attesters : AttestInit(a)) => UNCHANGED <<clock, chainVars>>
  BY DEF AttestInit, GenerateKey, NewPair, OpenKey, FillKey, OpenPub, FillPub,
    StopAttest, AttestStep

LEMMA NextTypeInv == TypeInv /\ [Next]_vars => TypeInv'
  <1> SUFFICES ASSUME TypeInv, [Next]_vars PROVE TypeInv'
    OBVIOUS
  <1> USE DEF TypeInv, TypeOK, RefsOK
  <1>1. CASE Tick
    BY <1>1, BoundsAssumption DEF Tick, chainVars, keyVars, Seconds
  <1>2. ASSUME NEW a \in Attesters, AttestInit(a) PROVE TypeInv'
    <2>1. attest[a].key \in Nat /\ attest[a] \in Attesting
      BY DEF Attesting
    <2>2. attest' \in [Attesters -> Attesting] /\ keys' \in Nat
      <3>1. CASE \E force \in BOOLEAN : GenerateKey(a, force)
        BY <3>1 DEF GenerateKey, NewPair, Attesting
      <3>2. CASE OpenKey(a) \/ FillKey(a) \/ OpenPub(a)
        <4>1. PICK to \in {"filling_key", "key_written", "filling_pub"} :
                attest' = [attest EXCEPT ![a].pc = to] /\ UNCHANGED keys
          BY <3>2 DEF OpenKey, FillKey, OpenPub, AttestStep
        <4>2. [attest[a] EXCEPT !.pc = to] \in Attesting
          BY <2>1 DEF Attesting
        <4> QED
          BY <4>1, <4>2
      <3>3. CASE FillPub(a) \/ StopAttest(a)
        <4>1. NotAttesting \in Attesting
          BY DEF NotAttesting, Attesting, NoKey
        <4> QED
          BY <3>3, <4>1 DEF FillPub, StopAttest
      <3> QED
        BY <1>2, <3>1, <3>2, <3>3 DEF AttestInit
    <2>3. disturbed' \in BOOLEAN
      <3>1. ASSUME NEW force \in BOOLEAN, GenerateKey(a, force) PROVE disturbed' \in BOOLEAN
        <4> DEFINE beside == \E c \in Attesters : Attests(c)
        <4>1. disturbed' = (disturbed \/ force \/ beside)
          BY <3>1 DEF GenerateKey
        <4> HIDE DEF beside
        <4> QED
          BY <4>1
      <3>2. \/ \E force \in BOOLEAN : GenerateKey(a, force)
            \/ disturbed' = disturbed
        BY <1>2 DEF AttestInit, OpenKey, FillKey, OpenPub, FillPub, StopAttest, AttestStep
      <3> QED
        BY <3>1, <3>2
    <2>4. keyFile' \in Contents /\ pubFile' \in Contents
      BY <1>2, <2>1 DEF AttestInit, GenerateKey, NewPair, OpenKey, FillKey, OpenPub,
        FillPub, StopAttest, AttestStep, Contents
    <2>5. UNCHANGED <<clock, chainVars>>
      BY <1>2, InitKeepsTheStore
    <2> QED
      BY <2>2, <2>3, <2>4, <2>5 DEF chainVars, Parses
  <1>3. ASSUME NEW b \in Builders, BuildStep(b) PROVE TypeInv'
    BY <1>3, BuildStepTypeInv
  <1>4. CASE UNCHANGED vars
    BY <1>4 DEF vars, chainVars, keyVars
  <1> QED
    BY <1>1, <1>2, <1>3, <1>4 DEF Next

(* Every variable of the report store keeps its type. *)
THEOREM TypeCorrect == Spec => []TypeOK
  <1>1. TypeInv => TypeOK
    BY DEF TypeInv
  <1> QED
    BY InitTypeInv, NextTypeInv, <1>1, PTL DEF Spec

-----------------------------------------------------------------------------
(* Depth. The invariant adds that a process that has chained still holds the *)
(* length its prior report calls for: reports are only ever appended.        *)

ChainedLength ==
  \A b \in Builders :
    build[b].pc = "chained" => build[b].len = NextLength(build[b].prev)

DepthInv == TypeInv /\ DepthIsLength /\ ChainedLength

LEMMA SealKeepsDepth ==
  ASSUME DepthInv, NEW b \in Builders, SealReport(b), TypeInv'
  PROVE  DepthInv'
  <1> DEFINE r == [prev |-> build[b].prev, len |-> build[b].len,
                   stamp |-> build[b].stamp,
                   signer |-> IF Parses(keyFile) THEN keyFile ELSE Unsigned]
             n == Len(sealed)
  <1>1. sealed' = Append(sealed, r) /\ build[b].pc = "chained"
    BY DEF SealReport
  <1>2. r.prev = build[b].prev /\ r.len = build[b].len
    OBVIOUS
  <1>3. n \in Nat /\ build[b].prev \in 0..n /\ r.len = NextLength(r.prev)
    BY <1>1, <1>2 DEF DepthInv, TypeInv, TypeOK, RefsOK, ChainedLength
  <1>4. sealed \in Seq(Report)
    BY DEF DepthInv, TypeInv, TypeOK
  <1> HIDE DEF r
  <1>5. /\ Len(sealed') = n + 1
        /\ \A i \in 1..n : sealed'[i] = sealed[i]
        /\ sealed'[n + 1] = r
    BY <1>1, <1>4
  <1>6. DepthIsLength'
    <2> SUFFICES ASSUME NEW i \in 1..(n + 1)
        PROVE IF sealed'[i].prev = NoReport THEN sealed'[i].len = 1
              ELSE /\ sealed'[i].prev < i
                   /\ sealed'[i].len = sealed'[sealed'[i].prev].len + 1
      BY <1>5 DEF DepthIsLength
    <2>1. CASE i = n + 1
      BY <2>1, <1>2, <1>3, <1>5 DEF NextLength, NoReport
    <2>2. CASE i \in 1..n
      <3>1. sealed[i].prev \in Nat
        BY <2>2, ReportFields DEF DepthInv, TypeInv
      <3> QED
        BY <2>2, <3>1, <1>3, <1>5 DEF DepthInv, DepthIsLength, NoReport
    <2> QED
      BY <2>1, <2>2, <1>3
  <1>7. ChainedLength'
    <2> SUFFICES ASSUME NEW c \in Builders, build'[c].pc = "chained"
        PROVE build'[c].len = IF build'[c].prev = NoReport THEN 1
                              ELSE sealed'[build'[c].prev].len + 1
      BY DEF ChainedLength, NextLength
    <2>1. build' = [build EXCEPT ![b].pc = "sealed", ![b].id = Len(sealed) + 1]
      BY DEF SealReport
    <2>2. c # b /\ build'[c] = build[c]
      BY <2>1 DEF DepthInv, TypeInv, TypeOK, BuildState
    <2>3. build[c].prev \in 0..n /\ build[c].len = NextLength(build[c].prev)
      BY <2>2 DEF DepthInv, TypeInv, RefsOK, ChainedLength
    <2> QED
      BY <2>2, <2>3, <1>3, <1>5 DEF NextLength, NoReport
  <1> QED
    BY <1>6, <1>7 DEF DepthInv

LEMMA NextDepthInv == DepthInv /\ [Next]_vars => DepthInv'
  <1> SUFFICES ASSUME DepthInv, [Next]_vars PROVE DepthInv'
    OBVIOUS
  <1>0. TypeInv /\ TypeInv'
    BY NextTypeInv DEF DepthInv
  <1>1. ASSUME UNCHANGED <<sealed, build>> PROVE DepthInv'
    BY <1>0, <1>1 DEF DepthInv, DepthIsLength, ChainedLength, NextLength
  <1>2. ASSUME NEW b \in Builders, UNCHANGED sealed,
               \A c \in Builders \ {b} : build'[c] = build[c],
               build'[b].pc = "chained" => build'[b].len = NextLength(build'[b].prev)
        PROVE  DepthInv'
    BY <1>0, <1>2 DEF DepthInv, DepthIsLength, ChainedLength, NextLength
  <1>3. ASSUME NEW b \in Builders, BuildStep(b) PROVE DepthInv'
    <2> USE <1>0 DEF TypeInv, TypeOK
    <2>1. CASE StartBuild(b)
      BY <1>2, <2>1 DEF StartBuild, BuildState
    <2>2. CASE PhaseError(b)
      BY <1>2, <2>2 DEF PhaseError, Idle
    <2>3. CASE ChainStep(b)
      BY <1>2, <2>3 DEF ChainStep, BuildState
    <2>4. CASE SealReport(b)
      BY <2>4, SealKeepsDepth
    <2>5. CASE OpenReport(b)
      BY <1>2, <2>5 DEF OpenReport, BuildState
    <2>6. CASE FillReport(b)
      BY <1>2, <2>6 DEF FillReport, BuildState
    <2>7. CASE OpenLatest(b)
      BY <1>2, <2>7 DEF OpenLatest, BuildState
    <2>8. CASE FillLatest(b)
      BY <1>2, <2>8 DEF FillLatest, Idle
    <2>9. CASE StopEarly(b)
      BY <1>2, <2>9 DEF StopEarly, Idle
    <2> QED
      BY <1>3, <2>1, <2>2, <2>3, <2>4, <2>5, <2>6, <2>7, <2>8, <2>9 DEF BuildStep
  <1>4. CASE Tick
    BY <1>1, <1>4 DEF Tick, chainVars
  <1>5. CASE \E a \in Attesters : AttestInit(a)
    BY <1>1, <1>5, InitKeepsTheStore DEF chainVars
  <1>6. CASE UNCHANGED vars
    BY <1>1, <1>6 DEF vars, chainVars
  <1> QED
    BY <1>3, <1>4, <1>5, <1>6 DEF Next

(* The chain_length of every report ever composed is its depth in the tree of *)
(* prev links, under every interleaving of builds and every crash.            *)
THEOREM DepthCorrect == Spec => []DepthIsLength
  <1>1. Init => DepthInv
    BY InitTypeInv DEF Init, DepthInv, DepthIsLength, ChainedLength, Idle
  <1>2. DepthInv => DepthIsLength
    BY DEF DepthInv
  <1> QED
    BY <1>1, NextDepthInv, <1>2, PTL DEF Spec
-----------------------------------------------------------------------------
(***************************************************************************)
(* The report files form intact chains when builds run one at a time in    *)
(* distinct seconds, with processes killed and writes failing at any       *)
(* point. The two premises are the environment's: nothing in forge-cli     *)
(* enforces them.                                                          *)
(***************************************************************************)

Writing == {"phases", "chained", "sealed"}

(* At most one build is in flight. *)
Alone == \A b, c \in Builders : InFlight(b) /\ InFlight(c) => b = c

(* Nothing is stamped in the future. *)
Stamped ==
  /\ \A s \in Seconds : dir[s] # Absent => s <= clock
  /\ \A b \in Builders : InFlight(b) => build[b].stamp <= clock

(* The file of the build in flight is the newest, and what the build holds   *)
(* continues the file before it.                                             *)
Poised(b) ==
  /\ build[b].pc \in Writing =>
       \A s \in Seconds : s >= build[b].stamp => dir[s] = Absent
  /\ build[b].pc = "filling" =>
       /\ dir[build[b].stamp] = Torn
       /\ \A s \in Seconds : s > build[b].stamp => dir[s] = Absent
  /\ build[b].pc = "chained" => Follows(build[b].stamp, build[b].prev, build[b].len)
  /\ build[b].pc \in {"sealed", "filling"} =>
       Follows(build[b].stamp, sealed[build[b].id].prev, sealed[build[b].id].len)

SerialInv ==
  /\ TypeInv
  /\ Alone
  /\ Stamped
  /\ \A b \in Builders : Poised(b)
  /\ Linked

(* What a file follows depends only on the files before it. *)
LEMMA FollowsStable ==
  ASSUME TypeInv, NEW s \in Seconds, NEW p, NEW l, Follows(s, p, l),
         \A u \in Seconds : u < s => dir'[u] = dir[u],
         \A i \in 1..Len(sealed) : sealed'[i] = sealed[i]
  PROVE  Follows(s, p, l)'
  <1>1. \A u \in Seconds : IsBefore(u, s)' <=> IsBefore(u, s)
    BY DEF IsBefore, Seconds
  <1>2. \A u \in Seconds : IsBefore(u, s) => dir'[u] = dir[u]
    BY DEF IsBefore
  <1>3. CASE \E u \in Seconds : /\ IsBefore(u, s) /\ Parses(dir[u])
                               /\ p = dir[u] /\ l = sealed[dir[u]].len + 1
    <2>1. PICK u \in Seconds : /\ IsBefore(u, s) /\ Parses(dir[u])
                               /\ p = dir[u] /\ l = sealed[dir[u]].len + 1
      BY <1>3
    <2>2. dir[u] \in 1..Len(sealed)
      BY <2>1 DEF TypeInv, RefsOK
    <2> QED
      BY <2>1, <2>2, <1>1, <1>2 DEF Follows, Parses
  <1>4. CASE /\ \A u \in Seconds : IsBefore(u, s) => ~Parses(dir[u])
             /\ p = NoReport /\ l = 1
    BY <1>1, <1>2, <1>4 DEF Follows, Parses
  <1> QED
    BY <1>3, <1>4 DEF Follows

(* A file of a second at or after every file follows the newest one. *)
LEMMA NewestIsFollowed ==
  ASSUME TypeInv, NEW s \in Seconds, NEW p, NewestPrior(p),
         \A t \in Seconds : t >= s => dir[t] = Absent
  PROVE  Follows(s, p, NextLength(p))
  <1> USE DEF Seconds
  <1>1. CASE \A t \in Seconds : dir[t] = Absent
    BY <1>1 DEF NewestPrior, IsNewest, Follows, IsBefore, NextLength, NoReport
  <1>2. ASSUME NEW t \in Seconds, IsNewest(t),
               p = (IF Parses(dir[t]) THEN dir[t] ELSE NoReport)
        PROVE  Follows(s, p, NextLength(p))
    <2>1. t < s /\ IsBefore(t, s) /\ \A u \in Seconds : IsBefore(u, s) => u = t
      BY <1>2 DEF IsNewest, IsBefore
    <2>2. CASE Parses(dir[t]) /\ dir[t] # NoReport
      BY <1>2, <2>1, <2>2 DEF Follows, NextLength
    <2>3. CASE ~Parses(dir[t])
      BY <1>2, <2>1, <2>3 DEF Follows, NextLength
    <2>4. Parses(dir[t]) => dir[t] # NoReport
      BY DEF TypeInv, RefsOK, NoReport
    <2> QED
      BY <2>2, <2>3, <2>4
  <1> QED
    BY <1>1, <1>2 DEF NewestPrior

(* Steps that leave the files alone: only the process that moved has to be    *)
(* looked at.                                                                 *)
LEMMA FilesUntouched ==
  ASSUME SerialInv, TypeInv', NEW b \in Builders, UNCHANGED <<sealed, dir>>,
         clock' >= clock, \A c \in Builders \ {b} : build'[c] = build[c],
         Alone', InFlight(b)' => build'[b].stamp <= clock', Poised(b)'
  PROVE  SerialInv'
  <1> USE DEF SerialInv, TypeInv, TypeOK, Seconds
  <1>0. clock \in Nat /\ clock' \in Nat /\ \A c \in Builders : build[c].stamp \in Nat
    BY DEF BuildState
  <1>1. Stamped'
    <2>1. \A s \in Seconds : dir'[s] # Absent => s <= clock'
      BY <1>0 DEF Stamped
    <2>2. ASSUME NEW c \in Builders, InFlight(c)' PROVE build'[c].stamp <= clock'
      <3>1. CASE c = b
        BY <2>2, <3>1
      <3>2. CASE c # b
        <4>1. build'[c] = build[c] /\ build[c].stamp <= clock
          BY <2>2, <3>2 DEF Stamped, InFlight
        <4> QED
          BY <4>1, <1>0
      <3> QED
        BY <3>1, <3>2
    <2> QED
      BY <2>1, <2>2 DEF Stamped
  <1>2. \A c \in Builders : Poised(c)'
    BY DEF Poised, Follows, IsBefore
  <1>3. Linked'
    BY DEF Linked, Follows, IsBefore
  <1> QED
    BY <1>1, <1>2, <1>3

LEMMA AloneStep ==
  ASSUME Alone, TypeInv, NEW b \in Builders,
         \A c \in Builders \ {b} : build'[c] = build[c],
         InFlight(b) \/ \A c \in Builders : ~InFlight(c)
  PROVE  Alone'
  BY DEF Alone, InFlight

LEMMA SealSerial ==
  ASSUME SerialInv, TypeInv', NEW b \in Builders, SealReport(b) PROVE SerialInv'
  <1> DEFINE r == [prev |-> build[b].prev, len |-> build[b].len,
                   stamp |-> build[b].stamp,
                   signer |-> IF Parses(keyFile) THEN keyFile ELSE Unsigned]
             n == Len(sealed)
  <1> USE DEF SerialInv, TypeInv
  <1>1. sealed' = Append(sealed, r) /\ build[b].pc = "chained" /\ dir' = dir /\ clock' = clock
    BY DEF SealReport
  <1>2. r.prev = build[b].prev /\ r.len = build[b].len
    OBVIOUS
  <1>3. n \in Nat /\ sealed \in Seq(Report)
    BY DEF TypeOK
  <1> HIDE DEF r
  <1>4. sealed'[n + 1] = r /\ \A i \in 1..n : sealed'[i] = sealed[i]
    BY <1>1, <1>3
  <1>5. build' = [build EXCEPT ![b].pc = "sealed", ![b].id = n + 1]
    BY DEF SealReport
  <1>6. /\ build'[b].pc = "sealed" /\ build'[b].id = n + 1
        /\ build'[b].stamp = build[b].stamp
        /\ \A c \in Builders \ {b} : build'[c] = build[c]
    BY <1>5 DEF TypeOK, BuildState
  <1>7. build[b].stamp \in Seconds /\ InFlight(b)
    BY <1>1 DEF RefsOK, InFlight
  <1>8. Alone'
    BY <1>6, <1>7, AloneStep
  <1>9. Stamped'
    BY <1>1, <1>6, <1>7 DEF Stamped, InFlight
  <1>10. Poised(b)'
    <2>0. PICK s \in Seconds : s = build[b].stamp
      BY <1>7
    <2>1. PICK p, l : p = r.prev /\ l = r.len /\ Follows(s, p, l)
      BY <1>1, <1>2, <2>0 DEF Poised
    <2>2. Follows(s, p, l)'
      BY <2>1, <1>1, <1>4, FollowsStable
    <2>3. build'[b].stamp = s /\ sealed'[build'[b].id].prev = p /\ sealed'[build'[b].id].len = l
      BY <2>0, <2>1, <1>4, <1>6
    <2>4. Follows(build[b].stamp, sealed[build[b].id].prev, sealed[build[b].id].len)'
      BY <2>2, <2>3
    <2>5. \A t \in Seconds : t >= build'[b].stamp => dir'[t] = Absent
      BY <1>1, <1>6 DEF Poised, Writing
    <2> QED
      BY <2>4, <2>5, <1>6 DEF Poised
  <1>11. ASSUME NEW c \in Builders, c # b PROVE Poised(c)'
    <2>1. build'[c].pc = "idle"
      BY <1>6, <1>7, <1>11 DEF Alone, InFlight
    <2> QED
      BY <2>1 DEF Poised, Writing
  <1>12. Linked'
    <2> SUFFICES ASSUME NEW s \in Seconds, Parses(dir[s])
                 PROVE  Follows(s, sealed[dir[s]].prev, sealed[dir[s]].len)'
      BY <1>1 DEF Linked
    <2>1. dir[s] \in 1..n /\ Follows(s, sealed[dir[s]].prev, sealed[dir[s]].len)
      BY DEF Linked, RefsOK
    <2>2. \A p, l : Follows(s, p, l) => Follows(s, p, l)'
      BY <1>1, <1>4, FollowsStable
    <2>3. sealed'[dir'[s]] = sealed[dir[s]]
      BY <2>1, <1>1, <1>4
    <2> QED
      BY <2>1, <2>2, <2>3
  <1> QED
    BY <1>8, <1>9, <1>10, <1>11, <1>12

LEMMA OpenSerial ==
  ASSUME SerialInv, TypeInv', NEW b \in Builders, OpenReport(b) PROVE SerialInv'
  <1> USE DEF SerialInv, TypeInv
  <1>1. PICK s \in Seconds : s = build[b].stamp
    BY DEF OpenReport, RefsOK
  <1>2. /\ build[b].pc = "sealed" /\ dir' = [dir EXCEPT ![s] = Torn]
        /\ UNCHANGED <<clock, sealed>>
    BY <1>1 DEF OpenReport
  <1>3. /\ build'[b] = [build[b] EXCEPT !.pc = "filling"]
        /\ \A c \in Builders \ {b} : build'[c] = build[c]
    BY DEF OpenReport, TypeOK
  <1>4. /\ build'[b].pc = "filling" /\ build'[b].id = build[b].id
        /\ build'[b].stamp = s
    BY <1>1, <1>3 DEF TypeOK, BuildState
  <1>5. /\ dir'[s] = Torn /\ dir[s] = Absent
        /\ \A t \in Seconds \ {s} : dir'[t] = dir[t]
        /\ \A t \in Seconds : t > s => dir[t] = Absent
    BY <1>1, <1>2 DEF TypeOK, Poised, Writing, Seconds
  <1>6. Alone'
    BY <1>2, <1>3, AloneStep DEF InFlight
  <1>7. Stamped'
    <2>1. s <= clock
      BY <1>1, <1>2 DEF Stamped, InFlight
    <2>2. \A t \in Seconds : dir'[t] # Absent => t <= clock
      BY <2>1, <1>5 DEF Stamped
    <2>3. \A c \in Builders : build'[c].pc # "idle" => build'[c].stamp <= clock
      BY <2>1, <1>3, <1>4 DEF Stamped, InFlight
    <2> QED
      BY <2>2, <2>3, <1>2 DEF Stamped, InFlight
  <1>8. \A t \in Seconds : \A p, l :
          t <= s /\ Follows(t, p, l) => Follows(t, p, l)'
    <2> SUFFICES ASSUME NEW t \in Seconds, NEW p, NEW l, t <= s, Follows(t, p, l)
                 PROVE  Follows(t, p, l)'
      OBVIOUS
    <2>1. \A u \in Seconds : u < t => dir'[u] = dir[u]
      BY <1>5 DEF Seconds
    <2> QED
      BY <2>1, <1>2, FollowsStable
  <1>9. Poised(b)'
    <2>1. PICK p, l : /\ p = sealed[build[b].id].prev /\ l = sealed[build[b].id].len
                      /\ Follows(s, p, l)
      BY <1>1, <1>2 DEF Poised
    <2>2. Follows(s, p, l)'
      BY <2>1, <1>8 DEF Seconds
    <2>3. Follows(build[b].stamp, sealed[build[b].id].prev, sealed[build[b].id].len)'
      BY <2>1, <2>2, <1>2, <1>4
    <2>4. dir'[build'[b].stamp] = Torn
          /\ \A t \in Seconds : t > build'[b].stamp => dir'[t] = Absent
      BY <1>4, <1>5 DEF Seconds
    <2> QED
      BY <2>3, <2>4, <1>4 DEF Poised, Writing
  <1>10. ASSUME NEW c \in Builders, c # b PROVE Poised(c)'
    <2>1. build'[c].pc = "idle"
      BY <1>2, <1>3, <1>10 DEF Alone, InFlight
    <2> QED
      BY <2>1 DEF Poised, Writing
  <1>11. Linked'
    <2> SUFFICES ASSUME NEW t \in Seconds, Parses(dir'[t])
                 PROVE  Follows(t, sealed[dir[t]].prev, sealed[dir[t]].len)'
      BY DEF Linked, Parses
    <2>1. t < s /\ dir'[t] = dir[t]
      BY <1>5, <1>2 DEF Parses, Seconds
    <2>2. PICK p, l : /\ p = sealed[dir[t]].prev /\ l = sealed[dir[t]].len
                      /\ Follows(t, p, l)
      BY <2>1 DEF Linked, Parses
    <2>3. Follows(t, p, l)'
      BY <2>1, <2>2, <1>8 DEF Seconds
    <2> QED
      BY <2>1, <2>2, <2>3, <1>2
  <1> QED
    BY <1>6, <1>7, <1>9, <1>10, <1>11

LEMMA FillSerial ==
  ASSUME SerialInv, TypeInv', NEW b \in Builders, FillReport(b) PROVE SerialInv'
  <1> USE DEF SerialInv, TypeInv
  <1>1. PICK s \in Seconds : s = build[b].stamp
    BY DEF FillReport, RefsOK
  <1>2. /\ build[b].pc = "filling" /\ dir[s] = Torn
        /\ \A t \in Seconds : t > s => dir[t] = Absent
    BY <1>1 DEF FillReport, Poised
  <1>3. dir' = [dir EXCEPT ![s] = build[b].id] /\ UNCHANGED <<clock, sealed>>
    BY <1>1, <1>2 DEF FillReport, Parses
  <1>4. /\ build'[b] = [build[b] EXCEPT !.pc = "report_written"]
        /\ \A c \in Builders \ {b} : build'[c] = build[c]
    BY DEF FillReport, TypeOK
  <1>5. build'[b].pc = "report_written" /\ build'[b].stamp = s
    BY <1>1, <1>4 DEF TypeOK, BuildState
  <1>6. /\ dir'[s] = build[b].id
        /\ \A t \in Seconds \ {s} : dir'[t] = dir[t]
    BY <1>3 DEF TypeOK
  <1>7. Alone'
    BY <1>2, <1>4, AloneStep DEF InFlight
  <1>8. Stamped'
    <2>1. s <= clock
      BY <1>1, <1>2 DEF Stamped, InFlight
    <2>2. \A t \in Seconds : dir'[t] # Absent => t <= clock
      BY <2>1, <1>6 DEF Stamped
    <2>3. \A c \in Builders : build'[c].pc # "idle" => build'[c].stamp <= clock
      BY <2>1, <1>4, <1>5 DEF Stamped, InFlight
    <2> QED
      BY <2>2, <2>3, <1>3 DEF Stamped, InFlight
  <1>9. \A c \in Builders : Poised(c)'
    <2>1. Poised(b)'
      BY <1>5 DEF Poised, Writing
    <2>2. ASSUME NEW c \in Builders, c # b PROVE Poised(c)'
      <3>1. build'[c].pc = "idle"
        BY <1>2, <1>4, <2>2 DEF Alone, InFlight
      <3> QED
        BY <3>1 DEF Poised, Writing
    <2> QED
      BY <2>1, <2>2
  <1>10. ASSUME NEW t \in Seconds, NEW p, NEW l, t <= s, Follows(t, p, l)
         PROVE  Follows(t, p, l)'
    <2>1. \A u \in Seconds : u < t => dir'[u] = dir[u]
      BY <1>6, <1>10 DEF Seconds
    <2> QED
      BY <2>1, <1>3, <1>10, FollowsStable
  <1>11. Linked'
    <2> SUFFICES ASSUME NEW t \in Seconds, Parses(dir'[t])
                 PROVE  Follows(t, sealed[dir[t]].prev, sealed[dir[t]].len)'
      BY DEF Linked, Parses
    <2>1. CASE t = s
      <3>1. PICK p, l : /\ p = sealed[build[b].id].prev /\ l = sealed[build[b].id].len
                        /\ Follows(s, p, l)
        BY <1>1, <1>2 DEF Poised
      <3>2. Follows(s, p, l)'
        BY <3>1, <1>10 DEF Seconds
      <3> QED
        BY <2>1, <3>1, <3>2, <1>3, <1>6
    <2>2. CASE t # s
      <3>1. t < s /\ dir'[t] = dir[t]
        BY <2>2, <1>6, <1>2 DEF Parses, Seconds
      <3>2. PICK p, l : /\ p = sealed[dir[t]].prev /\ l = sealed[dir[t]].len
                        /\ Follows(t, p, l)
        BY <3>1 DEF Linked, Parses
      <3>3. Follows(t, p, l)'
        BY <3>1, <3>2, <1>10 DEF Seconds
      <3> QED
        BY <3>1, <3>2, <3>3, <1>3
    <2> QED
      BY <2>1, <2>2
  <1> QED
    BY <1>7, <1>8, <1>9, <1>11

LEMMA NextSerialInv ==
  ASSUME OneAtATime, FreshSecond, SerialInv, [Next]_vars PROVE SerialInv'
  <1>0. TypeInv /\ TypeInv'
    BY NextTypeInv DEF SerialInv
  <1> USE <1>0
  <1>1. ASSUME NEW b \in Builders, BuildStep(b) PROVE SerialInv'
    <2> USE DEF TypeInv, TypeOK
    <2>1. CASE StartBuild(b)
      <3>1. /\ UNCHANGED <<clock, sealed, dir>>
            /\ \A c \in Builders : build[c].pc = "idle"
            /\ \A c \in Builders \ {b} : build'[c] = build[c]
            /\ build'[b].pc = "phases" /\ build'[b].stamp = clock
        BY <2>1 DEF StartBuild, Stamp, BuildState, InFlight
      <3>2. \A s \in Seconds : s >= clock => dir[s] = Absent
        BY <2>1 DEF StartBuild, SerialInv, Stamped, Seconds
      <3>3. Poised(b)'
        BY <3>1, <3>2 DEF Poised, Writing
      <3>4. Alone'
        BY <3>1, AloneStep DEF SerialInv, InFlight
      <3> QED
        BY <3>1, <3>3, <3>4, FilesUntouched DEF Seconds
    <2>2. CASE PhaseError(b) \/ FillLatest(b) \/ StopEarly(b)
      <3>1. /\ UNCHANGED <<clock, sealed, dir>> /\ InFlight(b)
            /\ \A c \in Builders \ {b} : build'[c] = build[c]
            /\ build'[b].pc = "idle"
        BY <2>2 DEF PhaseError, FillLatest, StopEarly, InFlight, Idle
      <3>2. Alone' /\ Poised(b)'
        BY <3>1, AloneStep DEF SerialInv, Poised, Writing
      <3> QED
        BY <3>1, <3>2, FilesUntouched DEF InFlight, Seconds
    <2>3. CASE ChainStep(b)
      <3>1. PICK p \in 0..Len(sealed) :
              /\ NewestPrior(p) /\ build[b].pc = "phases"
              /\ build' = [build EXCEPT ![b].pc = "chained", ![b].prev = p,
                                        ![b].len = NextLength(p)]
              /\ UNCHANGED <<clock, sealed, dir>>
        BY <2>3 DEF ChainStep
      <3>2. /\ build'[b].pc = "chained" /\ build'[b].prev = p
            /\ build'[b].len = NextLength(p) /\ build'[b].stamp = build[b].stamp
            /\ \A c \in Builders \ {b} : build'[c] = build[c]
        BY <3>1 DEF BuildState
      <3>3. PICK s \in Seconds : s = build[b].stamp
        BY <3>1 DEF RefsOK
      <3>4. \A t \in Seconds : t >= s => dir[t] = Absent
        BY <3>1, <3>3 DEF SerialInv, Poised, Writing
      <3>5. PICK l : l = NextLength(p) /\ Follows(s, p, l)
        BY <3>1, <3>4, NewestIsFollowed
      <3>6. Follows(s, p, l)'
        BY <3>1, <3>5 DEF Follows, IsBefore
      <3>7. Poised(b)'
        BY <3>1, <3>2, <3>3, <3>4, <3>5, <3>6 DEF Poised, Writing
      <3>8. InFlight(b) /\ build[b].stamp <= clock
        BY <3>1 DEF InFlight, SerialInv, Stamped
      <3>9. Alone'
        BY <3>2, <3>8, AloneStep DEF SerialInv
      <3> QED
        BY <3>1, <3>2, <3>7, <3>8, <3>9, FilesUntouched DEF Seconds
    <2>4. CASE SealReport(b)
      BY <2>4, SealSerial
    <2>5. CASE OpenReport(b)
      BY <2>5, OpenSerial
    <2>6. CASE FillReport(b)
      BY <2>6, FillSerial
    <2>7. CASE OpenLatest(b)
      <3>1. /\ UNCHANGED <<clock, sealed, dir>> /\ InFlight(b)
            /\ \A c \in Builders \ {b} : build'[c] = build[c]
            /\ build'[b].pc = "filling_latest" /\ build'[b].stamp = build[b].stamp
        BY <2>7 DEF OpenLatest, InFlight, BuildState
      <3>2. Alone' /\ Poised(b)' /\ build[b].stamp <= clock
        BY <3>1, AloneStep DEF SerialInv, Poised, Writing, Stamped
      <3> QED
        BY <3>1, <3>2, FilesUntouched DEF Seconds
    <2> QED
      BY <1>1, <2>1, <2>2, <2>3, <2>4, <2>5, <2>6, <2>7 DEF BuildStep
  <1>2. CASE Tick
    <2>1. clock' >= clock /\ UNCHANGED <<sealed, dir, build>>
      BY <1>2 DEF Tick, chainVars, TypeInv, TypeOK, Seconds
    <2>2. Stamped'
      BY <2>1 DEF SerialInv, Stamped, InFlight, TypeInv, TypeOK, Seconds, BuildState
    <2> QED
      BY <2>1, <2>2 DEF SerialInv, Alone, InFlight, Poised, Linked, Follows, IsBefore
  <1>3. CASE (\E a \in Attesters : AttestInit(a)) \/ UNCHANGED vars
    <2>1. UNCHANGED <<clock, sealed, dir, build>>
      BY <1>3, InitKeepsTheStore DEF vars, chainVars
    <2> QED
      BY <2>1 DEF SerialInv, Alone, InFlight, Stamped, Poised, Linked, Follows, IsBefore
  <1> QED
    BY <1>1, <1>2, <1>3 DEF Next

(* With builds one at a time in distinct seconds, every report file continues *)
(* the file before it and a chain restarts only after an unreadable file,     *)
(* wherever a build is killed or a write fails.                               *)
THEOREM LinkedCorrect == OneAtATime /\ FreshSecond /\ Spec => []Linked
  <1> SUFFICES ASSUME OneAtATime, FreshSecond PROVE Spec => []Linked
    OBVIOUS
  <1>1. Init => SerialInv
    BY InitTypeInv
    DEF Init, SerialInv, Alone, Stamped, Poised, Writing, Linked, InFlight, Idle, Parses
  <1>2. SerialInv /\ [Next]_vars => SerialInv'
    BY NextSerialInv
  <1>3. SerialInv => Linked
    BY DEF SerialInv
  <1> QED
    BY <1>1, <1>2, <1>3, PTL DEF Spec
-----------------------------------------------------------------------------
(* latest.json. *)

(* The process that writes latest.json has its report in the trail already. *)
Filed(b) ==
  build[b].pc \in {"report_written", "filling_latest"} => dir[build[b].stamp] = build[b].id

LatestInv == LatestIsInTrail /\ \A b \in Builders : Filed(b)

LEMMA NextLatestInv ==
  ASSUME OneAtATime, FreshSecond, SerialInv, LatestInv, [Next]_vars PROVE LatestInv'
  <1> USE DEF SerialInv, TypeInv, TypeOK
  <1>1. ASSUME NEW b \in Builders, BuildStep(b) PROVE LatestInv'
    <2>1. CASE \/ StartBuild(b) \/ PhaseError(b) \/ ChainStep(b) \/ SealReport(b)
               \/ StopEarly(b)
      <3>1. /\ UNCHANGED <<dir, latest>>
            /\ \A c \in Builders \ {b} : build'[c] = build[c]
            /\ build'[b].pc \notin {"report_written", "filling_latest"}
        <4>1. CASE StartBuild(b)
          BY <4>1 DEF StartBuild, BuildState
        <4>2. CASE PhaseError(b) \/ StopEarly(b)
          BY <4>2 DEF PhaseError, StopEarly, Idle
        <4>3. CASE ChainStep(b)
          BY <4>3 DEF ChainStep, BuildState
        <4>4. CASE SealReport(b)
          BY <4>4 DEF SealReport, BuildState
        <4> QED
          BY <2>1, <4>1, <4>2, <4>3, <4>4
      <3> QED
        BY <3>1 DEF LatestInv, LatestIsInTrail, Filed
    <2>2. CASE OpenReport(b)
      <3>1. PICK s \in Seconds : s = build[b].stamp
        BY <2>2 DEF OpenReport, RefsOK
      <3>2. dir[s] = Absent /\ \A t \in Seconds \ {s} : dir'[t] = dir[t]
        BY <2>2, <3>1 DEF OpenReport, Poised, Writing, Seconds
      <3>3. LatestIsInTrail'
        BY <2>2, <3>2 DEF OpenReport, LatestInv, LatestIsInTrail, Parses
      <3>4. build'[b].pc = "filling" /\ \A c \in Builders \ {b} : build'[c] = build[c]
        BY <2>2 DEF OpenReport, BuildState
      <3>5. ASSUME NEW c \in Builders, c # b PROVE build'[c].pc = "idle"
        BY <2>2, <3>4, <3>5 DEF OpenReport, Alone, InFlight
      <3> QED
        BY <3>3, <3>4, <3>5 DEF LatestInv, Filed
    <2>3. CASE FillReport(b)
      <3>1. PICK s \in Seconds : s = build[b].stamp
        BY <2>3 DEF FillReport, RefsOK
      <3>2. dir[s] = Torn /\ dir' = [dir EXCEPT ![s] = build[b].id]
        BY <2>3, <3>1 DEF FillReport, Poised, Parses
      <3>3. dir'[s] = build[b].id /\ \A t \in Seconds \ {s} : dir'[t] = dir[t]
        BY <3>2
      <3>4. LatestIsInTrail'
        BY <2>3, <3>2, <3>3 DEF FillReport, LatestInv, LatestIsInTrail, Parses
      <3>5. /\ build'[b].stamp = s /\ build'[b].id = build[b].id
            /\ \A c \in Builders \ {b} : build'[c] = build[c]
        BY <2>3, <3>1 DEF FillReport, BuildState
      <3>6. ASSUME NEW c \in Builders, c # b PROVE build'[c].pc = "idle"
        BY <2>3, <3>5, <3>6 DEF FillReport, Alone, InFlight
      <3> QED
        BY <3>3, <3>4, <3>5, <3>6 DEF LatestInv, Filed
    <2>4. CASE OpenLatest(b)
      <3>1. /\ latest' = Torn /\ dir' = dir
            /\ build'[b].stamp = build[b].stamp /\ build'[b].id = build[b].id
            /\ build[b].pc = "report_written"
            /\ \A c \in Builders \ {b} : build'[c] = build[c]
        BY <2>4 DEF OpenLatest, BuildState
      <3> QED
        BY <3>1 DEF LatestInv, LatestIsInTrail, Filed, Parses
    <2>5. CASE FillLatest(b)
      <3>1. /\ latest' \in {build[b].id, Torn} /\ dir' = dir
            /\ build'[b].pc = "idle"
            /\ \A c \in Builders \ {b} : build'[c] = build[c]
        BY <2>5 DEF FillLatest, Idle
      <3>2. build[b].stamp \in Seconds /\ dir[build[b].stamp] = build[b].id
        BY <2>5 DEF FillLatest, RefsOK, LatestInv, Filed
      <3> QED
        BY <3>1, <3>2 DEF LatestInv, LatestIsInTrail, Filed, Parses
    <2> QED
      BY <1>1, <2>1, <2>2, <2>3, <2>4, <2>5 DEF BuildStep
  <1>2. CASE Tick \/ (\E a \in Attesters : AttestInit(a)) \/ UNCHANGED vars
    <2>1. UNCHANGED <<dir, latest, build>>
      BY <1>2, InitKeepsTheStore DEF Tick, vars, chainVars
    <2> QED
      BY <2>1 DEF LatestInv, LatestIsInTrail, Filed
  <1> QED
    BY <1>1, <1>2 DEF Next

(* With builds one at a time in distinct seconds, a latest.json that can be    *)
(* read is a report of the trail: the trail's copy is written first and no     *)
(* later build touches it.                                                     *)
THEOREM LatestIsInTrailCorrect ==
  OneAtATime /\ FreshSecond /\ Spec => []LatestIsInTrail
  <1> SUFFICES ASSUME OneAtATime, FreshSecond PROVE Spec => []LatestIsInTrail
    OBVIOUS
  <1>1. Init => SerialInv /\ LatestInv
    BY InitTypeInv
    DEF Init, SerialInv, Alone, Stamped, Poised, Writing, Linked, InFlight, Idle, Parses,
        LatestInv, LatestIsInTrail, Filed
  <1>2. SerialInv /\ LatestInv /\ [Next]_vars => (SerialInv /\ LatestInv)'
    BY NextSerialInv, NextLatestInv
  <1>3. LatestInv => LatestIsInTrail
    BY DEF LatestInv
  <1> QED
    BY <1>1, <1>2, <1>3, PTL DEF Spec

-----------------------------------------------------------------------------
(* The report files implement the append-only trail. *)

(* A file is visible only through what it holds once it parses. *)
LEMMA PublishedSame ==
  ASSUME TypeInv, NEW S \in SUBSET Seconds,
         \A s \in S : dir'[s] = dir[s] \/ (~Parses(dir[s]) /\ ~Parses(dir'[s])),
         \A i \in 1..Len(sealed) : sealed'[i] = sealed[i]
  PROVE  \A s \in S : Published'[s] = Published[s]
  <1> TAKE s \in S
  <1>1. CASE ~Parses(dir[s]) /\ ~Parses(dir'[s])
    BY <1>1 DEF Published, Parses
  <1>2. CASE dir'[s] = dir[s] /\ Parses(dir[s])
    <2>1. dir[s] \in 1..Len(sealed) /\ sealed'[dir'[s]] = sealed[dir[s]]
      BY <1>2 DEF TypeInv, RefsOK
    <2> QED
      BY <1>2, <2>1 DEF Published, Parses
  <1> QED
    BY <1>1, <1>2

LEMMA PublishedUnchanged ==
  ASSUME TypeInv, UNCHANGED dir, \A i \in 1..Len(sealed) : sealed'[i] = sealed[i]
  PROVE  UNCHANGED Published
  <1>1. \A s \in Seconds : Published'[s] = Published[s]
    BY PublishedSame
  <1> QED
    BY <1>1 DEF Published

(* Filling the file of a build publishes it: no report of a later second is    *)
(* visible, and what it holds continues the newest one or restarts.            *)
LEMMA FillPublishes ==
  ASSUME SerialInv, TypeInv', NEW b \in Builders, FillReport(b)
  PROVE  Trail!Next
  <1> USE DEF SerialInv, TypeInv
  <1>1. PICK s \in Seconds : s = build[b].stamp
    BY DEF FillReport, RefsOK
  <1>2. /\ dir[s] = Torn /\ \A t \in Seconds : t > s => dir[t] = Absent
        /\ Follows(s, sealed[build[b].id].prev, sealed[build[b].id].len)
    BY <1>1 DEF FillReport, Poised
  <1>3. dir' = [dir EXCEPT ![s] = build[b].id] /\ sealed' = sealed
    BY <1>1, <1>2 DEF FillReport, Parses
  <1>4. /\ dir'[s] = build[b].id /\ \A t \in Seconds \ {s} : dir'[t] = dir[t]
    BY <1>3 DEF TypeOK
  <1>5. build[b].id \in 1..Len(sealed) /\ Len(sealed) \in Nat
    BY DEF FillReport, RefsOK, TypeOK
  <1>6. Parses(build[b].id)
    BY <1>5, ContentsAssumption DEF Parses
  <1> DEFINE r == [id |-> build[b].id, prev |-> sealed[build[b].id].prev,
                   len |-> sealed[build[b].id].len]
  <1>7. Published'[s] = r
    BY <1>3, <1>4, <1>6 DEF Published, Parses
  <1>8. r # Unpublished
    BY <1>5 DEF Unpublished, NoReport
  <1>9. \A t \in Seconds : t >= s => Published[t] = Unpublished
    BY <1>2 DEF Published, Parses, Seconds
  <1>10. \A t \in Seconds \ {s} : Published'[t] = Published[t]
    BY <1>3, <1>4, PublishedSame
  <1>11. ASSUME \E u \in Seconds : /\ IsBefore(u, s) /\ Parses(dir[u])
                                   /\ r.prev = dir[u] /\ r.len = sealed[dir[u]].len + 1
         PROVE  Trail!Continues(r)
    <2>1. PICK u \in Seconds : /\ IsBefore(u, s) /\ Parses(dir[u])
                               /\ r.prev = dir[u] /\ r.len = sealed[dir[u]].len + 1
      BY <1>11
    <2>2. Published[u].id = dir[u] /\ Published[u].len = sealed[dir[u]].len
      BY <2>1 DEF Published
    <2>3. dir[u] # NoReport
      BY <2>1 DEF RefsOK, NoReport
    <2>4. Published[u] # Unpublished
      BY <2>2, <2>3 DEF Unpublished
    <2>5. \A t \in Seconds : t > u => Published[t] = Unpublished
      BY <2>1, <1>9 DEF IsBefore, Published, Parses, Seconds
    <2> QED
      BY <2>1, <2>2, <2>4, <2>5 DEF Trail!Continues, Trail!Newest
  <1>12. ASSUME r.prev = NoReport /\ r.len = 1 PROVE Trail!Restarts(r)
    BY <1>12 DEF Trail!Restarts, NoReport
  <1>13. Trail!Restarts(r) \/ Trail!Continues(r)
    <2>1. r.prev = sealed[build[b].id].prev /\ r.len = sealed[build[b].id].len
      OBVIOUS
    <2> HIDE DEF r
    <2> QED
      BY <2>1, <1>2, <1>11, <1>12 DEF Follows
  <1> HIDE DEF r
  <1>14. Trail!Publish(s)
    BY <1>7, <1>8, <1>9, <1>10, <1>13 DEF Trail!Publish
  <1> QED
    BY <1>14 DEF Trail!Next

(* Every step of the store publishes a report or leaves the trail as it is.    *)
LEMMA StepPublishesOrStutters ==
  ASSUME OneAtATime, FreshSecond, SerialInv, [Next]_vars PROVE [Trail!Next]_Published
  <1>0. TypeInv /\ TypeInv'
    BY NextTypeInv DEF SerialInv
  <1>1. ASSUME NEW b \in Builders, BuildStep(b) PROVE [Trail!Next]_Published
    <2>1. CASE \/ StartBuild(b) \/ PhaseError(b) \/ ChainStep(b) \/ OpenLatest(b)
               \/ FillLatest(b) \/ StopEarly(b)
      <3>1. UNCHANGED <<sealed, dir>>
        BY <2>1 DEF StartBuild, PhaseError, ChainStep, OpenLatest, FillLatest, StopEarly
      <3> QED
        BY <1>0, <3>1, PublishedUnchanged
    <2>2. CASE SealReport(b)
      <3>1. /\ UNCHANGED dir
            /\ \E r : sealed' = Append(sealed, r)
        BY <2>2 DEF SealReport
      <3>2. \A i \in 1..Len(sealed) : sealed'[i] = sealed[i]
        BY <1>0, <3>1 DEF TypeInv, TypeOK
      <3> QED
        BY <1>0, <3>1, <3>2, PublishedUnchanged
    <2>3. CASE OpenReport(b)
      <3>1. PICK s \in Seconds : s = build[b].stamp
        BY <1>0, <2>3 DEF OpenReport, TypeInv, RefsOK
      <3>2. dir[s] = Absent /\ dir' = [dir EXCEPT ![s] = Torn] /\ UNCHANGED sealed
        BY <2>3, <3>1 DEF OpenReport, SerialInv, Poised, Writing, Seconds
      <3>3. \A t \in Seconds : dir'[t] = dir[t] \/ (~Parses(dir[t]) /\ ~Parses(dir'[t]))
        BY <1>0, <3>2 DEF Parses, TypeInv, TypeOK
      <3>4. \A t \in Seconds : Published'[t] = Published[t]
        BY <1>0, <3>2, <3>3, PublishedSame
      <3> QED
        BY <3>4 DEF Published
    <2>4. CASE FillReport(b)
      BY <1>0, <2>4, FillPublishes
    <2> QED
      BY <1>1, <2>1, <2>2, <2>3, <2>4 DEF BuildStep
  <1>2. CASE Tick \/ (\E a \in Attesters : AttestInit(a)) \/ UNCHANGED vars
    <2>1. UNCHANGED <<sealed, dir>>
      BY <1>2, InitKeepsTheStore DEF Tick, vars, chainVars
    <2> QED
      BY <1>0, <2>1, PublishedUnchanged
  <1> QED
    BY <1>1, <1>2 DEF Next

(* With builds one at a time in distinct seconds the report files implement    *)
(* the append-only trail: a report becomes visible once, after every visible   *)
(* report, continues the newest one or restarts, and never changes, although   *)
(* every write is two steps and may be cut short.                              *)
THEOREM AppendOnlyTrailCorrect ==
  OneAtATime /\ FreshSecond /\ Spec => AppendOnlyTrail
  <1> SUFFICES ASSUME OneAtATime, FreshSecond PROVE Spec => AppendOnlyTrail
    OBVIOUS
  <1>1. Init => SerialInv
    BY InitTypeInv
    DEF Init, SerialInv, Alone, Stamped, Poised, Writing, Linked, InFlight, Idle, Parses
  <1>2. SerialInv /\ [Next]_vars => SerialInv'
    BY NextSerialInv
  <1>3. Init => Trail!Init
    BY DEF Init, Trail!Init, Published, Parses
  <1>4. SerialInv /\ [Next]_vars => [Trail!Next]_Published
    BY StepPublishesOrStutters
  <1> QED
    BY <1>1, <1>2, <1>3, <1>4, PTL DEF Spec, AppendOnlyTrail, Trail!Spec
=============================================================================
