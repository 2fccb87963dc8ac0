---------------------------- MODULE VerifyProofs ----------------------------
(***************************************************************************)
(* Proofs about `forge verify` running beside the builds: what it may say  *)
(* of a store in which builds ran one at a time in distinct seconds, that  *)
(* a chain it calls intact is a whole history under every interleaving,    *)
(* and that no signature fails before an init is forced or two overlap.    *)
(***************************************************************************)
EXTENDS BuildChainProofs, ChainVerify, WellFoundedInduction

-----------------------------------------------------------------------------
(* Verify does not touch the store, so what BuildChainProofs proves of Spec  *)
(* is true beside it.                                                        *)
LEMMA VerifyOnlyReads == SystemNext => [Next]_vars
  BY DEF SystemNext, VerifyNext, StartVerify, ReadReport, WalkChain

THEOREM VerifyKeepsSpec == VerifySpec => Spec
  <1>1. VerifyInit => Init
    BY DEF VerifyInit
  <1>2. [SystemNext]_allVars => [Next]_vars
    BY VerifyOnlyReads DEF allVars
  <1> QED
    BY <1>1, <1>2, PTL DEF VerifySpec, Spec

-----------------------------------------------------------------------------
(* What verify has in hand. *)

(* The reports walked were composed; each came from one file. *)
HandInv ==
  /\ entries \in Seq(Seconds)
  /\ names \in Seq(Seconds)
  /\ walked \in Seq(Nat)
  /\ Len(names) = Len(walked)
  /\ \A i \in 1..Len(walked) : walked[i] \in 1..Len(sealed)
  /\ cursor \in 0..Len(entries)

(* The store only grows. *)
Grows ==
  /\ Len(sealed') \in Nat /\ Len(sealed) <= Len(sealed')
  /\ \A i \in 1..Len(sealed) : sealed'[i] = sealed[i]

LEMMA StoreGrows ==
  ASSUME TypeInv, [Next]_vars PROVE Grows
  <1> USE DEF TypeInv, TypeOK, Grows
  <1>1. ASSUME NEW b \in Builders, SealReport(b) PROVE Grows
    <2>1. PICK r : sealed' = Append(sealed, r)
      BY <1>1 DEF SealReport
    <2> QED
      BY <2>1
  <1>2. CASE UNCHANGED sealed
    BY <1>2
  <1>3. CASE Tick \/ (\E a \in Attesters : AttestInit(a)) \/ UNCHANGED vars
    BY <1>2, <1>3, InitKeepsTheStore DEF Tick, vars, chainVars
  <1>4. ASSUME NEW b \in Builders, BuildStep(b), ~SealReport(b) PROVE UNCHANGED sealed
    BY <1>4 DEF BuildStep, StartBuild, PhaseError, ChainStep, OpenReport, FillReport,
      OpenLatest, FillLatest, StopEarly
  <1> QED
    BY <1>1, <1>2, <1>3, <1>4 DEF Next

LEMMA Least ==
  ASSUME NEW S \in SUBSET Nat, S # {}
  PROVE  First(S) \in S /\ \A j \in S : First(S) <= j
  <1> DEFINE R == OpToRel(<, Nat)
  <1>1. IsWellFoundedOn(R, Nat)
    BY NatLessThanWellFounded
  <1>2. \A i, j \in Nat : <<i, j>> \in R <=> i < j
    BY DEF OpToRel
  <1> HIDE DEF R
  <1>3. PICK i \in S : \A j \in S : ~(<<j, i>> \in R)
    BY <1>1, WFMin
  <1>4. ASSUME NEW j \in S PROVE i <= j
    <2>1. i \in Nat /\ j \in Nat /\ ~(j < i)
      BY <1>2, <1>3
    <2> QED
      BY <2>1
  <1> QED
    BY <1>3, <1>4 DEF First

(* What attest::verify_chain answers: the defect of a report it walked. *)
LEMMA WalkFindsADefect ==
  ASSUME NEW c \in Seq(Nat), ChainVerdict(c).kind # "ok"
  PROVE  /\ ChainVerdict(c).at \in 1..Len(c)
         /\ ChainVerdict(c).kind = Defect(c, ChainVerdict(c).at)
  <1> DEFINE bad == {i \in 1..Len(c) : Defect(c, i) # "ok"}
  <1>1. CASE bad = {}
    BY <1>1 DEF ChainVerdict
  <1>2. CASE bad # {}
    <2>1. bad \in SUBSET Nat
      OBVIOUS
    <2>2. First(bad) \in bad
      BY <1>2, <2>1, Least
    <2>3. ChainVerdict(c) = [kind |-> Defect(c, First(bad)), at |-> First(bad)]
      BY <1>2 DEF ChainVerdict
    <2> HIDE DEF bad
    <2>4. First(bad) \in 1..Len(c)
      BY <2>2 DEF bad
    <2> QED
      BY <2>3, <2>4
  <1> QED
    BY <1>1, <1>2

LEMMA WalkAccepts ==
  ASSUME NEW c \in Seq(Nat), ChainVerdict(c).kind = "ok"
  PROVE  \A i \in 1..Len(c) : Defect(c, i) = "ok"
  <1> DEFINE bad == {i \in 1..Len(c) : Defect(c, i) # "ok"}
  <1>1. CASE bad = {}
    BY <1>1
  <1>2. CASE bad # {}
    <2>1. bad \in SUBSET Nat
      OBVIOUS
    <2>2. First(bad) \in bad
      BY <1>2, <2>1, Least
    <2>3. ChainVerdict(c).kind = Defect(c, First(bad))
      BY <1>2 DEF ChainVerdict
    <2> HIDE DEF bad
    <2>4. Defect(c, First(bad)) # "ok"
      BY <2>2 DEF bad
    <2> QED
      BY <2>3, <2>4
  <1> QED
    BY <1>1, <1>2

LEMMA SignaturePassKinds ==
  ASSUME NEW c \in Seq(Nat)
  PROVE  SignatureVerdict(c).kind \in {"ok", "no_pubkey", "bad_pubkey", "bad_signature"}
  <1> DEFINE bad == {i \in 1..Len(c) : sealed[c[i]].signer \notin {Unsigned, pubFile}}
  <1>1. SignatureVerdict(c) =
          (IF pubFile = Absent THEN [kind |-> "no_pubkey", at |-> 0]
           ELSE IF pubFile = Torn THEN [kind |-> "bad_pubkey", at |-> 0]
           ELSE IF bad = {} THEN [kind |-> "ok", at |-> 0]
           ELSE [kind |-> "bad_signature", at |-> First(bad)])
    BY DEF SignatureVerdict
  <1> HIDE DEF bad
  <1> QED
    BY <1>1

LEMMA InitHandInv == VerifyInit => HandInv
  BY DEF VerifyInit, HandInv, NotRun

LEMMA ReadHandInv ==
  ASSUME TypeInv, HandInv, ReadReport PROVE HandInv'
  <1> USE DEF HandInv
  <1>1. PICK s \in Seconds : s = entries[cursor + 1]
    BY DEF ReadReport
  <1>2. UNCHANGED <<sealed, entries>> /\ cursor' = cursor + 1 /\ cursor < Len(entries)
    BY DEF ReadReport, vars, chainVars
  <1>3. cursor' \in 0..Len(entries')
    BY <1>2
  <1>4. CASE Parses(dir[s])
    <2>1. /\ walked' = Append(walked, dir[s]) /\ names' = Append(names, s)
      BY <1>1, <1>4 DEF ReadReport
    <2>2. dir[s] \in 1..Len(sealed)
      BY <1>4 DEF TypeInv, RefsOK
    <2>3. dir[s] \in Nat /\ Len(sealed) \in Nat
      BY <2>2 DEF TypeInv, TypeOK
    <2>4. walked' \in Seq(Nat) /\ names' \in Seq(Seconds) /\ Len(names') = Len(walked')
      BY <2>1, <2>3
    <2>5. \A i \in 1..Len(walked') : walked'[i] \in 1..Len(sealed')
      BY <1>2, <2>1, <2>2, <2>3
    <2> QED
      BY <1>2, <1>3, <2>1, <2>4, <2>5
  <1>5. CASE ~Parses(dir[s])
    <2>1. UNCHANGED <<walked, names>>
      BY <1>1, <1>5 DEF ReadReport
    <2> QED
      BY <1>2, <1>3, <2>1
  <1> QED
    BY <1>4, <1>5

(* HandInv, element by element. *)
LEMMA HandFacts ==
  ASSUME HandInv
  PROVE  /\ Seconds \subseteq Nat
         /\ Len(entries) \in Nat /\ Len(names) \in Nat /\ Len(walked) = Len(names)
         /\ cursor \in Nat /\ cursor <= Len(entries)
         /\ \A j \in 1..Len(entries) : entries[j] \in Seconds /\ entries[j] \in Nat
         /\ \A j \in 1..Len(names) : names[j] \in Seconds /\ names[j] \in Nat
         /\ \A j \in 1..Len(walked) : walked[j] \in 1..Len(sealed) /\ walked[j] \in Nat
         /\ \A x : x \in ToSet(entries) <=> \E j \in 1..Len(entries) : x = entries[j]
         /\ \A x : x \in ToSet(names) <=> \E j \in 1..Len(names) : x = names[j]
  <1>1. Seconds \subseteq Nat
    BY DEF Seconds
  <1>2. /\ Len(entries) \in Nat /\ DOMAIN entries = 1..Len(entries)
        /\ \A j \in 1..Len(entries) : entries[j] \in Seconds
    BY DEF HandInv
  <1>3. /\ Len(names) \in Nat /\ DOMAIN names = 1..Len(names)
        /\ \A j \in 1..Len(names) : names[j] \in Seconds
    BY DEF HandInv
  <1>4. /\ \A j \in 1..Len(walked) : walked[j] \in 1..Len(sealed) /\ walked[j] \in Nat
        /\ Len(walked) = Len(names)
    BY DEF HandInv
  <1>5. cursor \in Nat /\ cursor <= Len(entries)
    BY <1>2 DEF HandInv
  <1>6. /\ \A x : x \in ToSet(entries) <=> \E j \in 1..Len(entries) : x = entries[j]
        /\ \A x : x \in ToSet(names) <=> \E j \in 1..Len(names) : x = names[j]
    BY <1>2, <1>3 DEF ToSet
  <1> QED
    BY <1>1, <1>2, <1>3, <1>4, <1>5, <1>6

LEMMA NextHandInv ==
  ASSUME TypeInv, HandInv, [SystemNext]_allVars PROVE HandInv'
  <1> USE DEF HandInv
  <1>1. CASE (Next /\ UNCHANGED verifyVars) \/ UNCHANGED allVars
    <2>1. Grows
      BY <1>1, StoreGrows DEF allVars
    <2>2. UNCHANGED verifyVars
      BY <1>1 DEF allVars
    <2>3. \A i \in 1..Len(walked) : walked[i] \in 1..Len(sealed')
      BY <2>1 DEF Grows, TypeInv, TypeOK
    <2> QED
      BY <2>2, <2>3 DEF verifyVars
  <1>2. CASE StartVerify
    <2>1. PICK n \in 0..MaxClock : \E q \in [1..n -> Seconds] : entries' = q
      BY <1>2 DEF StartVerify
    <2>2. PICK q \in [1..n -> Seconds] : entries' = q
      BY <2>1
    <2>3. q \in Seq(Seconds) /\ Len(q) \in Nat
      BY BoundsAssumption
    <2> QED
      BY <1>2, <2>2, <2>3 DEF StartVerify
  <1>3. CASE ReadReport
    BY <1>3, ReadHandInv
  <1>4. CASE WalkChain
    <2>1. UNCHANGED <<sealed, entries, walked, names, cursor>>
      BY <1>4 DEF WalkChain, vars, chainVars
    <2> QED
      BY <2>1
  <1> QED
    BY <1>1, <1>2, <1>3, <1>4 DEF SystemNext, VerifyNext

LEMMA TypeInvBesideVerify ==
  TypeInv /\ [SystemNext]_allVars => TypeInv'
  BY VerifyOnlyReads, NextTypeInv DEF allVars

-----------------------------------------------------------------------------
(* The keys, until an init is forced or two of them overlap. *)

(* At most one init is under way. Once there is a key file it stays what it   *)
(* is, or is about to be filled, so whatever was signed was signed with the   *)
(* key it holds and whatever is installed as public key belongs to it.        *)
Undisturbed ==
  /\ \A a, c \in Attesters : Attests(a) /\ Attests(c) => a = c
  /\ Parses(pubFile) => pubFile = keyFile
  /\ keyFile = Absent => pubFile = Absent
  /\ \A a \in Attesters :
       /\ attest[a].pc = "generated" => keyFile = Absent
       /\ attest[a].pc = "filling_key" => keyFile = Torn /\ pubFile = Absent
       /\ attest[a].pc \in {"key_written", "filling_pub"} => keyFile = attest[a].key
  /\ \A i \in 1..Len(sealed) :
       sealed[i].signer # Unsigned => Parses(keyFile) /\ sealed[i].signer = keyFile

KeyInv == ~disturbed => Undisturbed

LEMMA InitKeyInv == Init => KeyInv
  BY ContentsAssumption DEF Init, KeyInv, Undisturbed, Attests, NotAttesting, Parses

(* A build signs with what the key file holds, and nothing else it does       *)
(* concerns the keys.                                                         *)
LEMMA BuildsKeepKeys ==
  ASSUME TypeInv, Undisturbed, NEW b \in Builders, BuildStep(b) PROVE Undisturbed'
  <1> USE DEF Undisturbed, TypeInv, TypeOK
  <1>0. Len(sealed) \in Nat
    OBVIOUS
  <1>1. UNCHANGED <<keyFile, pubFile, attest>>
    BY DEF BuildStep, StartBuild, PhaseError, ChainStep, SealReport, OpenReport, FillReport,
      OpenLatest, FillLatest, StopEarly, keyVars
  <1>2. CASE SealReport(b)
    <2>1. PICK r : /\ sealed' = Append(sealed, r)
                   /\ r.signer = IF Parses(keyFile) THEN keyFile ELSE Unsigned
      BY <1>2 DEF SealReport
    <2>2. \A i \in 1..Len(sealed') :
            sealed'[i].signer # Unsigned => Parses(keyFile) /\ sealed'[i].signer = keyFile
      <3> TAKE i \in 1..Len(sealed')
      <3>1. CASE i \in 1..Len(sealed)
        BY <2>1, <3>1
      <3>2. CASE i = Len(sealed) + 1
        BY <2>1, <3>2, <1>0
      <3> QED
        BY <2>1, <3>1, <3>2, <1>0
    <2> QED
      BY <1>1, <2>2 DEF Parses, Attests
  <1>3. CASE UNCHANGED sealed
    BY <1>1, <1>3 DEF Parses, Attests
  <1> QED
    BY <1>2, <1>3 DEF BuildStep, StartBuild, PhaseError, ChainStep, OpenReport, FillReport,
      OpenLatest, FillLatest, StopEarly

(* An init that begins alone and unforced finds no key, and while it is the   *)
(* only one it installs one pair.                                             *)
LEMMA InitKeepsKeys ==
  ASSUME TypeInv, KeyInv, NEW a \in Attesters, AttestInit(a), ~disturbed'
  PROVE  Undisturbed'
  <1> USE DEF TypeInv, TypeOK
  <1>0. /\ UNCHANGED sealed /\ attest[a].key \in Nat
        /\ attest \in [Attesters -> Attesting]
    BY InitKeepsTheStore DEF chainVars, Attesting
  <1>1. ~disturbed
    BY DEF AttestInit, GenerateKey, OpenKey, FillKey, OpenPub, FillPub, StopAttest, AttestStep
  <1>2. Undisturbed
    BY <1>1 DEF KeyInv
  <1> USE DEF Undisturbed, Attests
  <1>3. CASE \E force \in BOOLEAN : GenerateKey(a, force)
    <2>1. PICK force \in BOOLEAN : GenerateKey(a, force)
      BY <1>3
    <2> DEFINE beside == \E c \in Attesters : Attests(c)
    <2>2. disturbed' = (disturbed \/ force \/ beside)
      BY <2>1 DEF GenerateKey
    <2> HIDE DEF beside
    <2>3. ~force /\ ~beside
      BY <2>2
    <2>4. /\ keyFile = Absent /\ \A c \in Attesters : attest[c].pc = "idle"
          /\ UNCHANGED <<keyFile, pubFile>>
          /\ attest' = [attest EXCEPT ![a] = [pc |-> "generated", key |-> keys + 1]]
      BY <2>1, <2>3 DEF GenerateKey, NewPair, beside
    <2>5. \A c \in Attesters : attest'[c].pc = IF c = a THEN "generated" ELSE "idle"
      BY <2>4
    <2> QED
      BY <1>0, <1>2, <2>4, <2>5 DEF Parses
  <1>4. ASSUME Attests(a), NEW to \in {"filling_key", "key_written", "filling_pub"},
               attest' = [attest EXCEPT ![a].pc = to]
        PROVE  \A c \in Attesters : /\ attest'[c].pc = IF c = a THEN to ELSE "idle"
                                    /\ attest'[c].key = attest[c].key
    BY <1>0, <1>2, <1>4 DEF Attesting
  <1>5. CASE OpenKey(a)
    <2>1. /\ attest[a].pc = "generated" /\ attest' = [attest EXCEPT ![a].pc = "filling_key"]
          /\ keyFile' = Torn /\ UNCHANGED pubFile
      BY <1>5 DEF OpenKey, AttestStep
    <2>2. \A c \in Attesters : attest'[c].pc = IF c = a THEN "filling_key" ELSE "idle"
      BY <1>4, <2>1
    <2>3. keyFile = Absent /\ pubFile = Absent
      BY <1>2, <2>1
    <2>4. \A i \in 1..Len(sealed) : sealed[i].signer = Unsigned
      BY <1>2, <2>3 DEF Parses
    <2> QED
      BY <1>0, <2>1, <2>2, <2>3, <2>4, ContentsAssumption DEF Parses
  <1>6. CASE FillKey(a)
    <2>1. /\ attest[a].pc = "filling_key" /\ attest' = [attest EXCEPT ![a].pc = "key_written"]
          /\ keyFile' = attest[a].key /\ UNCHANGED pubFile
      BY <1>6 DEF FillKey, AttestStep
    <2>2. \A c \in Attesters : /\ attest'[c].pc = IF c = a THEN "key_written" ELSE "idle"
                               /\ attest'[c].key = attest[c].key
      BY <1>4, <2>1
    <2>3. keyFile = Torn /\ pubFile = Absent
      BY <1>2, <2>1
    <2>4. \A i \in 1..Len(sealed) : sealed[i].signer = Unsigned
      BY <1>2, <2>3 DEF Parses
    <2> QED
      BY <1>0, <2>1, <2>2, <2>3, <2>4, ContentsAssumption DEF Parses
  <1>7. CASE OpenPub(a)
    <2>1. /\ attest[a].pc = "key_written" /\ attest' = [attest EXCEPT ![a].pc = "filling_pub"]
          /\ pubFile' = Torn /\ UNCHANGED keyFile
      BY <1>7 DEF OpenPub, AttestStep
    <2>2. \A c \in Attesters : /\ attest'[c].pc = IF c = a THEN "filling_pub" ELSE "idle"
                               /\ attest'[c].key = attest[c].key
      BY <1>4, <2>1
    <2> QED
      BY <1>0, <1>2, <2>1, <2>2, ContentsAssumption DEF Parses
  <1>8. CASE FillPub(a) \/ StopAttest(a)
    <2>1. /\ \/ attest[a].pc = "filling_pub" /\ pubFile' = attest[a].key
             \/ UNCHANGED pubFile
          /\ Attests(a) /\ UNCHANGED keyFile
          /\ attest' = [attest EXCEPT ![a] = NotAttesting]
      BY <1>8 DEF FillPub, StopAttest
    <2>2. \A c \in Attesters : attest'[c].pc = "idle"
      BY <1>0, <1>2, <2>1 DEF NotAttesting
    <2>3. /\ Parses(pubFile') => pubFile' = keyFile
          /\ keyFile = Absent => pubFile' = Absent
      <3>1. CASE UNCHANGED pubFile
        BY <1>2, <3>1
      <3>2. CASE attest[a].pc = "filling_pub" /\ pubFile' = attest[a].key
        BY <1>0, <1>2, <3>2, ContentsAssumption
      <3> QED
        BY <2>1, <3>1, <3>2
    <2> QED
      BY <1>0, <1>2, <2>1, <2>2, <2>3 DEF Parses
  <1> QED
    BY <1>3, <1>5, <1>6, <1>7, <1>8 DEF AttestInit

LEMMA NextKeyInv ==
  ASSUME TypeInv, KeyInv, [Next]_vars PROVE KeyInv'
  <1> SUFFICES ASSUME ~disturbed' PROVE Undisturbed'
    BY DEF KeyInv
  <1>1. ASSUME NEW b \in Builders, BuildStep(b) PROVE Undisturbed'
    <2>1. UNCHANGED disturbed
      BY <1>1 DEF BuildStep, StartBuild, PhaseError, ChainStep, SealReport, OpenReport,
        FillReport, OpenLatest, FillLatest, StopEarly, keyVars
    <2> QED
      BY <1>1, <2>1, BuildsKeepKeys DEF KeyInv
  <1>2. CASE Tick \/ UNCHANGED vars
    <2>1. UNCHANGED <<sealed, keyVars>>
      BY <1>2 DEF Tick, vars, chainVars
    <2> QED
      BY <2>1 DEF keyVars, KeyInv, Undisturbed, Attests, Parses
  <1>3. CASE \E a \in Attesters : AttestInit(a)
    BY <1>3, InitKeepsKeys
  <1> QED
    BY <1>1, <1>2, <1>3 DEF Next

(* The history is never taken back. *)
LEMMA DisturbedStays ==
  ASSUME [Next]_vars, disturbed PROVE disturbed'
  <1>1. ASSUME NEW b \in Builders, BuildStep(b) PROVE disturbed'
    BY <1>1 DEF BuildStep, StartBuild, PhaseError, ChainStep, SealReport, OpenReport,
      FillReport, OpenLatest, FillLatest, StopEarly, keyVars
  <1>2. ASSUME NEW a \in Attesters, AttestInit(a) PROVE disturbed'
    BY <1>2 DEF AttestInit, GenerateKey, OpenKey, FillKey, OpenPub, FillPub, StopAttest,
      AttestStep
  <1>3. CASE Tick \/ UNCHANGED vars
    BY <1>3 DEF Tick, vars, keyVars
  <1> QED
    BY <1>1, <1>2, <1>3 DEF Next

(* Until an init is forced or two of them overlap no signature fails, however *)
(* often init is stopped half way and whenever a build reads the key file:    *)
(* whatever can be read as the public key is the other half of the only key   *)
(* that ever signed.                                                          *)
THEOREM SignaturesVerifyCorrect == VerifySpec => []SignaturesVerify
  <1> DEFINE Inv == TypeInv /\ HandInv /\ KeyInv /\ SignaturesVerify
  <1>1. VerifyInit => Inv
    BY InitTypeInv, InitHandInv, InitKeyInv DEF VerifyInit, SignaturesVerify, NotRun
  <1>2. Inv /\ [SystemNext]_allVars => Inv'
    <2> SUFFICES ASSUME Inv, [SystemNext]_allVars PROVE SignaturesVerify'
      BY TypeInvBesideVerify, NextHandInv, NextKeyInv, VerifyOnlyReads DEF allVars
    <2>1. CASE WalkChain
      <3>1. ChainVerdict(walked).kind # "bad_signature"
        <4>1. ASSUME ChainVerdict(walked).kind # "ok"
              PROVE  \E i : ChainVerdict(walked).kind = Defect(walked, i)
          BY <4>1, WalkFindsADefect DEF HandInv
        <4>2. \A i : Defect(walked, i) # "bad_signature"
          BY DEF Defect
        <4> QED
          BY <4>1, <4>2
      <3>2. ~disturbed => SignatureVerdict(walked).kind # "bad_signature"
        <4> SUFFICES ASSUME ~disturbed PROVE SignatureVerdict(walked).kind # "bad_signature"
          OBVIOUS
        <4>1. \A i \in 1..Len(walked) :
                Parses(pubFile) => sealed[walked[i]].signer \in {Unsigned, pubFile}
          BY DEF HandInv, KeyInv, Undisturbed
        <4> DEFINE bad == {i \in 1..Len(walked) :
                             sealed[walked[i]].signer \notin {Unsigned, pubFile}}
        <4>2. Parses(pubFile) => bad = {}
          BY <4>1
        <4> HIDE DEF bad
        <4>3. SignatureVerdict(walked) =
                (IF pubFile = Absent THEN [kind |-> "no_pubkey", at |-> 0]
                 ELSE IF pubFile = Torn THEN [kind |-> "bad_pubkey", at |-> 0]
                 ELSE IF bad = {} THEN [kind |-> "ok", at |-> 0]
                 ELSE [kind |-> "bad_signature", at |-> First(bad)])
          BY DEF SignatureVerdict, bad
        <4> QED
          BY <4>2, <4>3 DEF Parses
      <3> QED
        BY <2>1, <3>1, <3>2 DEF WalkChain, SignaturesVerify, vars, keyVars
    <2>2. CASE StartVerify \/ ReadReport
      BY <2>2 DEF StartVerify, ReadReport, SignaturesVerify
    <2>3. CASE (Next /\ UNCHANGED verifyVars) \/ UNCHANGED allVars
      BY <2>3, DisturbedStays DEF allVars, verifyVars, SignaturesVerify
    <2> QED
      BY <2>1, <2>2, <2>3 DEF SystemNext, VerifyNext
  <1>3. Inv => SignaturesVerify
    OBVIOUS
  <1> QED
    BY <1>1, <1>2, <1>3, PTL DEF VerifySpec

-----------------------------------------------------------------------------
(* A chain called intact, whatever the builds do meanwhile. *)

(* The reports walked are the links of one chain from its beginning. *)
LinkedWalk ==
  \A i \in 1..Len(walked) :
    sealed[walked[i]].prev = IF i = 1 THEN NoReport ELSE walked[i - 1]

(* The check was made when the walk ended; it stays true because a composed  *)
(* report never changes.                                                     *)
IntactInv == ChainPassed => LinkedWalk

LEMMA WalkIsHistory ==
  ASSUME TypeInv, HandInv, LinkedWalk, walked # <<>>
  PROVE  ToSet(walked) = Ancestors(walked[Len(walked)])
  <1> DEFINE n == Len(walked)
  <1>0. n \in Nat /\ n # 0 /\ Len(sealed) \in Nat
    BY DEF HandInv, TypeInv, TypeOK
  <1>1. ToSet(walked) = {walked[i] : i \in 1..n}
    BY DEF ToSet, HandInv
  <1> HIDE DEF n
  <1>2. ASSUME NEW j \in Ancestors(walked[n]) PROVE j \in ToSet(walked)
    <2>1. ToSet(walked) \in SUBSET (1..Len(sealed))
      BY <1>1 DEF HandInv, n
    <2>2. walked[n] \in ToSet(walked)
      BY <1>0, <1>1
    <2>3. ASSUME NEW k \in ToSet(walked), sealed[k].prev # NoReport
          PROVE  sealed[k].prev \in ToSet(walked)
      <3>1. PICK i \in 1..n : k = walked[i]
        BY <1>1
      <3>2. i # 1 /\ sealed[k].prev = walked[i - 1]
        BY <2>3, <3>1 DEF LinkedWalk, n
      <3> QED
        BY <1>0, <1>1, <3>1, <3>2
    <2> QED
      BY <2>1, <2>2, <2>3 DEF Ancestors, ClosedUnderPrev
  <1>3. ASSUME NEW i \in 1..n, NEW S \in SUBSET (1..Len(sealed)),
               walked[n] \in S, ClosedUnderPrev(S), walked[i] \notin S
        PROVE  FALSE
    <2> DEFINE missing == {d \in 0..(n - 1) : walked[n - d] \notin S}
    <2>1. n - i \in missing
      BY <1>0, <1>3
    <2>2. PICK d \in missing : \A e \in missing : d <= e
      <3>0. 0..(n - 1) \subseteq Nat
        BY <1>0
      <3>1. missing \in SUBSET Nat /\ missing # {}
        BY <2>1, <3>0
      <3> HIDE DEF missing
      <3> QED
        BY <3>1, Least
    <2>3. d \in 0..(n - 1) /\ walked[n - d] \notin S /\ d # 0
      BY <1>0, <1>3
    <2>4. d - 1 \in 0..(n - 1) /\ d - 1 \notin missing
      BY <1>0, <2>2, <2>3
    <2>5. PICK m \in 2..n : m = n - d + 1
      BY <1>0, <2>3
    <2>6. walked[m] \in S /\ walked[m - 1] \notin S
      <3>1. n - (d - 1) = m /\ n - d = m - 1
        BY <1>0, <2>3, <2>5
      <3> QED
        BY <2>3, <2>4, <3>1
    <2>7. sealed[walked[m]].prev = walked[m - 1] /\ walked[m - 1] # NoReport
      <3>1. m \in 1..Len(walked) /\ m # 1 /\ m - 1 \in 1..Len(walked)
        BY <1>0, <2>5 DEF n
      <3>2. walked[m - 1] \in 1..Len(sealed)
        BY <3>1 DEF HandInv
      <3> QED
        BY <1>0, <3>1, <3>2 DEF LinkedWalk, NoReport
    <2> QED
      BY <1>3, <2>6, <2>7 DEF ClosedUnderPrev
  <1>4. ASSUME NEW j \in ToSet(walked) PROVE j \in Ancestors(walked[n])
    <2>1. PICK i \in 1..n : j = walked[i]
      BY <1>1, <1>4
    <2>2. j \in 1..Len(sealed)
      BY <2>1 DEF HandInv, n
    <2> QED
      BY <1>3, <2>1, <2>2 DEF Ancestors
  <1> QED
    BY <1>2, <1>4 DEF n, Ancestors

LEMMA NextIntactInv ==
  ASSUME TypeInv, HandInv, IntactInv, [SystemNext]_allVars PROVE IntactInv'
  <1>1. CASE (Next /\ UNCHANGED verifyVars) \/ UNCHANGED allVars
    <2>1. Grows /\ UNCHANGED verifyVars
      BY <1>1, StoreGrows DEF allVars
    <2>2. \A i \in 1..Len(walked) : sealed'[walked[i]] = sealed[walked[i]]
      BY <2>1 DEF Grows, HandInv
    <2> QED
      BY <2>1, <2>2 DEF IntactInv, ChainPassed, LinkedWalk, verifyVars
  <1>2. CASE StartVerify
    BY <1>2 DEF StartVerify, IntactInv, ChainPassed
  <1>3. CASE ReadReport
    <2>1. ~ChainPassed'
      BY <1>3 DEF ReadReport, ChainPassed
    <2> QED
      BY <2>1 DEF IntactInv
  <1>4. CASE WalkChain
    <2>1. UNCHANGED <<sealed, walked>>
      BY <1>4 DEF WalkChain, vars, chainVars
    <2>2. CASE ChainVerdict(walked).kind = "ok"
      <3>1. \A i \in 1..Len(walked) : Defect(walked, i) = "ok"
        BY <2>2, WalkAccepts DEF HandInv
      <3>2. LinkedWalk
        BY <3>1 DEF LinkedWalk, Defect
      <3> QED
        BY <2>1, <3>2 DEF IntactInv, LinkedWalk
    <2>3. CASE ChainVerdict(walked).kind # "ok"
      <3>1. PICK i : ChainVerdict(walked).kind = Defect(walked, i)
        BY <2>3, WalkFindsADefect DEF HandInv
      <3>2. verdict' = ChainVerdict(walked)
        BY <1>4, <2>3 DEF WalkChain
      <3>3. verdict'.kind \in {"GenesisHasPrev", "SequenceGap", "MissingPrev", "Broken"}
        BY <2>3, <3>1, <3>2 DEF Defect
      <3> QED
        BY <3>3 DEF IntactInv, ChainPassed
    <2> QED
      BY <2>2, <2>3
  <1> QED
    BY <1>1, <1>2, <1>3, <1>4 DEF SystemNext, VerifyNext

(* A chain verify calls intact is the whole history of its head, whatever     *)
(* was written, overwritten or torn while verify was reading: the links it    *)
(* compared name reports that never change, so the walk can neither skip an   *)
(* ancestor nor take in a stranger.                                           *)
THEOREM IntactIsWholeHistoryCorrect == VerifySpec => []IntactIsWholeHistory
  <1> DEFINE Inv == TypeInv /\ HandInv /\ IntactInv
  <1>1. VerifyInit => Inv
    BY InitTypeInv, InitHandInv DEF VerifyInit, IntactInv, ChainPassed, NotRun
  <1>2. Inv /\ [SystemNext]_allVars => Inv'
    BY TypeInvBesideVerify, NextHandInv, NextIntactInv
  <1>3. Inv => IntactIsWholeHistory
    BY WalkIsHistory DEF IntactInv, IntactIsWholeHistory
  <1> QED
    BY <1>1, <1>2, <1>3, PTL DEF VerifySpec

-----------------------------------------------------------------------------
(* What verify may report when builds run one at a time in distinct seconds. *)

(* Only the newest file ever changes, and never once it parses. *)
OnlyNewestChanges ==
  \A s \in Seconds : dir'[s] # dir[s] =>
    /\ ~Parses(dir[s]) /\ dir'[s] # Absent
    /\ \A t \in Seconds : t > s => dir[t] = Absent

LEMMA SettledFilesStay ==
  ASSUME SerialInv, [Next]_vars PROVE OnlyNewestChanges
  <1> USE DEF SerialInv, TypeInv, TypeOK
  <1>1. ASSUME NEW b \in Builders, BuildStep(b) PROVE OnlyNewestChanges
    <2>1. CASE UNCHANGED dir
      BY <2>1 DEF OnlyNewestChanges
    <2>2. CASE OpenReport(b)
      <3>1. PICK s \in Seconds : s = build[b].stamp
        BY <2>2 DEF OpenReport, RefsOK
      <3>2. dir' = [dir EXCEPT ![s] = Torn] /\ \A t \in Seconds : t >= s => dir[t] = Absent
        BY <2>2, <3>1 DEF OpenReport, Poised, Writing
      <3> QED
        BY <3>2, ContentsAssumption DEF OnlyNewestChanges, Parses, Seconds
    <2>3. CASE FillReport(b)
      <3>1. PICK s \in Seconds : s = build[b].stamp
        BY <2>3 DEF FillReport, RefsOK
      <3>2. /\ dir[s] = Torn /\ \A t \in Seconds : t > s => dir[t] = Absent
            /\ build[b].id \in 1..Len(sealed)
        BY <2>3, <3>1 DEF FillReport, Poised, RefsOK
      <3>3. dir' = [dir EXCEPT ![s] = build[b].id]
        BY <2>3, <3>1, <3>2 DEF FillReport, Parses
      <3> QED
        BY <3>2, <3>3, ContentsAssumption DEF OnlyNewestChanges, Parses
    <2> QED
      BY <1>1, <2>1, <2>2, <2>3 DEF BuildStep, StartBuild, PhaseError, ChainStep,
        SealReport, OpenLatest, FillLatest, StopEarly
  <1>2. CASE Tick \/ (\E a \in Attesters : AttestInit(a)) \/ UNCHANGED vars
    <2>1. UNCHANGED dir
      BY <1>2, InitKeepsTheStore DEF Tick, vars, chainVars
    <2> QED
      BY <2>1 DEF OnlyNewestChanges
  <1> QED
    BY <1>1, <1>2 DEF Next

(* The listing is in order and complete up to its last file. *)
Ascending(q) == \A i, j \in 1..Len(q) : i < j => q[i] < q[j]

ListedAll ==
  \A i \in 1..Len(entries) :
    /\ dir[entries[i]] # Absent
    /\ \A s \in Seconds : s < entries[i] /\ dir[s] # Absent => s \in ToSet(entries)

(* What was taken is still there. *)
TakenAsIs ==
  \A i \in 1..Len(names) :
    /\ \E j \in 1..cursor : names[i] = entries[j]
    /\ dir[names[i]] = walked[i]

(* Every file read that parses was taken, except that the last one of the    *)
(* listing may have been filled since.                                       *)
TookAll ==
  \A j \in 1..cursor :
    j < Len(entries) /\ Parses(dir[entries[j]]) => entries[j] \in ToSet(names)

Reading ==
  verdict.kind = "running" =>
    Ascending(entries) /\ ListedAll /\ Ascending(names) /\ TakenAsIs /\ TookAll

LEMMA BuildsKeepReading ==
  ASSUME SerialInv, HandInv, Reading, [Next]_vars, UNCHANGED verifyVars PROVE Reading'
  <1> SUFFICES ASSUME verdict.kind = "running"
               PROVE  ListedAll' /\ TakenAsIs' /\ TookAll'
    BY DEF Reading, verifyVars, Ascending
  <1>1. OnlyNewestChanges /\ UNCHANGED verifyVars /\ TypeInv
    BY SettledFilesStay DEF SerialInv
  <1>2. Ascending(entries) /\ ListedAll /\ TakenAsIs /\ TookAll
    BY DEF Reading
  <1>3. /\ \A i \in 1..Len(entries) : entries[i] \in Seconds
        /\ \A i \in 1..Len(names) : names[i] \in Seconds /\ walked[i] \in Nat
        /\ Len(entries) \in Nat /\ cursor <= Len(entries) /\ cursor \in Nat
    BY DEF HandInv
  <1>4. Seconds \subseteq Nat
    BY DEF Seconds
  <1>5. ASSUME NEW i \in 1..Len(entries)
        PROVE  /\ dir'[entries[i]] # Absent
               /\ \A s \in Seconds : s < entries[i] /\ dir'[s] # Absent => s \in ToSet(entries)
    <2>1. entries[i] \in Seconds /\ dir[entries[i]] # Absent
      BY <1>2, <1>3 DEF ListedAll
    <2>2. dir'[entries[i]] # Absent
      BY <1>1, <2>1 DEF OnlyNewestChanges
    <2>3. ASSUME NEW s \in Seconds, s < entries[i], dir'[s] # Absent PROVE s \in ToSet(entries)
      <3>1. dir'[s] = dir[s]
        BY <1>1, <1>4, <2>1, <2>3 DEF OnlyNewestChanges
      <3> QED
        BY <1>2, <2>3, <3>1 DEF ListedAll
    <2> QED
      BY <2>2, <2>3
  <1>6. ASSUME NEW i \in 1..Len(names) PROVE dir'[names[i]] = walked[i]
    <2>1. names[i] \in Seconds /\ dir[names[i]] = walked[i] /\ walked[i] \in Nat
      BY <1>2, <1>3 DEF TakenAsIs
    <2>2. Parses(dir[names[i]])
      BY <2>1, ContentsAssumption DEF Parses
    <2> QED
      BY <1>1, <2>1, <2>2 DEF OnlyNewestChanges
  <1>7. ASSUME NEW j \in 1..cursor, j < Len(entries), Parses(dir[entries[j]])'
        PROVE  entries[j] \in ToSet(names)
    <2>1. PICK l \in 1..Len(entries) : l = Len(entries) /\ j \in 1..Len(entries) /\ j < l
      BY <1>3, <1>7
    <2>2. /\ entries[j] \in Seconds /\ entries[l] \in Seconds
          /\ entries[j] < entries[l] /\ dir[entries[l]] # Absent
      BY <1>2, <1>3, <2>1 DEF Ascending, ListedAll
    <2>3. dir'[entries[j]] = dir[entries[j]]
      BY <1>1, <2>2 DEF OnlyNewestChanges
    <2>4. Parses(dir[entries[j]])
      BY <1>1, <1>7, <2>3 DEF Parses, verifyVars
    <2> QED
      BY <1>2, <1>7, <2>4 DEF TookAll
  <1>8. UNCHANGED <<entries, names, walked, cursor>>
    BY DEF verifyVars
  <1> QED
    BY <1>2, <1>5, <1>6, <1>7, <1>8 DEF ListedAll, TakenAsIs, TookAll

LEMMA ReadReportKeepsReading ==
  ASSUME TypeInv, HandInv, Reading, ReadReport PROVE Reading'
  <1>1. PICK s \in Seconds : s = entries[cursor + 1]
    BY DEF ReadReport, HandInv
  <1>2. /\ UNCHANGED <<dir, entries>> /\ cursor' = cursor + 1 /\ cursor < Len(entries)
    BY DEF ReadReport, vars, chainVars
  <1>3. Ascending(entries) /\ ListedAll /\ Ascending(names) /\ TakenAsIs /\ TookAll
    BY DEF Reading, ReadReport
  <1>4. /\ \A i \in 1..Len(entries) : entries[i] \in Nat
        /\ \A i \in 1..Len(names) : names[i] \in Nat
        /\ Len(entries) \in Nat /\ cursor \in Nat /\ s \in Nat
        /\ names \in Seq(Seconds) /\ walked \in Seq(Nat) /\ Len(names) = Len(walked)
    BY HandFacts DEF HandInv
  <1>5. Ascending(entries)' /\ ListedAll'
    BY <1>2, <1>3 DEF Ascending, ListedAll
  <1>6. \A j \in 1..cursor' : j \in 1..cursor \/ (j = cursor + 1 /\ entries[j] = s)
    BY <1>1, <1>2, <1>4
  <1>7. CASE Parses(dir[s])
    <2>1. walked' = Append(walked, dir[s]) /\ names' = Append(names, s)
      BY <1>1, <1>7 DEF ReadReport
    <2>2. PICK n \in Nat : n = Len(names) /\ n = Len(walked)
      BY <1>4
    <2>3. /\ Len(names') = n + 1 /\ names'[n + 1] = s /\ walked'[n + 1] = dir[s]
          /\ \A i \in 1..n : names'[i] = names[i] /\ walked'[i] = walked[i]
          /\ DOMAIN names = 1..n /\ DOMAIN names' = 1..(n + 1)
      <3>1. dir[s] \in Nat
        BY <1>7 DEF TypeInv, TypeOK, RefsOK
      <3> QED
        BY <1>4, <2>1, <2>2, <3>1
    <2>4. ASSUME NEW i \in 1..n PROVE names[i] < s
      <3>1. PICK j \in 1..cursor : names[i] = entries[j]
        BY <1>3, <2>2 DEF TakenAsIs
      <3>2. j \in 1..Len(entries) /\ cursor + 1 \in 1..Len(entries) /\ j < cursor + 1
        BY <1>2, <1>4
      <3> QED
        BY <1>1, <1>3, <3>1, <3>2 DEF Ascending
    <2>5. Ascending(names)'
      <3> SUFFICES ASSUME NEW i \in 1..(n + 1), NEW j \in 1..(n + 1), i < j
                   PROVE  names'[i] < names'[j]
        BY <2>3 DEF Ascending
      <3>1. i \in 1..n
        OBVIOUS
      <3>2. CASE j = n + 1
        BY <2>3, <2>4, <3>1, <3>2
      <3>3. CASE j \in 1..n
        BY <1>3, <2>2, <2>3, <3>1, <3>3 DEF Ascending
      <3> QED
        BY <3>2, <3>3
    <2>6. ASSUME NEW i \in 1..(n + 1)
          PROVE  (\E j \in 1..cursor' : names'[i] = entries[j]) /\ dir[names'[i]] = walked'[i]
      <3>1. CASE i \in 1..n
        <4>1. PICK j \in 1..cursor : names[i] = entries[j]
          BY <1>3, <2>2, <3>1 DEF TakenAsIs
        <4>2. j \in 1..cursor'
          BY <1>2, <1>4
        <4> QED
          BY <1>3, <2>2, <2>3, <3>1, <4>1, <4>2 DEF TakenAsIs
      <3>2. CASE i = n + 1
        <4>1. cursor + 1 \in 1..cursor'
          BY <1>2, <1>4
        <4> QED
          BY <1>1, <2>3, <3>2, <4>1
      <3> QED
        BY <3>1, <3>2
    <2>7. TakenAsIs'
      BY <1>2, <2>3, <2>6 DEF TakenAsIs
    <2>8. ToSet(names) \subseteq ToSet(names') /\ s \in ToSet(names')
      <3>1. \A i \in 1..n : i \in 1..(n + 1)
        OBVIOUS
      <3> QED
        BY <2>3, <3>1 DEF ToSet
    <2>9. TookAll'
      BY <1>2, <1>3, <1>6, <2>8 DEF TookAll, Parses
    <2> QED
      BY <1>5, <2>5, <2>7, <2>9 DEF Reading
  <1>8. CASE ~Parses(dir[s])
    <2>1. UNCHANGED <<walked, names>>
      BY <1>1, <1>8 DEF ReadReport
    <2>2. TookAll'
      BY <1>2, <1>3, <1>6, <1>8, <2>1 DEF TookAll, Parses
    <2>3. \A j \in 1..cursor : j \in 1..cursor'
      BY <1>2, <1>4
    <2>4. TakenAsIs'
      BY <1>2, <1>3, <2>1, <2>3 DEF TakenAsIs
    <2>5. Ascending(names)'
      BY <1>3, <2>1 DEF Ascending
    <2> QED
      BY <1>5, <2>2, <2>4, <2>5 DEF Reading
  <1> QED
    BY <1>7, <1>8

LEMMA StartVerifyReads ==
  ASSUME StartVerify PROVE Reading'
  <1>1. PICK n \in 0..MaxClock : \E q \in [1..n -> Seconds] : IsListing(q) /\ entries' = q
    BY DEF StartVerify
  <1>2. PICK q \in [1..n -> Seconds] : IsListing(q) /\ entries' = q
    BY <1>1
  <1>3. /\ DOMAIN q = 1..n /\ Len(q) = n /\ n \in Nat
    BY <1>2, BoundsAssumption
  <1>4. /\ walked' = <<>> /\ names' = <<>> /\ cursor' = 0 /\ UNCHANGED dir
    BY DEF StartVerify, vars, chainVars
  <1>5. ToSet(q) = {s \in Seconds : dir[s] # Absent} /\ \A i \in 1..n : q[i] \in ToSet(q)
    BY <1>2, <1>3 DEF IsListing, ToSet
  <1>6. Ascending(entries)'
    BY <1>2, <1>3 DEF IsListing, Ascending
  <1>7. ListedAll'
    BY <1>2, <1>3, <1>4, <1>5 DEF ListedAll
  <1>8. Ascending(names)' /\ TakenAsIs' /\ TookAll'
    BY <1>4 DEF Ascending, TakenAsIs, TookAll
  <1> QED
    BY <1>6, <1>7, <1>8 DEF Reading

LEMMA FileBefore ==
  ASSUME Seconds \subseteq Nat, NEW s \in Seconds, NEW u \in Seconds, u < s, dir[u] # Absent
  PROVE  \E v \in Seconds : IsBefore(v, s)
  <1> DEFINE D == {d \in Nat : \E v \in Seconds : v < s /\ dir[v] # Absent /\ d = s - v}
  <1>1. s - u \in D
    OBVIOUS
  <1>2. PICK d \in D : \A e \in D : d <= e
    <2> HIDE DEF D
    <2>1. D \in SUBSET Nat
      BY DEF D
    <2> QED
      BY <1>1, <2>1, Least
  <1>3. PICK v \in Seconds : v < s /\ dir[v] # Absent /\ d = s - v
    OBVIOUS
  <1>4. ASSUME NEW w \in Seconds, v < w, w < s, dir[w] # Absent PROVE FALSE
    <2>1. s - w \in D /\ s - w < s - v
      BY <1>3, <1>4
    <2> QED
      BY <1>2, <1>3, <2>1
  <1> QED
    BY <1>3, <1>4 DEF IsBefore

LEMMA LengthIsPositive ==
  ASSUME TypeOK, DepthIsLength, NEW m \in 1..Len(sealed)
  PROVE  sealed[m].len \in Nat \ {0}
  <1>1. sealed[m].len \in Nat /\ sealed[m].prev \in Nat /\ Len(sealed) \in Nat
    BY ReportFields DEF TypeOK
  <1>2. CASE sealed[m].prev = NoReport
    BY <1>2 DEF DepthIsLength
  <1>3. CASE sealed[m].prev # NoReport
    <2>1. PICK p \in 1..Len(sealed) : p = sealed[m].prev
      BY <1>1, <1>3 DEF DepthIsLength, NoReport
    <2>2. sealed[p].len \in Nat
      BY ReportFields
    <2>3. sealed[m].len = sealed[p].len + 1
      BY <1>3, <2>1 DEF DepthIsLength
    <2> QED
      BY <2>2, <2>3
  <1> QED
    BY <1>2, <1>3

(* A report verify walked continues the one walked before it, unless a file   *)
(* between them was skipped and the chain restarts there.                     *)
LEMMA WalkedFollows ==
  ASSUME SerialInv, DepthIsLength, HandInv, Reading, verdict.kind = "running",
         cursor = Len(entries), NEW i \in 1..Len(walked), Defect(walked, i) # "ok"
  PROVE  /\ Defect(walked, i) = "SequenceGap"
         /\ sealed[walked[i]].len = 1
         /\ \E s \in ToSet(entries) \ ToSet(names) : names[i - 1] < s /\ s < names[i]
  <1>0. TypeInv /\ TypeOK
    BY DEF SerialInv, TypeInv
  <1>1. Ascending(entries) /\ ListedAll /\ Ascending(names) /\ TakenAsIs /\ TookAll
    BY DEF Reading
  <1>2. /\ Seconds \subseteq Nat /\ Len(entries) \in Nat /\ Len(names) \in Nat
        /\ Len(names) = Len(walked)
        /\ \A j \in 1..Len(entries) : entries[j] \in Seconds
        /\ \A j \in 1..Len(names) : names[j] \in Seconds
        /\ \A j \in 1..Len(walked) : walked[j] \in 1..Len(sealed) /\ walked[j] \in Nat
        /\ \A x : x \in ToSet(entries) <=> \E j \in 1..Len(entries) : x = entries[j]
        /\ \A x : x \in ToSet(names) <=> \E j \in 1..Len(names) : x = names[j]
    BY HandFacts
  <1>3. PICK s \in Seconds : s = names[i]
    BY <1>2
  <1>4. dir[s] = walked[i] /\ Parses(dir[s])
    <2>1. dir[s] = walked[i] /\ walked[i] \in Nat
      BY <1>0, <1>1, <1>2, <1>3 DEF TakenAsIs, TypeOK
    <2> QED
      BY <2>1, ContentsAssumption DEF Parses
  <1>5. Follows(s, sealed[walked[i]].prev, sealed[walked[i]].len)
    <2>1. Linked
      BY DEF SerialInv
    <2> QED
      BY <1>4, <2>1 DEF Linked
  <1>6. PICK j \in 1..Len(entries) : s = entries[j]
    BY <1>1, <1>2, <1>3 DEF TakenAsIs
  (* Every file before this one was listed, and taken if it parses. *)
  <1>7. ASSUME NEW u \in Seconds, u < s, dir[u] # Absent
        PROVE  u \in ToSet(entries) /\ (Parses(dir[u]) => u \in ToSet(names))
    <2>1. u \in ToSet(entries)
      BY <1>1, <1>6, <1>7 DEF ListedAll
    <2>2. PICK k \in 1..Len(entries) : u = entries[k]
      BY <1>2, <2>1
    <2>3. k < Len(entries)
      <3>1. k # Len(entries)
        <4> SUFFICES ASSUME k = Len(entries) PROVE FALSE
          OBVIOUS
        <4>1. j = k \/ j < k
          BY <1>2
        <4>2. s = u \/ s < u
          BY <1>1, <1>6, <2>2, <4>1 DEF Ascending
        <4> QED
          BY <1>2, <1>7, <4>2
      <3> QED
        BY <1>2, <3>1
    <2> QED
      BY <1>1, <2>1, <2>2, <2>3 DEF TookAll
  <1>8. CASE \E u \in Seconds :
               /\ IsBefore(u, s) /\ Parses(dir[u])
               /\ sealed[walked[i]].prev = dir[u]
               /\ sealed[walked[i]].len = sealed[dir[u]].len + 1
    <2>1. PICK u \in Seconds :
               /\ IsBefore(u, s) /\ Parses(dir[u])
               /\ sealed[walked[i]].prev = dir[u]
               /\ sealed[walked[i]].len = sealed[dir[u]].len + 1
      BY <1>8
    <2>2. u < s /\ u \in ToSet(names)
      BY <1>7, <2>1 DEF IsBefore
    <2>3. PICK k \in 1..Len(names) : names[k] = u
      BY <1>2, <2>2
    <2>4. k < i
      <3> SUFFICES ASSUME ~(k < i) PROVE FALSE
        OBVIOUS
      <3>1. i = k \/ i < k
        OBVIOUS
      <3>2. s = u \/ s < u
        BY <1>1, <1>2, <1>3, <2>3, <3>1 DEF Ascending
      <3> QED
        BY <1>2, <2>2, <3>2
    <2>5. k = i - 1
      <3> SUFFICES ASSUME k + 1 < i PROVE FALSE
        BY <2>4
      <3>0. k + 1 \in 1..Len(names)
        BY <1>2, <2>3
      <3>1. PICK v \in Seconds : v = names[k + 1]
        BY <1>2, <3>0
      <3>2. u < v /\ v < s
        BY <1>1, <1>2, <1>3, <2>3, <3>0, <3>1 DEF Ascending
      <3>3. dir[v] # Absent
        BY <1>1, <1>2, <3>0, <3>1 DEF TakenAsIs, ListedAll
      <3> QED
        BY <2>1, <3>1, <3>2, <3>3 DEF IsBefore
    <2>6. dir[u] = walked[i - 1] /\ dir[u] # NoReport /\ i # 1
      <3>1. dir[u] = walked[k] /\ k # 0 /\ k \in 1..Len(walked)
        BY <1>1, <1>2, <2>3 DEF TakenAsIs
      <3>2. walked[k] # NoReport
        BY <1>2, <3>1 DEF NoReport
      <3> QED
        BY <2>5, <3>1, <3>2
    <2>7. Defect(walked, i) = "ok"
      BY <2>1, <2>6 DEF Defect
    <2> QED
      BY <2>7
  <1>9. CASE /\ \A u \in Seconds : IsBefore(u, s) => ~Parses(dir[u])
             /\ sealed[walked[i]].prev = NoReport /\ sealed[walked[i]].len = 1
    <2>1. i # 1 /\ i - 1 \in 1..Len(names) /\ i - 1 < i
      BY <1>2, <1>9 DEF Defect
    <2>2. PICK u \in Seconds : u = names[i - 1]
      BY <1>2, <2>1
    <2>3. u < s /\ dir[u] = walked[i - 1]
      BY <1>1, <1>2, <1>3, <2>1, <2>2 DEF Ascending, TakenAsIs
    <2>4. Parses(dir[u]) /\ dir[u] # Absent
      BY <1>2, <2>1, <2>3, ContentsAssumption DEF Parses
    <2>5. PICK v \in Seconds : IsBefore(v, s)
      BY <1>2, <2>3, <2>4, FileBefore
    <2>6. ~Parses(dir[v]) /\ v < s /\ u < v
      <3>1. ~Parses(dir[v]) /\ v < s
        BY <1>9, <2>5 DEF IsBefore
      <3>2. v # u
        BY <2>4, <3>1
      <3>3. ~(v < u)
        BY <2>3, <2>4, <2>5 DEF IsBefore
      <3> QED
        BY <1>2, <3>1, <3>2, <3>3
    <2>7. v \in ToSet(entries) \ ToSet(names)
      <3>1. v \in ToSet(entries)
        BY <1>7, <2>5, <2>6 DEF IsBefore
      <3>2. ASSUME NEW k \in 1..Len(names), v = names[k] PROVE FALSE
        <4>1. dir[v] = walked[k] /\ walked[k] \in Nat
          BY <1>1, <1>2, <3>2 DEF TakenAsIs
        <4> QED
          BY <2>6, <4>1, ContentsAssumption DEF Parses
      <3> QED
        BY <1>2, <3>1, <3>2
    <2>8. sealed[walked[i - 1]].len \in Nat \ {0}
      BY <1>0, <1>2, <2>1, LengthIsPositive
    <2>9. Defect(walked, i) = "SequenceGap"
      <3> DEFINE l == sealed[walked[i - 1]].len
      <3>1. sealed[walked[i]].len # l + 1
        BY <1>9, <2>8
      <3> QED
        BY <2>1, <3>1 DEF Defect
    <2> QED
      BY <1>3, <1>9, <2>2, <2>6, <2>7, <2>9
  <1> QED
    BY <1>5, <1>4, <1>8, <1>9 DEF Follows

(* What is reported was found among the reports walked, where it stays. *)
TearInv ==
  /\ FailsOnlyAtTear
  /\ verdict.kind \in {"GenesisHasPrev", "SequenceGap", "MissingPrev", "Broken"} =>
       verdict.at \in 1..Len(walked)

LEMMA NextTearInv ==
  ASSUME SerialInv, DepthIsLength, HandInv, Reading, TearInv, [SystemNext]_allVars
  PROVE  TearInv'
  <1>1. CASE (Next /\ UNCHANGED verifyVars) \/ UNCHANGED allVars
    <2>1. Grows /\ UNCHANGED verifyVars
      BY <1>1, StoreGrows DEF allVars, SerialInv
    <2>2. \A i \in 1..Len(walked) : sealed'[walked[i]] = sealed[walked[i]]
      BY <2>1, HandFacts DEF Grows
    <2> QED
      BY <2>1, <2>2 DEF TearInv, FailsOnlyAtTear, verifyVars
  <1>2. CASE StartVerify \/ ReadReport
    <2>1. verdict'.kind \notin {"GenesisHasPrev", "SequenceGap", "MissingPrev", "Broken"}
      BY <1>2 DEF StartVerify, ReadReport
    <2> QED
      BY <2>1 DEF TearInv, FailsOnlyAtTear
  <1>3. CASE WalkChain
    <2>0. /\ verdict.kind = "running" /\ cursor = Len(entries)
          /\ UNCHANGED <<sealed, entries, walked, names>>
      BY <1>3 DEF WalkChain, vars, chainVars
    <2>1. CASE ChainVerdict(walked).kind = "ok"
      <3>1. verdict'.kind \notin {"GenesisHasPrev", "SequenceGap", "MissingPrev", "Broken"}
        BY <1>3, <2>1, SignaturePassKinds DEF WalkChain, HandInv
      <3> QED
        BY <3>1 DEF TearInv, FailsOnlyAtTear
    <2>2. CASE ChainVerdict(walked).kind # "ok"
      <3>1. PICK i \in 1..Len(walked) :
              i = ChainVerdict(walked).at /\ ChainVerdict(walked).kind = Defect(walked, i)
        BY <2>2, WalkFindsADefect DEF HandInv
      <3>2. verdict' = ChainVerdict(walked)
        BY <1>3, <2>2 DEF WalkChain
      <3>3. /\ Defect(walked, i) = "SequenceGap" /\ sealed[walked[i]].len = 1
            /\ \E s \in ToSet(entries) \ ToSet(names) : names[i - 1] < s /\ s < names[i]
        BY <2>0, <2>2, <3>1, WalkedFollows
      <3> QED
        BY <2>0, <3>1, <3>2, <3>3 DEF TearInv, FailsOnlyAtTear
    <2> QED
      BY <2>1, <2>2
  <1> QED
    BY <1>1, <1>2, <1>3 DEF SystemNext, VerifyNext

LEMMA NextReading ==
  ASSUME SerialInv, HandInv, Reading, [SystemNext]_allVars
  PROVE  Reading'
  <1>1. CASE (Next /\ UNCHANGED verifyVars) \/ UNCHANGED allVars
    BY <1>1, BuildsKeepReading DEF allVars
  <1>2. CASE StartVerify
    BY <1>2, StartVerifyReads
  <1>3. CASE ReadReport
    BY <1>3, ReadReportKeepsReading DEF SerialInv
  <1>4. CASE WalkChain
    <2>1. verdict'.kind # "running"
      <3>1. CASE ChainVerdict(walked).kind = "ok"
        BY <1>4, <3>1, SignaturePassKinds DEF WalkChain, HandInv
      <3>2. CASE ChainVerdict(walked).kind # "ok"
        <4>1. PICK i : ChainVerdict(walked).kind = Defect(walked, i)
          BY <3>2, WalkFindsADefect DEF HandInv
        <4>2. verdict' = ChainVerdict(walked)
          BY <1>4, <3>2 DEF WalkChain
        <4> QED
          BY <4>1, <4>2 DEF Defect
      <3> QED
        BY <3>1, <3>2
    <2> QED
      BY <2>1 DEF Reading
  <1> QED
    BY <1>1, <1>2, <1>3, <1>4 DEF SystemNext, VerifyNext

(* With builds one at a time in distinct seconds, verify running at any       *)
(* moment of a build reports a broken chain only as a gap right after a file  *)
(* it skipped, where the chain restarts at length 1: the listing may be old   *)
(* by the time it is read, but only its last file can have changed.           *)
THEOREM FailsOnlyAtTearCorrect ==
  OneAtATime /\ FreshSecond /\ VerifySpec => []FailsOnlyAtTear
  <1> SUFFICES ASSUME OneAtATime, FreshSecond PROVE VerifySpec => []FailsOnlyAtTear
    OBVIOUS
  <1> DEFINE Inv == SerialInv /\ DepthInv /\ HandInv /\ Reading /\ TearInv
  <1>1. VerifyInit => Inv
    <2> SUFFICES ASSUME VerifyInit PROVE Inv
      OBVIOUS
    <2>1. SerialInv /\ DepthInv
      BY InitTypeInv
      DEF VerifyInit, Init, SerialInv, Alone, Stamped, Poised, Writing, Linked, InFlight, Idle,
          Parses, DepthInv, DepthIsLength, ChainedLength
    <2> QED
      BY <2>1, InitHandInv DEF VerifyInit, NotRun, Reading, TearInv, FailsOnlyAtTear
  <1>2. Inv /\ [SystemNext]_allVars => Inv'
    <2> SUFFICES ASSUME Inv, [SystemNext]_allVars PROVE Inv'
      OBVIOUS
    <2>1. [Next]_vars
      BY VerifyOnlyReads DEF allVars
    <2>2. SerialInv' /\ DepthInv'
      BY <2>1, NextSerialInv, NextDepthInv
    <2>3. HandInv' /\ Reading' /\ TearInv'
      BY NextHandInv, NextReading, NextTearInv DEF DepthInv
    <2> QED
      BY <2>2, <2>3
  <1>3. Inv => FailsOnlyAtTear
    BY DEF TearInv
  <1> QED
    BY <1>1, <1>2, <1>3, PTL DEF VerifySpec
=============================================================================
