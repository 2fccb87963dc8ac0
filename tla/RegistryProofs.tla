--------------------------- MODULE RegistryProofs ---------------------------
(***************************************************************************)
(* Proofs about the fingerprint registry, for any number of sites,         *)
(* fingerprints and entries: an acknowledged entry is never displaced,     *)
(* however commands overlap; commands that do not overlap never fork the   *)
(* chain; and the sites that build, pass the gate and register use the     *)
(* registry in no other way than the register command does.                *)
(***************************************************************************)
EXTENDS UniquenessGate, TLAPS

InFile(id) == \E i \in Positions : registry[i] = id

(* Numbers in the file and in a process name composed entries, and a        *)
(* command that has started holds a fingerprint.                            *)
RefsOK ==
  /\ \A i \in Positions : registry[i] \in 1..Len(entry)
  /\ \A s \in Sites :
       /\ register[s].pc = "stamped" => register[s].fp \in Fingerprints
       /\ register[s].pc \in {"composed", "body_written"} => register[s].id \in 1..Len(entry)

AckedInFile ==
  /\ \A id \in acked : InFile(id)
  /\ \A s \in Sites : register[s].pc = "body_written" => InFile(register[s].id)

RInv == RegistryTypeOK /\ RefsOK /\ AckedInFile

-----------------------------------------------------------------------------
LEMMA PiecesAreTyped == Nat \subseteq Pieces /\ Newline \in Pieces /\ Torn \in Pieces
BY DEF Pieces

LEMMA MarksAreNoEntries == Newline \notin Nat /\ Torn \notin Nat
BY PiecesAssumption

(* Appending a piece keeps the lines before it.                             *)
LEMMA AppendKeeps ==
  ASSUME registry \in Seq(Pieces), NEW piece \in Pieces, registry' = Append(registry, piece)
  PROVE  /\ registry' \in Seq(Pieces)
         /\ Positions \subseteq Positions'
         /\ \A i \in Positions : registry'[i] = registry[i] /\ i \in 1..Len(registry)
         /\ \A i \in Positions' : i \in Positions \/ (i = Len(registry) + 1 /\ registry'[i] = piece)
         /\ piece \in Nat <=> (Len(registry) + 1) \in Positions'
         /\ registry'[Len(registry) + 1] = piece
         /\ Len(registry) \in Nat
BY DEF Positions

LEMMA ExitsIs ==
  ASSUME register \in [Sites -> Register], NEW s \in Sites,
         NEW exit \in {"other", "bad_timestamp"}, Exits(s, exit)
  PROVE  /\ register' \in [Sites -> Register]
         /\ \A t \in Sites : t # s => register'[t] = register[t]
         /\ register'[s].pc = "idle"
<1>1. NotRunning(exit) \in Register
  BY DEF NotRunning, Register, NoEntry
<1> QED
  BY <1>1 DEF Exits, NotRunning

LEMMA InitEstablishes == RegistryInit => RInv
<1> SUFFICES ASSUME RegistryInit PROVE RInv
  OBVIOUS
<1>1. registry = <<>> /\ entry = <<>> /\ acked = {} /\ Positions = {}
  BY DEF RegistryInit, Positions
<1>2. register \in [Sites -> Register] /\ \A s \in Sites : register[s].pc = "idle"
  <2>1. NotRunning("other") \in Register /\ NotRunning("other").pc = "idle"
    BY DEF NotRunning, Register, NoEntry
  <2> QED
    BY <2>1 DEF RegistryInit
<1>3. registry \in Seq(Pieces) /\ entry \in Seq(Entry)
  BY <1>1
<1>4. RegistryTypeOK
  BY <1>1, <1>2, <1>3 DEF RegistryTypeOK, RegistryInit
<1> QED
  BY <1>1, <1>2, <1>4 DEF RInv, RefsOK, AckedInFile

(* A step that leaves the file and the entries alone and ends or starts     *)
(* commands.                                                                *)
LEMMA CommandStep ==
  ASSUME RInv, UNCHANGED <<registry, entry, acked>>,
         register' \in [Sites -> Register], overlapped' \in BOOLEAN,
         \A s \in Sites :
           \/ register'[s] = register[s]
           \/ register'[s].pc = "idle"
           \/ register'[s].pc = "stamped" /\ register'[s].fp \in Fingerprints
  PROVE  RInv'
<1>1. Positions' = Positions /\ \A id : InFile(id)' <=> InFile(id)
  BY DEF Positions, InFile
<1>2. RegistryTypeOK'
  BY DEF RInv, RegistryTypeOK
<1>3. RefsOK'
  BY <1>1 DEF RInv, RefsOK
<1>4. AckedInFile'
  BY <1>1 DEF RInv, AckedInFile
<1> QED
  BY <1>2, <1>3, <1>4 DEF RInv

LEMMA StartIs ==
  ASSUME RInv, NEW s \in Sites, NEW fp \in Fingerprints, StartRegister(s, fp)
  PROVE  /\ UNCHANGED <<registry, entry, acked>> /\ overlapped' \in BOOLEAN
         /\ register' \in [Sites -> Register]
         /\ \A t \in Sites : t # s => register'[t] = register[t]
         /\ register'[s].pc = "stamped" /\ register'[s].fp = fp
<1>1. register \in [Sites -> Register]
  BY DEF RInv, RegistryTypeOK
<1> DEFINE rec == [register[s] EXCEPT !.pc = "stamped", !.fp = fp]
<1>2. register' = [register EXCEPT ![s] = rec]
  BY <1>1 DEF StartRegister, Register
<1>3. rec \in Register /\ rec.pc = "stamped" /\ rec.fp = fp
  <2>1. register[s] \in Register
    BY <1>1
  <2> QED
    BY <1>1, <2>1 DEF Register
<1> HIDE DEF rec
<1>4. overlapped' \in BOOLEAN
  <2> DEFINE beside == \E t \in Sites : Registering(t)
  <2>1. overlapped' = (overlapped \/ beside) /\ overlapped \in BOOLEAN
    BY DEF StartRegister, RInv, RegistryTypeOK
  <2> HIDE DEF beside
  <2> QED
    BY <2>1
<1> QED
  BY <1>1, <1>2, <1>3, <1>4 DEF StartRegister

LEMMA ExitPreserves ==
  ASSUME RInv, NEW s \in Sites, NEW exit \in {"other", "bad_timestamp"},
         Exits(s, exit), UNCHANGED <<registry, entry, acked, overlapped>>
  PROVE  RInv'
<1>1. register \in [Sites -> Register] /\ overlapped' \in BOOLEAN
  BY DEF RInv, RegistryTypeOK
<1> QED
  BY <1>1, ExitsIs, CommandStep

(* Composing adds one entry, numbered after and chained to the last one.    *)
LEMMA ComposeIs ==
  ASSUME RInv, NEW s \in Sites, ComposeEntry(s)
  PROVE  /\ UNCHANGED <<registry, acked, overlapped>>
         /\ entry \in Seq(Entry) /\ entry' \in Seq(Entry)
         /\ Len(entry) \in Nat /\ Len(entry') = Len(entry) + 1
         /\ \A id \in 1..Len(entry) : entry'[id] = entry[id]
         /\ \E last \in 0..Len(entry) :
              /\ LastEntry(last)
              /\ entry'[Len(entry) + 1].seq = NextSequence(last)
              /\ entry'[Len(entry) + 1].prev = last
         /\ register' \in [Sites -> Register]
         /\ \A t \in Sites : t # s => register'[t] = register[t]
         /\ register'[s].pc = "composed" /\ register'[s].id = Len(entry) + 1
<1>1. register[s] \in Register /\ register[s].fp \in Fingerprints /\ entry \in Seq(Entry)
  BY DEF RInv, RegistryTypeOK, RefsOK, ComposeEntry
<1>2. PICK last \in 0..Len(entry) :
        /\ LastEntry(last)
        /\ entry' = Append(entry,
             [seq |-> NextSequence(last), prev |-> last, site |-> s, fp |-> register[s].fp])
  BY DEF ComposeEntry
<1> DEFINE new == [seq |-> NextSequence(last), prev |-> last, site |-> s, fp |-> register[s].fp]
           rec == [register[s] EXCEPT !.pc = "composed", !.id = Len(entry) + 1]
<1>3. Len(entry) \in Nat
  BY <1>1
<1>4. NextSequence(last) \in Nat
  <2>1. last # 0 => entry[last] \in Entry
    BY <1>1, <1>3
  <2>2. last # 0 => entry[last].seq \in Nat
    BY <2>1 DEF Entry
  <2> QED
    BY <2>2 DEF NextSequence, NoEntry
<1>5. new \in Entry /\ new.seq = NextSequence(last) /\ new.prev = last
  BY <1>1, <1>3, <1>4 DEF Entry
<1>6. register' = [register EXCEPT ![s] = rec]
  BY DEF ComposeEntry, RInv, RegistryTypeOK, Register
<1>7. rec \in Register /\ rec.pc = "composed" /\ rec.id = Len(entry) + 1
  <2>1. register[s] \in Register /\ Len(entry) + 1 \in Nat
    BY <1>1, <1>3
  <2> QED
    BY <2>1 DEF Register
<1>8. entry' = Append(entry, new)
  BY <1>2
<1> HIDE DEF new, rec
<1>9. /\ entry' \in Seq(Entry) /\ Len(entry') = Len(entry) + 1
      /\ \A id \in 1..Len(entry) : entry'[id] = entry[id]
      /\ entry'[Len(entry) + 1] = new
  BY <1>1, <1>5, <1>8
<1>10. register \in [Sites -> Register] /\ UNCHANGED <<registry, acked, overlapped>>
  BY DEF RInv, RegistryTypeOK, ComposeEntry
<1>11. /\ register' \in [Sites -> Register]
       /\ \A t \in Sites : t # s => register'[t] = register[t]
       /\ register'[s].pc = "composed" /\ register'[s].id = Len(entry) + 1
  BY <1>6, <1>7, <1>10
<1>12. /\ LastEntry(last)
       /\ entry'[Len(entry) + 1].seq = NextSequence(last)
       /\ entry'[Len(entry) + 1].prev = last
  BY <1>2, <1>5, <1>9
<1>13. \E l \in 0..Len(entry) :
         /\ LastEntry(l)
         /\ entry'[Len(entry) + 1].seq = NextSequence(l)
         /\ entry'[Len(entry) + 1].prev = l
  BY <1>12
<1> QED
  BY <1>1, <1>3, <1>9, <1>10, <1>11, <1>13

LEMMA ComposePreserves ==
  ASSUME RInv, NEW s \in Sites, ComposeEntry(s)
  PROVE  RInv'
<1>1. Positions' = Positions /\ \A id : InFile(id)' <=> InFile(id)
  BY ComposeIs DEF Positions, InFile
<1>2. RegistryTypeOK'
  BY ComposeIs DEF RInv, RegistryTypeOK
<1>3. 1..Len(entry) \subseteq 1..Len(entry') /\ Len(entry) + 1 \in 1..Len(entry')
  BY ComposeIs
<1>4. RefsOK'
  BY <1>1, <1>3, ComposeIs DEF RInv, RefsOK
<1>5. AckedInFile'
  BY <1>1, ComposeIs DEF RInv, AckedInFile
<1> QED
  BY <1>2, <1>4, <1>5 DEF RInv

(* A write to the file: entries named by their own command, or marks.       *)
LEMMA WritePreserves ==
  ASSUME RInv, NEW s \in Sites, NEW piece \in Pieces,
         registry' = Append(registry, piece),
         piece \in Nat => piece \in 1..Len(entry),
         UNCHANGED <<entry, overlapped>>,
         register' \in [Sites -> Register],
         \A t \in Sites : t # s => register'[t] = register[t],
         \/ register'[s].pc = "idle"
         \/ register'[s].pc = "body_written" /\ register'[s].id = piece /\ piece \in Nat,
         acked' \subseteq acked \union {id \in Nat : InFile(id)}
  PROVE  RInv'
<1>1. registry \in Seq(Pieces)
  BY DEF RInv, RegistryTypeOK
<1>2. \A id : InFile(id) => InFile(id)'
  BY <1>1, AppendKeeps DEF InFile
<1>3. piece \in Nat => InFile(piece)'
  BY <1>1, AppendKeeps DEF InFile
<1>4. RegistryTypeOK'
  BY <1>1, AppendKeeps DEF RInv, RegistryTypeOK
<1>5. \A i \in Positions' : registry'[i] \in 1..Len(entry')
  <2> SUFFICES ASSUME NEW i \in Positions' PROVE registry'[i] \in 1..Len(entry')
    OBVIOUS
  <2>1. CASE i \in Positions
    BY <1>1, <2>1, AppendKeeps DEF RInv, RefsOK
  <2>2. CASE registry'[i] = piece
    BY <2>2 DEF Positions
  <2> QED
    BY <1>1, <2>1, <2>2, AppendKeeps
<1>6. RefsOK'
  BY <1>5 DEF RInv, RefsOK
<1>7. AckedInFile'
  BY <1>2, <1>3 DEF RInv, AckedInFile
<1> QED
  BY <1>4, <1>6, <1>7 DEF RInv

LEMMA BodyIs ==
  ASSUME RInv, NEW s \in Sites, WriteBody(s)
  PROVE  /\ register[s].id \in 1..Len(entry) /\ register[s].id \in Nat
         /\ register' \in [Sites -> Register]
         /\ \A t \in Sites : t # s => register'[t] = register[t]
         /\ register'[s].pc = "body_written" /\ register'[s].id = register[s].id
<1>1. register[s] \in Register /\ register \in [Sites -> Register]
  BY DEF RInv, RegistryTypeOK
<1> DEFINE rec == [register[s] EXCEPT !.pc = "body_written"]
<1>2. rec \in Register /\ rec.pc = "body_written" /\ rec.id = register[s].id
  BY <1>1 DEF Register
<1>3. register' = [register EXCEPT ![s] = rec]
  BY <1>1 DEF WriteBody
<1> HIDE DEF rec
<1>4. register[s].id \in 1..Len(entry)
  BY DEF RInv, RefsOK, WriteBody
<1> QED
  BY <1>1, <1>2, <1>3, <1>4

LEMMA StepPreserves == RInv /\ [RegistryNext]_registryVars => RInv'
<1> SUFFICES ASSUME RInv, [RegistryNext]_registryVars PROVE RInv'
  OBVIOUS
<1>0. /\ register \in [Sites -> Register] /\ overlapped \in BOOLEAN
      /\ acked \subseteq Nat
  BY DEF RInv, RegistryTypeOK
<1>1. ASSUME NEW s \in Sites, NEW fp \in Fingerprints, StartRegister(s, fp) PROVE RInv'
  BY <1>0, <1>1, StartIs, CommandStep
<1>2. ASSUME NEW s \in Sites, RejectTimestamp(s) \/ RefuseUnreadable(s) \/ RegisterDies(s)
      PROVE RInv'
  BY <1>2, ExitPreserves DEF RejectTimestamp, RefuseUnreadable, RegisterDies
<1>3. ASSUME NEW s \in Sites, ComposeEntry(s) PROVE RInv'
  BY <1>3, ComposePreserves
<1>4. ASSUME NEW s \in Sites, WriteBody(s) PROVE RInv'
  <2>1. register[s].id \in Pieces
    BY <1>4, BodyIs, PiecesAreTyped
  <2>2. registry' = Append(registry, register[s].id) /\ UNCHANGED <<entry, acked, overlapped>>
    BY <1>4 DEF WriteBody
  <2> QED
    BY <1>4, <2>1, <2>2, BodyIs, WritePreserves
<1>5. ASSUME NEW s \in Sites, WriteNewline(s) PROVE RInv'
  <2>1. register[s].pc = "body_written" /\ UNCHANGED <<entry, overlapped>>
        /\ registry' = Append(registry, Newline) /\ acked' = acked \union {register[s].id}
    BY <1>5 DEF WriteNewline
  <2>2. InFile(register[s].id) /\ register[s].id \in Nat
    BY <1>0, <2>1 DEF RInv, AckedInFile, Register
  <2>3. Exits(s, "other")
    BY <1>5 DEF WriteNewline
  <2> QED
    BY <1>0, <2>1, <2>2, <2>3, ExitsIs, PiecesAreTyped, MarksAreNoEntries, WritePreserves
<1>6. ASSUME NEW s \in Sites, TearBody(s) PROVE RInv'
  <2>1. registry' = Append(registry, Torn) /\ UNCHANGED <<entry, acked, overlapped>> /\ Exits(s, "other")
    BY <1>6 DEF TearBody
  <2> QED
    BY <1>0, <2>1, ExitsIs, PiecesAreTyped, MarksAreNoEntries, WritePreserves
<1>7. CASE UNCHANGED registryVars
  BY <1>0, <1>7, CommandStep DEF registryVars
<1> QED
  BY <1>1, <1>2, <1>3, <1>4, <1>5, <1>6, <1>7 DEF RegistryNext, RegisterSteps

-----------------------------------------------------------------------------
(* Commands may overlap and die.                                            *)

THEOREM RegistryInvariant == RegistrySpec => []RInv
BY InitEstablishes, StepPreserves, PTL DEF RegistrySpec

(* Every variable of the registry keeps its type.                           *)
THEOREM RegistryTypeCorrect == RegistrySpec => []RegistryTypeOK
BY RegistryInvariant, PTL DEF RInv

(* A registration that a command reported as done stays in the file.        *)
THEOREM AckedIsListedCorrect == RegistrySpec => []AckedIsListed
<1>1. RInv => AckedIsListed
  BY DEF RInv, AckedInFile, InFile, AckedIsListed
<1> QED
  BY <1>1, RegistryInvariant, PTL

-----------------------------------------------------------------------------
(* Commands do not overlap, but may still die anywhere.                     *)

(* One command runs; what it has composed still continues the file; and the *)
(* file is a chain.                                                         *)
Alone == \A s, t \in Sites : Registering(s) /\ Registering(t) => s = t

Continues(id) ==
  \E last \in 0..Len(entry) :
    LastEntry(last) /\ entry[id].seq = NextSequence(last) /\ entry[id].prev = last

Poised == \A s \in Sites : register[s].pc = "composed" => Continues(register[s].id)

SInv == RInv /\ Alone /\ Poised /\ ChainHolds

(* A step that writes no entry to the file.                                 *)
LEMMA ChainKept ==
  ASSUME RInv, ChainHolds, Positions' = Positions,
         \A i \in Positions : registry'[i] = registry[i],
         \A id \in 1..Len(entry) : entry'[id] = entry[id]
  PROVE  ChainHolds'
<1>1. \A i \in Positions : entry'[registry'[i]] = entry[registry[i]]
  BY DEF RInv, RefsOK
<1>2. \A i, j \in Positions : Precedes(j, i)' <=> Precedes(j, i)
  BY DEF Precedes
<1> QED
  BY <1>1, <1>2 DEF ChainHolds

LEMMA QuietStep ==
  ASSUME SInv, UNCHANGED <<registry, entry>>,
         \A s \in Sites : register'[s] = register[s] \/ register'[s].pc \in {"idle", "stamped"}
  PROVE  Poised' /\ ChainHolds'
<1>1. Positions' = Positions
  BY DEF Positions
<1>2. \A last : LastEntry(last)' <=> LastEntry(last)
  BY <1>1 DEF LastEntry
<1>3. \A id : Continues(id) => Continues(id)'
  BY <1>2 DEF Continues, NextSequence
<1>4. Poised'
  BY <1>3 DEF SInv, Poised
<1> QED
  BY <1>1, <1>4, ChainKept DEF SInv

(* A step that ends the command of s, the only one.                         *)
LEMMA EndsAlone ==
  ASSUME Alone, NEW s \in Sites, Registering(s), register'[s].pc = "idle",
         \A t \in Sites : t # s => register'[t] = register[t]
  PROVE  Alone' /\ Poised'
BY DEF Alone, Poised, Registering

LEMMA SameCommands ==
  ASSUME Alone, \A t \in Sites : Registering(t)' => Registering(t)
  PROVE  Alone'
BY DEF Alone

LEMMA SerialCompose ==
  ASSUME SInv, NEW s \in Sites, ComposeEntry(s)
  PROVE  Alone' /\ Poised' /\ ChainHolds'
<1>1. Positions' = Positions /\ \A last : LastEntry(last)' <=> LastEntry(last)
  BY ComposeIs DEF SInv, Positions, LastEntry
<1>2. Registering(s) /\ \A t \in Sites : Registering(t)' => Registering(t)
  BY ComposeIs DEF SInv, Registering, ComposeEntry
<1>3. \A last \in 0..Len(entry) :
        LastEntry(last) => last \in 0..Len(entry') /\ NextSequence(last)' = NextSequence(last)
  BY ComposeIs DEF SInv, NextSequence, NoEntry
<1>4. ASSUME NEW id, id = Len(entry) + 1 PROVE Continues(id)'
  <2>1. PICK last \in 0..Len(entry) :
          /\ LastEntry(last)
          /\ entry'[Len(entry) + 1].seq = NextSequence(last)
          /\ entry'[Len(entry) + 1].prev = last
    BY ComposeIs DEF SInv
  <2>2. LastEntry(last)' /\ NextSequence(last)' = NextSequence(last) /\ last \in 0..Len(entry')
    BY <1>1, <1>3, <2>1
  <2>3. entry'[id].seq = NextSequence(last)' /\ entry'[id].prev = last
    BY <1>4, <2>1, <2>2
  <2> QED
    BY <2>2, <2>3 DEF Continues
<1>5. \A t \in Sites : register'[t].pc = "composed" => t = s
  BY <1>2, ComposeIs DEF SInv, Alone, Registering
<1>6. Poised'
  <2> SUFFICES ASSUME NEW t \in Sites, register'[t].pc = "composed" PROVE Continues(register[t].id)'
    BY DEF Poised
  <2>1. register'[t].id = Len(entry) + 1
    BY <1>5, ComposeIs DEF SInv
  <2> QED
    BY <1>4, <2>1
<1>7. ChainHolds'
  BY <1>1, ComposeIs, ChainKept DEF SInv
<1>8. Alone'
  BY <1>2, SameCommands DEF SInv
<1> QED
  BY <1>6, <1>7, <1>8

LEMMA SerialWriteBody ==
  ASSUME SInv, NEW s \in Sites, WriteBody(s)
  PROVE  Alone' /\ Poised' /\ ChainHolds'
<1> DEFINE id == register[s].id
           end == Len(registry) + 1
<1>1. registry \in Seq(Pieces) /\ registry' = Append(registry, id) /\ entry' = entry
  BY DEF SInv, RInv, RegistryTypeOK, WriteBody
<1>2. id \in Nat /\ id \in Pieces
  BY BodyIs, PiecesAreTyped DEF SInv
<1>3. \A t \in Sites : Registering(t)' => Registering(t)
  BY BodyIs DEF SInv, Registering, WriteBody
<1>4. \A t \in Sites : register'[t].pc # "composed"
  <2> SUFFICES ASSUME NEW t \in Sites, register'[t].pc = "composed" PROVE FALSE
    OBVIOUS
  <2>1. t # s /\ register[t].pc = "composed" /\ register[s].pc = "composed"
    BY BodyIs DEF SInv, WriteBody
  <2> QED
    BY <2>1 DEF SInv, Alone, Registering
<1>5. PICK last \in 0..Len(entry) :
        LastEntry(last) /\ entry[id].seq = NextSequence(last) /\ entry[id].prev = last
  BY DEF SInv, Poised, Continues, WriteBody
<1> HIDE DEF id
<1>6. /\ Positions \subseteq 1..Len(registry) /\ Len(registry) \in Nat
      /\ Positions' = Positions \union {end}
      /\ \A i \in Positions : registry'[i] = registry[i]
      /\ registry'[end] = id
  BY <1>1, <1>2, AppendKeeps
<1> HIDE DEF end
<1>7. end \in Nat /\ \A i \in Positions : i \in Nat /\ i < end
  BY <1>6 DEF end
<1>8. ASSUME NEW i \in Positions', \A j \in Positions' : i <= j
      PROVE  entry'[registry'[i]].seq = 0 /\ entry'[registry'[i]].prev = NoEntry
  <2>1. CASE i \in Positions
    BY <1>1, <1>6, <1>8, <2>1 DEF SInv, ChainHolds
  <2>2. CASE i = end
    <3>1. Positions = {}
      BY <1>6, <1>7, <1>8, <2>2
    <3>2. last = NoEntry
      BY <1>5, <3>1 DEF LastEntry
    <3> QED
      BY <1>1, <1>5, <1>6, <2>2, <3>2 DEF NextSequence
  <2> QED
    BY <1>6, <2>1, <2>2
<1>9. ASSUME NEW i \in Positions', NEW j \in Positions', Precedes(j, i)'
      PROVE  /\ entry'[registry'[i]].prev = registry'[j]
             /\ entry'[registry'[i]].seq = entry'[registry'[j]].seq + 1
  <2>1. j < i /\ \A k \in Positions' : k <= j \/ i <= k
    BY <1>9 DEF Precedes
  <2>2. CASE i \in Positions
    <3>1. j \in Positions /\ Precedes(j, i)
      BY <1>6, <1>7, <2>1, <2>2 DEF Precedes
    <3> QED
      BY <1>1, <1>6, <2>2, <3>1 DEF SInv, ChainHolds
  <2>3. CASE i = end
    <3>1. j \in Positions /\ \A k \in Positions : k <= j
      BY <1>6, <1>7, <2>1, <2>3
    <3>2. last = registry[j]
      <4>1. PICK m \in Positions : (\A k \in Positions : k <= m) /\ last = registry[m]
        BY <1>5, <3>1 DEF LastEntry
      <4>2. m = j
        BY <1>7, <3>1, <4>1
      <4> QED
        BY <4>1, <4>2
    <3>3. last # NoEntry
      BY <3>1, <3>2 DEF SInv, RInv, RefsOK, NoEntry
    <3> QED
      BY <1>1, <1>5, <1>6, <2>3, <3>1, <3>2, <3>3 DEF NextSequence
  <2> QED
    BY <1>6, <2>2, <2>3
<1>10. ChainHolds'
  BY <1>8, <1>9 DEF ChainHolds
<1>11. Alone' /\ Poised'
  BY <1>3, <1>4, SameCommands DEF SInv, Poised
<1> QED
  BY <1>10, <1>11

LEMMA MarkStep ==
  ASSUME SInv, NEW s \in Sites, Registering(s), NEW mark \in {Newline, Torn},
         Exits(s, "other"),
         registry' = Append(registry, mark), UNCHANGED entry
  PROVE  Alone' /\ Poised' /\ ChainHolds'
<1>1. registry \in Seq(Pieces) /\ register \in [Sites -> Register]
  BY DEF SInv, RInv, RegistryTypeOK
<1>2. mark \in Pieces /\ mark \notin Nat
  BY PiecesAreTyped, MarksAreNoEntries
<1>3. Positions' = Positions /\ \A i \in Positions : registry'[i] = registry[i]
  BY <1>1, <1>2, AppendKeeps
<1>4. ChainHolds'
  BY <1>3, ChainKept DEF SInv
<1>5. Alone' /\ Poised'
  BY <1>1, ExitsIs, EndsAlone DEF SInv
<1> QED
  BY <1>4, <1>5

LEMMA SerialStep ==
  ASSUME SInv, [RegistryNext]_registryVars, ~overlapped' PROVE SInv'
<1> SUFFICES Alone' /\ Poised' /\ ChainHolds'
  BY StepPreserves DEF SInv
<1>0. register \in [Sites -> Register] /\ RInv
  BY DEF SInv, RInv, RegistryTypeOK
<1>1. ASSUME NEW s \in Sites, NEW fp \in Fingerprints, StartRegister(s, fp)
      PROVE  Alone' /\ Poised' /\ ChainHolds'
  <2>1. \A t \in Sites : ~Registering(t)
    <3> DEFINE beside == \E t \in Sites : Registering(t)
    <3>1. overlapped' = (overlapped \/ beside)
      BY <1>1 DEF StartRegister
    <3> HIDE DEF beside
    <3>2. ~beside
      BY <3>1
    <3> QED
      BY <3>2 DEF beside
  <2>2. Alone'
    BY <1>0, <1>1, <2>1, StartIs DEF Alone, Registering
  <2> QED
    BY <1>0, <1>1, <2>2, StartIs, QuietStep
<1>2. ASSUME NEW s \in Sites, RejectTimestamp(s) \/ RefuseUnreadable(s) \/ RegisterDies(s)
      PROVE  Alone' /\ Poised' /\ ChainHolds'
  <2>1. Registering(s) /\ UNCHANGED <<registry, entry>>
        /\ \E exit \in {"other", "bad_timestamp"} : Exits(s, exit)
    BY <1>2 DEF RejectTimestamp, RefuseUnreadable, RegisterDies, Registering
  <2>2. register'[s].pc = "idle" /\ \A t \in Sites : t # s => register'[t] = register[t]
    BY <1>0, <2>1, ExitsIs
  <2> QED
    BY <2>1, <2>2, EndsAlone, QuietStep DEF SInv
<1>3. ASSUME NEW s \in Sites, ComposeEntry(s) PROVE Alone' /\ Poised' /\ ChainHolds'
  BY <1>3, SerialCompose
<1>4. ASSUME NEW s \in Sites, WriteBody(s) PROVE Alone' /\ Poised' /\ ChainHolds'
  BY <1>4, SerialWriteBody
<1>5. ASSUME NEW s \in Sites, WriteNewline(s) \/ TearBody(s)
      PROVE  Alone' /\ Poised' /\ ChainHolds'
  BY <1>5, MarkStep DEF WriteNewline, TearBody, Registering
<1>6. CASE UNCHANGED registryVars
  BY <1>6, SameCommands, QuietStep DEF registryVars, SInv, Registering
<1> QED
  BY <1>1, <1>2, <1>3, <1>4, <1>5, <1>6 DEF RegistryNext, RegisterSteps

(* The history is never taken back.                                         *)
LEMMA OverlappedStays == [RegistryNext]_registryVars /\ overlapped => overlapped'
<1> SUFFICES ASSUME [RegistryNext]_registryVars, overlapped PROVE overlapped'
  OBVIOUS
<1>1. ASSUME NEW s \in Sites, NEW fp \in Fingerprints, StartRegister(s, fp) PROVE overlapped'
  BY <1>1 DEF StartRegister
<1>2. ASSUME NEW s \in Sites, RegisterSteps(s) PROVE overlapped'
  BY <1>2 DEF RegisterSteps, RejectTimestamp, ComposeEntry, RefuseUnreadable, WriteBody,
    WriteNewline, RegisterDies, TearBody
<1> QED
  BY <1>1, <1>2 DEF RegistryNext, registryVars

LEMMA InitSerial == RegistryInit => SInv
<1> SUFFICES ASSUME RegistryInit PROVE SInv
  OBVIOUS
<1>1. Positions = {} /\ \A s \in Sites : register[s].pc = "idle"
  BY DEF RegistryInit, Positions, NotRunning
<1> QED
  BY <1>1, InitEstablishes DEF SInv, Alone, Poised, ChainHolds, Registering

(* Until two commands overlap the chain never forks, whatever dies where.    *)
THEOREM NeverForkedCorrect == RegistrySpec => []NeverForked
<1> DEFINE Inv == ~overlapped => SInv
<1>1. RegistryInit => Inv
  BY InitSerial
<1>2. Inv /\ [RegistryNext]_registryVars => Inv'
  BY SerialStep, OverlappedStays
<1>3. Inv => NeverForked
  BY DEF SInv, NeverForked, Verdict
<1> QED
  BY <1>1, <1>2, <1>3, PTL DEF RegistrySpec

-----------------------------------------------------------------------------
(* Sites that build, pass the gate and register do to the registry what     *)
(* RegistrySpec allows and nothing else, so what is proved above holds of   *)
(* them too.                                                                *)
THEOREM GateUsesRegistry == Spec => RegistrySpec
<1>1. Init => RegistryInit
  BY DEF Init
<1>2. ASSUME [Next]_vars PROVE [RegistryNext]_registryVars
  <2>1. CASE UNCHANGED vars
    BY <2>1 DEF vars
  <2>2. ASSUME NEW s \in Sites, NEW fp \in Fingerprints, StartGate(s, fp)
        PROVE  UNCHANGED registryVars
    BY <2>2 DEF StartGate
  <2>3. ASSUME NEW s \in Sites, NEW fp \in Fingerprints, StartGatedRegister(s, fp)
        PROVE  RegistryNext
    BY <2>3 DEF StartGatedRegister, RegistryNext
  <2>4. ASSUME NEW s \in Sites, RegisterSite(s) PROVE RegistryNext
    BY <2>4 DEF RegisterSite, RegistryNext
  <2>5. ASSUME NEW s \in Sites, LookUp(s) \/ Scan(s) PROVE UNCHANGED registryVars
    BY <2>5 DEF LookUp, Scan
  <2> QED
    BY <1>2, <2>1, <2>2, <2>3, <2>4, <2>5 DEF Next
<1> QED
  BY <1>1, <1>2, PTL DEF Spec, RegistrySpec

(* A gated build keeps the acknowledged registrations.                      *)
THEOREM GatedAckedIsListed == Spec => []AckedIsListed
BY GateUsesRegistry, AckedIsListedCorrect, PTL
=============================================================================
