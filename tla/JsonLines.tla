------------------------------ MODULE JsonLines ------------------------------
(***************************************************************************)
(* A newline-delimited JSON file as forge-core writes and reads it.  Every *)
(* append opens the file in O_APPEND mode and makes two writes, the        *)
(* record's body and then the newline; a process can die, or another one   *)
(* can append, between the two.  The file is the sequence of what was      *)
(* written: record numbers, Torn (a body cut short) and Newline.           *)
(*                                                                         *)
(* A line parses when it holds exactly one whole record: two bodies with   *)
(* no newline between them are one line of trailing garbage, while a last  *)
(* line without a newline is still a line.  Blank lines are skipped.       *)
(***************************************************************************)
EXTENDS Naturals, Sequences

CONSTANTS
  Newline,  \* the second write of an append
  Torn      \* a body that was only partly written

ASSUME PiecesAssumption == Newline \notin Nat /\ Torn \notin Nat /\ Newline # Torn

Pieces == Nat \union {Newline, Torn}

OnOwnLine(file, i) ==
  /\ i > 1 => file[i - 1] = Newline
  /\ i < Len(file) => file[i + 1] = Newline

LineParses(file, i) == file[i] \in Nat /\ OnOwnLine(file, i)

(* The strict readers return an error as soon as one line does not parse.   *)
Readable(file) == \A i \in DOMAIN file : file[i] # Newline => LineParses(file, i)

(* The lenient readers skip the lines that do not parse.                    *)
Salvaged(file) == {file[i] : i \in {j \in DOMAIN file : LineParses(file, j)}}
=============================================================================
