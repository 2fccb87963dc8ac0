-------------------------------- MODULE Listing --------------------------------
(***************************************************************************)
(* Finite sets listed in an order, without recursion: an element's place   *)
(* is the number of elements before it.  What SelectSeq and SortSeq of the *)
(* libraries compute by recursion is defined here by its places, so that   *)
(* what is said of it can be proved; MCMachines compares the two.          *)
(***************************************************************************)
EXTENDS Naturals, Sequences, FiniteSets

\* The elements of S, of which R is a strict total order (a set of pairs), the first first.
Listed(S, R) ==
  [k \in 1..Cardinality(S) |->
     CHOOSE i \in S : Cardinality({j \in S : <<j, i>> \in R}) = k - 1]

\* numbers, the lowest first
Upwards(S) == Listed(S, {p \in S \X S : p[1] < p[2]})

\* the elements of seq at the positions in S, in the order they have there
Picked(seq, S) == [k \in 1..Cardinality(S) |-> seq[Upwards(S)[k]]]
=============================================================================
