---------------------------- MODULE MachineProofs ----------------------------
(***************************************************************************)
(* The machines of MCMachines: of each, the invariant its properties rest  *)
(* on, and the properties, for every value of its constants.  First what   *)
(* the operators of Listing give, on which the readers of files, the brief *)
(* and the runners are built; last that MCMachines runs the parts as they  *)
(* are.                                                                    *)
(***************************************************************************)
EXTENDS MCMachines, SessionProofs, FiniteSetTheorems, FunctionTheorems, WellFoundedInduction, TLAPS

(* What Listing's operators compute.  R orders S strictly and totally.     *)
Orders(S, R) ==
  /\ \A i \in S : <<i, i>> \notin R
  /\ \A i, j \in S : i # j => <<i, j>> \in R \/ <<j, i>> \in R
  /\ \A i, j, k \in S : <<i, j>> \in R /\ <<j, k>> \in R => <<i, k>> \in R

Lower(S, R, i) == {j \in S : <<j, i>> \in R}

(* The lower of two elements has fewer elements below it.                  *)
LEMMA LowerCounts ==
  ASSUME NEW S, IsFiniteSet(S), NEW R, Orders(S, R)
  PROVE  /\ Cardinality(S) \in Nat
         /\ \A i \in S : Cardinality(Lower(S, R, i)) \in 0..Cardinality(S) - 1
         /\ \A i, j \in S :
              <<i, j>> \in R => Cardinality(Lower(S, R, i)) < Cardinality(Lower(S, R, j))
<1>1. Cardinality(S) \in Nat
  BY FS_CardinalityType
<1>2. ASSUME NEW i \in S
      PROVE  /\ IsFiniteSet(Lower(S, R, i))
             /\ Cardinality(Lower(S, R, i)) \in 0..Cardinality(S) - 1
  <2>1. Lower(S, R, i) \in SUBSET (S \ {i})
    BY DEF Lower, Orders
  <2>2. IsFiniteSet(S \ {i}) /\ Cardinality(S \ {i}) = Cardinality(S) - 1
    BY <1>2, FS_RemoveElement
  <2>3. IsFiniteSet(Lower(S, R, i)) /\ Cardinality(Lower(S, R, i)) <= Cardinality(S \ {i})
    BY <2>1, <2>2, FS_Subset
  <2>4. Cardinality(Lower(S, R, i)) \in Nat
    BY <2>3, FS_CardinalityType
  <2> QED
    BY <1>1, <2>2, <2>3, <2>4
<1>3. ASSUME NEW i \in S, NEW j \in S, <<i, j>> \in R
      PROVE  Cardinality(Lower(S, R, i)) < Cardinality(Lower(S, R, j))
  <2>1. Lower(S, R, i) \in SUBSET Lower(S, R, j)
    BY <1>3 DEF Lower, Orders
  <2>2. i \in Lower(S, R, j) /\ i \notin Lower(S, R, i)
    BY <1>3 DEF Lower, Orders
  <2>3. /\ Cardinality(Lower(S, R, i)) <= Cardinality(Lower(S, R, j))
        /\ Cardinality(Lower(S, R, j)) = Cardinality(Lower(S, R, i))
             => Lower(S, R, j) = Lower(S, R, i)
    BY <1>2, <2>1, FS_Subset
  <2> QED
    BY <1>2, <2>2, <2>3
<1> QED
  BY <1>1, <1>2, <1>3

(* A listing is all of the set, once each and in its order.                *)
LEMMA ListedFacts ==
  ASSUME NEW S, IsFiniteSet(S), NEW R, Orders(S, R)
  PROVE  /\ Cardinality(S) \in Nat
         /\ Listed(S, R) \in [1..Cardinality(S) -> S]
         /\ \A k \in 1..Cardinality(S) : Cardinality(Lower(S, R, Listed(S, R)[k])) = k - 1
         /\ \A i \in S : \E k \in 1..Cardinality(S) : Listed(S, R)[k] = i
         /\ \A k, l \in 1..Cardinality(S) :
              k < l <=> <<Listed(S, R)[k], Listed(S, R)[l]>> \in R
<1> DEFINE N == Cardinality(S)
           rank == [i \in S |-> Cardinality(Lower(S, R, i)) + 1]
<1>1. N \in Nat
  BY LowerCounts
<1>2. rank \in [S -> 1..N] /\ \A i, j \in S : <<i, j>> \in R => rank[i] < rank[j]
  <2>1. \A i \in S : Cardinality(Lower(S, R, i)) \in 0..N - 1
    BY LowerCounts
  <2>2. \A i \in S : Cardinality(Lower(S, R, i)) + 1 \in 1..N
    BY <1>1, <2>1
  <2>3. ASSUME NEW i \in S, NEW j \in S, <<i, j>> \in R PROVE rank[i] < rank[j]
    <3>1. Cardinality(Lower(S, R, i)) < Cardinality(Lower(S, R, j))
      BY <2>3, LowerCounts
    <3> QED
      BY <1>1, <2>1, <3>1
  <2> QED
    BY <2>2, <2>3
<1>3. \A i, j \in S : rank[i] = rank[j] => i = j
  <2> HIDE DEF N, rank
  <2> SUFFICES ASSUME NEW i \in S, NEW j \in S, rank[i] = rank[j], i # j PROVE FALSE
    OBVIOUS
  <2>1. rank[i] < rank[j] \/ rank[j] < rank[i]
    BY <1>2 DEF Orders
  <2> QED
    BY <1>1, <1>2, <2>1
<1>4. rank \in Injection(S, 1..N)
  BY <1>2, <1>3 DEF Injection, IsInjective
<1>5. IsFiniteSet(1..N) /\ Cardinality(1..N) = N
  BY <1>1, FS_Interval
<1>6. rank \in Surjection(S, 1..N)
  BY <1>4, <1>5, FS_Injection
<1>7. \A k \in 1..N : \E i \in S : rank[i] = k
  BY <1>6 DEF Surjection
<1>8. ASSUME NEW k \in 1..N PROVE Listed(S, R)[k] \in S /\ rank[Listed(S, R)[k]] = k
  <2>1. \A i \in S : Cardinality({j \in S : <<j, i>> \in R}) = k - 1 <=> rank[i] = k
    BY <1>1, LowerCounts DEF Lower
  <2>2. \E i \in S : Cardinality({j \in S : <<j, i>> \in R}) = k - 1
    BY <1>7, <2>1
  <2>3. Listed(S, R)[k] = CHOOSE i \in S : Cardinality({j \in S : <<j, i>> \in R}) = k - 1
    BY DEF Listed
  <2> QED
    BY <2>1, <2>2, <2>3
<1>9. Listed(S, R) \in [1..N -> S]
  BY <1>8 DEF Listed
<1>10. \A i \in S : \E k \in 1..N : Listed(S, R)[k] = i
  BY <1>2, <1>3, <1>8
<1>11. \A k, l \in 1..N : k < l <=> <<Listed(S, R)[k], Listed(S, R)[l]>> \in R
  <2> SUFFICES ASSUME NEW k \in 1..N, NEW l \in 1..N
               PROVE  k < l <=> <<Listed(S, R)[k], Listed(S, R)[l]>> \in R
    OBVIOUS
  <2>1. <<Listed(S, R)[k], Listed(S, R)[l]>> \in R => k < l
    BY <1>2, <1>8
  <2>2. <<Listed(S, R)[l], Listed(S, R)[k]>> \in R => l < k
    BY <1>2, <1>8
  <2>3. k < l => k # l /\ ~(l < k)
    BY <1>1
  <2>4. k # l => Listed(S, R)[k] # Listed(S, R)[l]
    BY <1>8
  <2>5. Listed(S, R)[k] \in S /\ Listed(S, R)[l] \in S
    BY <1>8
  <2> QED
    BY <2>1, <2>2, <2>3, <2>4, <2>5 DEF Orders
<1>12. \A k \in 1..N : Cardinality(Lower(S, R, Listed(S, R)[k])) = k - 1
  <2> SUFFICES ASSUME NEW k \in 1..N PROVE Cardinality(Lower(S, R, Listed(S, R)[k])) = k - 1
    OBVIOUS
  <2>1. Listed(S, R)[k] \in S /\ rank[Listed(S, R)[k]] = k
    BY <1>8
  <2>2. Cardinality(Lower(S, R, Listed(S, R)[k])) \in 0..N - 1
    BY <2>1, LowerCounts
  <2>3. Cardinality(Lower(S, R, Listed(S, R)[k])) + 1 = k
    BY <2>1
  <2> QED
    BY <1>1, <2>2, <2>3
<1> QED
  BY <1>1, <1>9, <1>10, <1>11, <1>12
(* Positions, listed upwards.                                              *)
LEMMA UpwardsFacts ==
  ASSUME NEW n \in Nat, NEW S \in SUBSET (1..n)
  PROVE  /\ IsFiniteSet(S) /\ Cardinality(S) \in 0..n
         /\ Upwards(S) \in [1..Cardinality(S) -> S]
         /\ \A i \in S : \E k \in 1..Cardinality(S) : Upwards(S)[k] = i
         /\ \A k, l \in 1..Cardinality(S) : k < l <=> Upwards(S)[k] < Upwards(S)[l]
<1> DEFINE R == {p \in S \X S : p[1] < p[2]}
<1>1. IsFiniteSet(S) /\ Cardinality(S) \in 0..n
  <2>1. IsFiniteSet(1..n) /\ Cardinality(1..n) = n
    BY FS_Interval
  <2>2. IsFiniteSet(S) /\ Cardinality(S) <= Cardinality(1..n)
    BY <2>1, FS_Subset
  <2>3. Cardinality(S) \in Nat
    BY <2>2, FS_CardinalityType
  <2> QED
    BY <2>1, <2>2, <2>3
<1>2. \A i, j \in S : <<i, j>> \in R <=> i < j
  OBVIOUS
<1>3. Orders(S, R)
  BY <1>2 DEF Orders
<1> HIDE DEF R
<1>4. Upwards(S) = Listed(S, R)
  BY DEF Upwards, R
<1>5. /\ Upwards(S) \in [1..Cardinality(S) -> S]
      /\ \A i \in S : \E k \in 1..Cardinality(S) : Upwards(S)[k] = i
      /\ \A k, l \in 1..Cardinality(S) : k < l <=> <<Upwards(S)[k], Upwards(S)[l]>> \in R
  BY <1>1, <1>3, <1>4, ListedFacts
<1>6. ASSUME NEW k \in 1..Cardinality(S), NEW l \in 1..Cardinality(S)
      PROVE  k < l <=> Upwards(S)[k] < Upwards(S)[l]
  <2>1. Upwards(S)[k] \in S /\ Upwards(S)[l] \in S
    BY <1>5
  <2> QED
    BY <1>2, <1>5, <2>1
<1> QED
  BY <1>1, <1>5, <1>6

(* There is only one way to list them.                                     *)
LEMMA UpwardsUnique ==
  ASSUME NEW n \in Nat, NEW S \in SUBSET (1..n), NEW m \in Nat, NEW f \in [1..m -> S],
         \A k, l \in 1..m : k < l => f[k] < f[l],
         \A i \in S : \E k \in 1..m : f[k] = i
  PROVE  m = Cardinality(S) /\ f = Upwards(S)
<1> DEFINE R == {p \in S \X S : p[1] < p[2]}
<1>1. \A i, j \in S : <<i, j>> \in R <=> i < j
  OBVIOUS
<1>3. Upwards(S) = Listed(S, R)
  BY DEF Upwards
<1> HIDE DEF R
<1>2. Orders(S, R) /\ IsFiniteSet(S)
  <2>1. \A i \in S : i \in Nat
    OBVIOUS
  <2>2. Orders(S, R)
    BY <1>1, <2>1 DEF Orders
  <2> QED
    BY <2>2, UpwardsFacts
<1>0. ASSUME NEW k \in 1..m PROVE f[k] \in S /\ f[k] \in Nat /\ k \in Nat
  <2>1. f[k] \in S /\ k \in Nat
    OBVIOUS
  <2>2. S \subseteq Nat
    OBVIOUS
  <2> QED
    BY <2>1, <2>2
<1>4. \A k, l \in 1..m : f[k] = f[l] => k = l
  <2> SUFFICES ASSUME NEW k \in 1..m, NEW l \in 1..m, f[k] = f[l], k # l PROVE FALSE
    OBVIOUS
  <2>1. k < l \/ l < k
    OBVIOUS
  <2>2. f[k] < f[l] \/ f[l] < f[k]
    BY <2>1
  <2> QED
    BY <1>0, <2>2
<1>5. f \in Bijection(1..m, S)
  BY <1>4 DEF Bijection, Injection, Surjection, IsInjective
<1>6. IsFiniteSet(1..m) /\ Cardinality(1..m) = m
  BY FS_Interval
<1>7. m = Cardinality(S)
  BY <1>5, <1>6, FS_Bijection DEF ExistsBijection
<1>8. ASSUME NEW k \in 1..m PROVE Cardinality(Lower(S, R, f[k])) = k - 1
  <2> DEFINE T == Lower(S, R, f[k])
             g == [l \in 1..k - 1 |-> f[l]]
  <2>1. ASSUME NEW l \in 1..k - 1 PROVE l \in 1..m /\ f[l] \in T
    <3>1. l \in 1..m /\ l < k
      OBVIOUS
    <3>2. f[l] < f[k] /\ f[l] \in S /\ f[k] \in S
      BY <1>0, <3>1
    <3> QED
      BY <1>1, <3>1, <3>2 DEF Lower
  <2>2. ASSUME NEW i \in T PROVE \E l \in 1..k - 1 : f[l] = i
    <3>1. i \in S /\ i < f[k]
      BY <1>1 DEF Lower
    <3>2. PICK l \in 1..m : f[l] = i
      BY <3>1
    <3>3. ~(l = k) /\ ~(k < l)
      BY <1>0, <3>1, <3>2
    <3> QED
      BY <3>2, <3>3
  <2>3. g \in Bijection(1..k - 1, T)
    <3>1. g \in [1..k - 1 -> T]
      BY <2>1
    <3>2. \A a, b \in 1..k - 1 : g[a] = g[b] => a = b
      BY <1>4, <2>1
    <3>3. \A i \in T : \E l \in 1..k - 1 : g[l] = i
      BY <2>2
    <3> HIDE DEF g, T
    <3> QED
      BY <3>1, <3>2, <3>3 DEF Bijection, Injection, Surjection, IsInjective
  <2>4. IsFiniteSet(1..k - 1) /\ Cardinality(1..k - 1) = k - 1
    BY FS_Interval
  <2> HIDE DEF g, T
  <2>5. Cardinality(T) = k - 1
    BY <2>3, <2>4, FS_Bijection DEF ExistsBijection
  <2> QED
    BY <2>5 DEF T
<1>9. ASSUME NEW k \in 1..m PROVE f[k] = Upwards(S)[k]
  <2>1. Upwards(S)[k] \in S /\ Cardinality(Lower(S, R, Upwards(S)[k])) = k - 1
    BY <1>2, <1>3, <1>7, ListedFacts
  <2>2. PICK l \in 1..m : f[l] = Upwards(S)[k]
    BY <2>1
  <2>3. l - 1 = k - 1
    BY <1>8, <2>1, <2>2
  <2> QED
    BY <2>2, <2>3
<1>10. Upwards(S) \in [1..m -> S]
  BY <1>7, UpwardsFacts
<1> QED
  BY <1>7, <1>9, <1>10

(* What is picked out of a sequence.                                       *)
LEMMA PickedFacts ==
  ASSUME NEW X, NEW seq \in Seq(X), NEW S \in SUBSET (1..Len(seq))
  PROVE  /\ Cardinality(S) \in 0..Len(seq)
         /\ Picked(seq, S) \in Seq(X) /\ Len(Picked(seq, S)) = Cardinality(S)
         /\ Upwards(S) \in [1..Cardinality(S) -> S]
         /\ \A k \in 1..Cardinality(S) : Picked(seq, S)[k] = seq[Upwards(S)[k]]
         /\ \A i \in S : \E k \in 1..Cardinality(S) : Upwards(S)[k] = i
         /\ \A k, l \in 1..Cardinality(S) : k < l <=> Upwards(S)[k] < Upwards(S)[l]
<1> DEFINE N == Cardinality(S)
<1>1. Len(seq) \in Nat /\ seq \in [1..Len(seq) -> X]
  OBVIOUS
<1>2. /\ N \in 0..Len(seq) /\ Upwards(S) \in [1..N -> S]
      /\ \A i \in S : \E k \in 1..N : Upwards(S)[k] = i
      /\ \A k, l \in 1..N : k < l <=> Upwards(S)[k] < Upwards(S)[l]
  BY <1>1, UpwardsFacts
<1> HIDE DEF N
<1>3. Picked(seq, S) = [k \in 1..N |-> seq[Upwards(S)[k]]]
  BY DEF Picked, N
<1>4. \A k \in 1..N : seq[Upwards(S)[k]] \in X
  BY <1>1, <1>2
<1>5. Picked(seq, S) \in Seq(X) /\ Len(Picked(seq, S)) = N
  BY <1>2, <1>3, <1>4
<1> QED
  BY <1>2, <1>3, <1>5 DEF N

(* All of it, and none of it.                                              *)
LEMMA PickedAll ==
  ASSUME NEW X, NEW seq \in Seq(X)
  PROVE  Picked(seq, 1..Len(seq)) = seq
<1>1. Len(seq) \in Nat /\ seq \in [1..Len(seq) -> X]
  OBVIOUS
<1> DEFINE f == [k \in 1..Len(seq) |-> k]
<1>2. /\ f \in [1..Len(seq) -> 1..Len(seq)]
      /\ \A k, l \in 1..Len(seq) : k < l => f[k] < f[l]
      /\ \A i \in 1..Len(seq) : \E k \in 1..Len(seq) : f[k] = i
  OBVIOUS
<1> HIDE DEF f
<1>3. Len(seq) = Cardinality(1..Len(seq)) /\ f = Upwards(1..Len(seq))
  BY <1>1, <1>2, UpwardsUnique
<1> QED
  BY <1>1, <1>3 DEF Picked, f

LEMMA PickedNone == \A seq : Picked(seq, {}) = <<>>
  BY FS_EmptySet DEF Picked

LEMMA ConcatTyped ==
  ASSUME NEW X, NEW p \in Seq(X), NEW q \in Seq(X)
  PROVE  p \o q \in Seq(X) /\ Len(p \o q) = Len(p) + Len(q)
  OBVIOUS

LEMMA ConcatFacts ==
  ASSUME NEW X, NEW p \in Seq(X), NEW q \in Seq(X), NEW x, NEW y, Len(p) = x, Len(q) = y
  PROVE  /\ p \o q \in Seq(X) /\ Len(p \o q) = x + y
         /\ \A k \in 1..x : (p \o q)[k] = p[k]
         /\ \A k \in 1..x + y : ~(k <= x) => (p \o q)[k] = q[k - x]
         /\ \A k \in 1..y : (p \o q)[x + k] = q[k]
<1>1. /\ p \o q \in Seq(X) /\ Len(p \o q) = x + y
  OBVIOUS
<1>2. \A k \in 1..x : (p \o q)[k] = p[k]
  OBVIOUS
<1>3. \A k \in 1..x + y : ~(k <= x) => (p \o q)[k] = q[k - x]
  OBVIOUS
<1>4. \A k \in 1..y : (p \o q)[x + k] = q[k]
  OBVIOUS
<1> QED
  BY <1>1, <1>2, <1>3, <1>4

(* Picking distributes over concatenation.                                 *)
(* Positions of a concatenation: those of its first part, then of its      *)
(* second.                                                                 *)
Splits(m, n, S, T, U) ==
  /\ S \in SUBSET (1..m) /\ T \in SUBSET (1..n) /\ U \in SUBSET (1..m + n)
  /\ \A i \in 1..m : i \in U <=> i \in S
  /\ \A i \in 1..n : m + i \in U <=> i \in T

LEMMA PickedConcat ==
  ASSUME NEW X, NEW a \in Seq(X), NEW b \in Seq(X), NEW S, NEW T, NEW U,
         Splits(Len(a), Len(b), S, T, U)
  PROVE  Picked(a \o b, U) = Picked(a, S) \o Picked(b, T)
<1>20. /\ S \in SUBSET (1..Len(a)) /\ T \in SUBSET (1..Len(b))
       /\ U \in SUBSET (1..Len(a) + Len(b))
       /\ \A i \in 1..Len(a) : i \in U <=> i \in S
       /\ \A i \in 1..Len(b) : Len(a) + i \in U <=> i \in T
  BY DEF Splits
<1> DEFINE A == Len(a)  B == Len(b)  s == Cardinality(S)  t == Cardinality(T)
           f == [k \in 1..s + t |-> IF k <= s THEN Upwards(S)[k] ELSE A + Upwards(T)[k - s]]
<1>1. A \in Nat /\ B \in Nat
  OBVIOUS
<1>2. /\ s \in 0..A /\ Upwards(S) \in [1..s -> S]
      /\ \A i \in S : \E k \in 1..s : Upwards(S)[k] = i
      /\ \A k, l \in 1..s : k < l <=> Upwards(S)[k] < Upwards(S)[l]
  BY <1>1, <1>20, UpwardsFacts
<1>3. /\ t \in 0..B /\ Upwards(T) \in [1..t -> T]
      /\ \A i \in T : \E k \in 1..t : Upwards(T)[k] = i
      /\ \A k, l \in 1..t : k < l <=> Upwards(T)[k] < Upwards(T)[l]
  BY <1>1, <1>20, UpwardsFacts
<1>4. /\ S \subseteq 1..A /\ T \subseteq 1..B /\ U \subseteq 1..A + B
      /\ \A i \in 1..A : i \in U <=> i \in S
      /\ \A i \in 1..B : A + i \in U <=> i \in T
  BY <1>20
<1>5. /\ Picked(a, S) \in Seq(X) /\ Len(Picked(a, S)) = s
      /\ \A k \in 1..s : Picked(a, S)[k] = a[Upwards(S)[k]]
      /\ Picked(b, T) \in Seq(X) /\ Len(Picked(b, T)) = t
      /\ \A k \in 1..t : Picked(b, T)[k] = b[Upwards(T)[k]]
  BY <1>20, PickedFacts
<1>6. /\ a \o b \in Seq(X) /\ Len(a \o b) = A + B
      /\ \A i \in 1..A : (a \o b)[i] = a[i]
      /\ \A i \in 1..B : (a \o b)[A + i] = b[i]
  BY ConcatFacts
<1>0. /\ Picked(a, S) \o Picked(b, T) \in Seq(X)
      /\ Len(Picked(a, S) \o Picked(b, T)) = s + t
      /\ \A k \in 1..s : (Picked(a, S) \o Picked(b, T))[k] = Picked(a, S)[k]
      /\ \A k \in 1..s + t : ~(k <= s) =>
           (Picked(a, S) \o Picked(b, T))[k] = Picked(b, T)[k - s]
  <2>1. /\ Picked(a, S) \in Seq(X) /\ Len(Picked(a, S)) = s /\ s \in Nat
        /\ Picked(b, T) \in Seq(X) /\ Len(Picked(b, T)) = t /\ t \in Nat
    BY <1>2, <1>3, <1>5
  <2> HIDE DEF s, t
  <2>2. /\ Picked(a, S) \o Picked(b, T) \in Seq(X)
        /\ Len(Picked(a, S) \o Picked(b, T)) = s + t
    BY <2>1, ConcatTyped
  <2>3. \A k \in 1..s : (Picked(a, S) \o Picked(b, T))[k] = Picked(a, S)[k]
    BY <2>1, ConcatFacts
  <2>4. \A k \in 1..s + t : ~(k <= s) =>
          (Picked(a, S) \o Picked(b, T))[k] = Picked(b, T)[k - s]
    BY <2>1, ConcatFacts
  <2> QED
    BY <2>2, <2>3, <2>4
<1> HIDE DEF A, B, s, t
<1>7. ASSUME NEW k \in 1..s + t
      PROVE  /\ k <= s => k \in 1..s /\ f[k] = Upwards(S)[k] /\ f[k] \in S
             /\ ~(k <= s) => k - s \in 1..t /\ f[k] = A + Upwards(T)[k - s]
                               /\ Upwards(T)[k - s] \in T
  BY <1>2, <1>3
<1> HIDE DEF f
<1>8. ASSUME NEW k \in 1..s + t PROVE f[k] \in U
  BY <1>1, <1>4, <1>7
<1>9. f \in [1..s + t -> U]
  BY <1>8 DEF f
<1>10. ASSUME NEW k \in 1..s + t, NEW l \in 1..s + t, k < l PROVE f[k] < f[l]
  <2>1. CASE l <= s
    <3>1. k \in 1..s /\ l \in 1..s
      BY <1>2, <1>3, <1>10, <2>1
    <3> QED
      BY <1>2, <1>7, <1>10, <3>1
  <2>2. CASE k <= s /\ ~(l <= s)
    <3>1. f[k] \in 1..A /\ f[l] = A + Upwards(T)[l - s] /\ Upwards(T)[l - s] \in 1..B
      BY <1>4, <1>7, <2>2
    <3> QED
      BY <1>1, <3>1
  <2>3. CASE ~(k <= s)
    <3>1. k - s \in 1..t /\ l - s \in 1..t /\ k - s < l - s /\ ~(l <= s)
      BY <1>2, <1>3, <1>7, <1>10, <2>3
    <3>2. Upwards(T)[k - s] < Upwards(T)[l - s]
      BY <1>3, <3>1
    <3>3. /\ f[k] = A + Upwards(T)[k - s] /\ Upwards(T)[k - s] \in 1..B
          /\ f[l] = A + Upwards(T)[l - s] /\ Upwards(T)[l - s] \in 1..B
      BY <1>4, <1>7, <2>3, <3>1
    <3> QED
      BY <1>1, <3>2, <3>3
  <2> QED
    BY <1>2, <2>1, <2>2, <2>3
<1>11. ASSUME NEW i \in U PROVE \E k \in 1..s + t : f[k] = i
  <2>1. CASE i \in 1..A
    <3>1. PICK k \in 1..s : Upwards(S)[k] = i
      BY <1>2, <1>4, <2>1
    <3> QED
      BY <1>2, <1>3, <1>7, <3>1
  <2>2. CASE i \notin 1..A
    <3>1. i - A \in 1..B /\ A + (i - A) = i
      BY <1>1, <1>4, <2>2
    <3>2. PICK k \in 1..t : Upwards(T)[k] = i - A
      BY <1>3, <1>4, <3>1
    <3>3. s + k \in 1..s + t /\ ~(s + k <= s) /\ (s + k) - s = k
      BY <1>2, <1>3
    <3> QED
      BY <1>7, <3>1, <3>2, <3>3
  <2> QED
    BY <2>1, <2>2
<1>12. s + t = Cardinality(U) /\ f = Upwards(U)
  <2>1. s + t \in Nat /\ A + B \in Nat
    BY <1>1, <1>2, <1>3
  <2> QED
    BY <1>4, <1>9, <1>10, <1>11, <2>1, UpwardsUnique
<1>13. Picked(a \o b, U) = [k \in 1..s + t |-> (a \o b)[f[k]]]
  BY <1>12 DEF Picked
<1>14. ASSUME NEW k \in 1..s + t
       PROVE  (a \o b)[f[k]] = (Picked(a, S) \o Picked(b, T))[k]
  <2>1. CASE k <= s
    <3>1. k \in 1..s /\ f[k] = Upwards(S)[k] /\ f[k] \in 1..A
      BY <1>4, <1>7, <2>1
    <3>2. (Picked(a, S) \o Picked(b, T))[k] = Picked(a, S)[k]
      BY <1>0, <3>1
    <3> QED
      BY <1>5, <1>6, <3>1, <3>2
  <2>2. CASE ~(k <= s)
    <3>1. (Picked(a, S) \o Picked(b, T))[k] = Picked(b, T)[k - s]
      BY <1>0, <2>2
    <3>2. /\ k - s \in 1..t /\ f[k] = A + Upwards(T)[k - s]
          /\ Upwards(T)[k - s] \in 1..B
      BY <1>4, <1>7, <2>2
    <3> QED
      BY <1>5, <1>6, <3>1, <3>2
  <2> QED
    BY <2>1, <2>2
<1>15. /\ Picked(a, S) \o Picked(b, T) \in Seq(X)
       /\ Len(Picked(a, S) \o Picked(b, T)) = s + t
  BY <1>0
<1> DEFINE left == Picked(a \o b, U)  right == Picked(a, S) \o Picked(b, T)
<1>16. /\ left = [k \in 1..s + t |-> (a \o b)[f[k]]]
       /\ \A k \in 1..s + t : (a \o b)[f[k]] = right[k]
       /\ right \in Seq(X) /\ Len(right) = s + t
  BY <1>13, <1>14, <1>15
<1> HIDE DEF left, right, f
<1>17. left = [k \in 1..s + t |-> right[k]]
  BY <1>16
<1>18. right = [k \in 1..s + t |-> right[k]]
  BY <1>16
<1>19. left = right
  BY <1>17, <1>18
<1> QED
  BY <1>19 DEF left, right

LEMMA SplitInTwo ==
  ASSUME NEW A, NEW B, IsFiniteSet(A \union B), \A i \in A : i \notin B
  PROVE  /\ IsFiniteSet(A) /\ IsFiniteSet(B) /\ Cardinality(A) \in Nat /\ Cardinality(B) \in Nat
         /\ Cardinality(A \union B) \in Nat
         /\ Cardinality(A \union B) = Cardinality(A) + Cardinality(B)
<1>1. A \in SUBSET (A \union B) /\ B \in SUBSET (A \union B) /\ A \cap B = {}
  OBVIOUS
<1>2. IsFiniteSet(A) /\ IsFiniteSet(B)
  BY <1>1, FS_Subset
<1>3. /\ Cardinality(A) \in Nat /\ Cardinality(B) \in Nat /\ Cardinality(A \cap B) = 0
      /\ Cardinality(A \union B) \in Nat
  BY <1>1, <1>2, FS_CardinalityType, FS_EmptySet
<1>4. Cardinality(A \union B) = Cardinality(A) + Cardinality(B) - Cardinality(A \cap B)
  BY <1>2, FS_Union
<1>5. Cardinality(A \union B) = Cardinality(A) + Cardinality(B)
  BY <1>3, <1>4
<1> QED
  BY <1>2, <1>3, <1>5
-----------------------------------------------------------------------------
(* Paywall.                                                                *)

(* The day, the reader and the paywall keep their types.                   *)
THEOREM PayTypeCorrect == PaySpec => []PayTypeOK
<1>1. PayInit => PayTypeOK
  BY PaywallAssumption DEF PayInit, PayTypeOK
<1>2. PayTypeOK /\ [PayNext]_payVars => PayTypeOK'
  BY PaywallAssumption DEF PayTypeOK, PayNext, ReadArticle, Join, NextDay, payVars
<1> QED
  BY <1>1, <1>2, PTL DEF PaySpec

(* Waiting opens only the meter of a reader whose window rolls, and closes *)
(* only what was free for a while, for any limits and windows.             *)
THEOREM WaitingOpensOnlyMetersCorrect ==
  PaySpec => WaitingOpensOnlyMeters
<1>1. PayTypeOK /\ [PayNext]_payVars => [WaitingChanges]_payVars
  <2> SUFFICES ASSUME PayTypeOK, PayNext, day' # day PROVE WaitingChanges
    BY DEF WaitingChanges, payVars
  <2>1. NextDay
    BY DEF PayNext, ReadArticle, Join
  <2>2. day' = day + 1 /\ UNCHANGED <<paywall, held, reads_used>>
    BY <2>1 DEF NextDay
  <2>3. day \in Nat /\ WindowDays \in Nat /\ paywall.strategy \in Strategies
    BY PaywallAssumption DEF PayTypeOK
  <2>4. DecideTierGated' = DecideTierGated
    BY <2>2 DEF DecideTierGated
  <2>5. IsExhausted # IsExhausted' => day' = WindowDays /\ IsExhausted
    BY <2>2, <2>3 DEF IsExhausted, HasWindowRolled
  <2>6. InFreeWindow # InFreeWindow' => day' = WindowDays /\ InFreeWindow
    BY <2>2, <2>3 DEF InFreeWindow
  <2>7. Strategies \subseteq {"open", "hard", "metered", "time-based", "preview"}
    BY PaywallAssumption
  <2>8. CASE paywall.strategy \in {"open", "hard", "preview"}
    BY <2>2, <2>4, <2>8 DEF WaitingChanges, Decide
  <2>9. CASE paywall.strategy = "metered"
    BY <2>2, <2>5, <2>9 DEF WaitingChanges, Decide
  <2>10. CASE paywall.strategy = "time-based"
    BY <2>2, <2>4, <2>6, <2>10 DEF WaitingChanges, Decide
  <2> QED
    BY <2>3, <2>7, <2>8, <2>9, <2>10
<1>2. PaySpec => []PayTypeOK
  BY PayTypeCorrect
<1> QED
  BY <1>1, <1>2, PTL DEF PaySpec, WaitingOpensOnlyMeters
-----------------------------------------------------------------------------
(* AiPipeline.                                                             *)

(* Place is a stage's place.                                               *)
LEMMA StagesFacts ==
  /\ Len(Stages) = 6 /\ DOMAIN Stages = 1..6
  /\ \A i \in 1..6 : Place(Stages[i]) = i
  /\ \A s \in ToSet(Stages) : \E i \in 1..6 : Stages[i] = s
  /\ \A i \in 1..6 : Stages[i] = "audit" <=> i = 6
<1>1. Len(Stages) = 6 /\ DOMAIN Stages = 1..6
  BY DEF Stages
<1>2. \A i, j \in 1..6 : Stages[i] = Stages[j] => i = j
  BY DEF Stages
<1>3. \A i \in 1..6 : Place(Stages[i]) = i
  BY <1>1, <1>2 DEF Place
<1>4. \A s \in ToSet(Stages) : \E i \in 1..6 : Stages[i] = s
  BY <1>1 DEF ToSet
<1>5. \A i \in 1..6 : Stages[i] = "audit" <=> i = 6
  BY DEF Stages
<1> QED
  BY <1>1, <1>3, <1>4, <1>5

(* The artifacts so far are a beginning of the list of stages.             *)
InOrder ==
  /\ AiTypeOK
  /\ Len(artifacts) <= 6
  /\ \A i \in 1..Len(artifacts) : artifacts[i].stage = Stages[i]

(* What may be added is the next stage.                                    *)
LEMMA AdvancedInOrder ==
  ASSUME InOrder, NEW a \in Artifact, Advanced(a)
  PROVE  /\ artifacts' \in Seq(Artifact) /\ result' \in {"ok", "error"}
         /\ Len(artifacts') <= 6
         /\ \A i \in 1..Len(artifacts') : artifacts'[i].stage = Stages[i]
<1> DEFINE n == Len(artifacts)
<1>1. artifacts \in Seq(Artifact) /\ n \in 0..6
  <2>1. artifacts \in Seq(Artifact) /\ n <= 6
    BY DEF InOrder, AiTypeOK
  <2>2. n \in Nat
    BY <2>1
  <2> HIDE DEF n
  <2>3. n \in 0..6
    BY <2>1, <2>2
  <2> QED
    BY <2>1, <2>3
<1>2. CASE ~Accepts(a)
  <2>1. artifacts' = artifacts /\ result' = "error"
    BY <1>2 DEF Advanced
  <2> QED
    BY <1>1, <2>1 DEF InOrder
<1>3. CASE Accepts(a)
  <2>1. artifacts # <<>> /\ Last(artifacts).stage # "audit"
    BY <1>3 DEF Accepts, NextStage
  <2>2. n \in 1..6 /\ Last(artifacts) = artifacts[n]
    BY <1>1, <2>1 DEF Last
  <2>3. Last(artifacts).stage = Stages[n] /\ n # 6
    <3>3. \A i \in 1..n : artifacts[i].stage = Stages[i]
      BY DEF InOrder
    <3> HIDE DEF n
    <3>1. Last(artifacts).stage = Stages[n]
      BY <2>2, <3>3
    <3>2. Stages[6] = "audit"
      BY StagesFacts
    <3> QED
      BY <2>1, <3>1, <3>2
  <2>4. a.stage = Stages[n + 1]
    BY <1>3, <2>1, <2>2, <2>3, StagesFacts DEF Accepts, NextStage
  <2>5. artifacts' = Append(artifacts, a) /\ result' = "ok"
    BY <1>3 DEF Advanced
  <2>6. /\ artifacts' \in Seq(Artifact) /\ Len(artifacts') = n + 1
        /\ artifacts'[n + 1] = a /\ \A i \in 1..n : artifacts'[i] = artifacts[i]
    BY <1>1, <2>5
  <2>7. ASSUME NEW i \in 1..n + 1 PROVE artifacts'[i].stage = Stages[i]
    BY <1>1, <2>4, <2>6 DEF InOrder
  <2> QED
    BY <2>2, <2>3, <2>5, <2>6, <2>7
<1> QED
  BY <1>2, <1>3

LEMMA AiStart == ASSUME AiInit PROVE InOrder
<1> DEFINE brief == [stage |-> "brief", pass |-> FALSE]
<1>1. Stages[1] = "brief" /\ 1 \in DOMAIN Stages
  BY DEF Stages
<1>2. brief \in Artifact /\ brief.stage = Stages[1]
  BY <1>1 DEF Artifact, ToSet
<1>3. artifacts = <<>> \/ artifacts = <<brief>>
  BY DEF AiInit
<1> HIDE DEF brief
<1>4. driving = FALSE /\ result = "none"
  BY DEF AiInit
<1>5. CASE artifacts = <<>>
  <2>1. artifacts \in Seq(Artifact) /\ Len(artifacts) = 0
    BY <1>5
  <2>2. Len(artifacts) <= 6 /\ \A i \in 1..Len(artifacts) : artifacts[i].stage = Stages[i]
    BY <2>1
  <2> QED
    BY <1>4, <2>1, <2>2 DEF InOrder, AiTypeOK
<1>6. CASE artifacts = <<brief>>
  <2>1. artifacts \in Seq(Artifact) /\ Len(artifacts) = 1 /\ artifacts[1] = brief
    BY <1>2, <1>6
  <2>2. Len(artifacts) <= 6 /\ \A i \in 1..Len(artifacts) : artifacts[i].stage = Stages[i]
    BY <1>2, <2>1
  <2> QED
    BY <1>4, <2>1, <2>2 DEF InOrder, AiTypeOK
<1> QED
  BY <1>3, <1>5, <1>6

LEMMA AiStep == ASSUME InOrder, [AiNext]_aiVars PROVE InOrder'
<1>1. CASE UNCHANGED <<artifacts, result, driving>>
  BY <1>1 DEF InOrder, AiTypeOK
<1>2. CASE Drive \/ DriveEnds \/ \E how \in {"ok", "error"} : GeneratorStops(how)
  BY <1>2 DEF InOrder, AiTypeOK, Drive, DriveEnds, GeneratorStops
<1>3. ASSUME NEW a \in Artifact, Advanced(a), driving' \in BOOLEAN PROVE InOrder'
  BY <1>3, AdvancedInOrder DEF InOrder, AiTypeOK
<1>4. ASSUME NEW a \in Artifact, Advance(a) \/ Generates(a)
      PROVE  Advanced(a) /\ driving' \in BOOLEAN
  BY <1>4 DEF Advance, Generates, InOrder, AiTypeOK
<1> QED
  BY <1>1, <1>2, <1>3, <1>4 DEF AiNext, DriveStep, aiVars

(* The artifacts are ones a stage makes, and the driver's state has its    *)
(* type.                                                                   *)
THEOREM AiTypeCorrect == AiSpec => []AiTypeOK
<1>1. AiInit => InOrder
  BY AiStart
<1>2. InOrder => AiTypeOK
  BY DEF InOrder
<1> QED
  BY <1>1, <1>2, AiStep, PTL DEF AiSpec

(* Whatever is offered, and in whatever order, the artifacts are the       *)
(* stages in their order, and a pipeline that passes its audit has all.    *)
THEOREM NoStageSkippedCorrect == AiSpec => []NoStageSkipped
<1>1. AiInit => InOrder
  BY AiStart
<1>2. InOrder => NoStageSkipped
  <2> SUFFICES ASSUME InOrder PROVE NoStageSkipped
    OBVIOUS
  <2>1. artifacts \in Seq(Artifact) /\ DOMAIN artifacts = 1..Len(artifacts)
    BY DEF InOrder, AiTypeOK
  <2>2. IsPassing => Len(artifacts) = 6
    <3> SUFFICES ASSUME IsPassing PROVE Len(artifacts) = 6
      OBVIOUS
    <3>1. Len(artifacts) \in 1..6 /\ Last(artifacts) = artifacts[Len(artifacts)]
      BY <2>1 DEF IsPassing, Last, InOrder
    <3> QED
      BY <3>1, StagesFacts DEF IsPassing, InOrder
  <2> QED
    BY <2>1, <2>2, StagesFacts DEF NoStageSkipped, InOrder
<1> QED
  BY <1>1, <1>2, AiStep, PTL DEF AiSpec
-----------------------------------------------------------------------------
(* AuditLog.                                                               *)

(* A set of numbers that is not empty has a least one.                     *)
LEMMA LeastNumber ==
  ASSUME NEW S \in SUBSET Nat, S # {}
  PROVE  \E n \in S : \A k \in S : n <= k
<1> DEFINE R == OpToRel(<, Nat)
<1>1. IsWellFoundedOn(R, Nat)
  BY NatLessThanWellFounded
<1>2. \A i, j \in Nat : <<i, j>> \in R <=> i < j
  BY DEF OpToRel
<1> HIDE DEF R
<1>3. PICK i \in S : \A j \in S : ~(<<j, i>> \in R)
  BY <1>1, WFMin
<1>4. \A j \in S : j \in Nat /\ i \in Nat /\ ~(j < i)
  BY <1>2, <1>3
<1>5. \A j \in S : i <= j
  BY <1>4
<1> QED
  BY <1>3, <1>5

(* A log is a sequence of entries with the five fields.                    *)
IsEntry(e) == e = [sequence |-> e.sequence, prev_hash |-> e.prev_hash,
                   entry_hash |-> e.entry_hash, kind |-> e.kind, fraction |-> e.fraction]
IsLog(sealed) == \E S : sealed \in Seq(S) /\ \A e \in S : IsEntry(e)

LEMMA LogFacts ==
  ASSUME NEW sealed, IsLog(sealed)
  PROVE  /\ Len(sealed) \in Nat /\ DOMAIN sealed = 1..Len(sealed)
         /\ sealed = [i \in 1..Len(sealed) |-> sealed[i]]
         /\ \A i \in 1..Len(sealed) : IsEntry(sealed[i])
         /\ sealed # <<>> => Len(sealed) \in 1..Len(sealed) /\ LastHash(sealed) = sealed[Len(sealed)].entry_hash
         /\ \A i \in 1..Len(sealed) :
              LastHash(SubSeq(sealed, 1, i - 1)) = IF i = 1 THEN Zero ELSE sealed[i - 1].entry_hash
<1> PICK S : sealed \in Seq(S) /\ \A e \in S : IsEntry(e)
  BY DEF IsLog
<1>1. Len(sealed) \in Nat /\ DOMAIN sealed = 1..Len(sealed) /\ sealed = [i \in 1..Len(sealed) |-> sealed[i]]
  OBVIOUS
<1>2. \A i \in 1..Len(sealed) : IsEntry(sealed[i])
  OBVIOUS
<1>3. sealed # <<>> => Len(sealed) \in 1..Len(sealed) /\ LastHash(sealed) = sealed[Len(sealed)].entry_hash
  BY DEF LastHash, Last
<1>4. ASSUME NEW i \in 1..Len(sealed)
      PROVE  LastHash(SubSeq(sealed, 1, i - 1)) = IF i = 1 THEN Zero ELSE sealed[i - 1].entry_hash
  <2> DEFINE before == SubSeq(sealed, 1, i - 1)
  <2>1. CASE i = 1
    <3>1. before = <<>>
      BY <2>1
    <3> QED
      BY <2>1, <3>1 DEF LastHash
  <2>2. CASE i > 1
    <3>1. before \in Seq(S) /\ Len(before) = i - 1 /\ before[i - 1] = sealed[i - 1]
      BY <1>1, <2>2
    <3>2. before # <<>> /\ Last(before) = sealed[i - 1]
      BY <2>2, <3>1 DEF Last
    <3> QED
      BY <2>2, <3>2 DEF LastHash
  <2> QED
    BY <1>1, <2>1, <2>2
<1> QED
  BY <1>1, <1>2, <1>3, <1>4

(* Two hashes are equal only if what was hashed is.                        *)
LEMMA HashIsSealed ==
  ASSUME NEW d, NEW e, Hash(d) = Hash(e)
  PROVE  d.sequence = e.sequence /\ d.prev_hash = e.prev_hash /\ d.kind = e.kind
<1>1. /\ Hash(d).sequence = d.sequence /\ Hash(d).prev_hash = d.prev_hash /\ Hash(d).kind = d.kind
      /\ Hash(e).sequence = e.sequence /\ Hash(e).prev_hash = e.prev_hash /\ Hash(e).kind = e.kind
  BY DEF Hash
<1> QED
  BY <1>1

LEMMA HashIsNotZero == \A e : Hash(e) # Zero
<1> SUFFICES ASSUME NEW e, Hash(e) = Zero PROVE FALSE
  OBVIOUS
<1>1. "sequence" \in DOMAIN Hash(e)
  BY DEF Hash
<1>2. DOMAIN Zero = {}
  BY DEF Zero
<1> QED
  BY <1>1, <1>2

(* Two logs that verify and end in the same hash agree in all it covers.    *)
SameSealed(d, e) ==
  /\ d.sequence = e.sequence /\ d.prev_hash = e.prev_hash
  /\ d.entry_hash = e.entry_hash /\ d.kind = e.kind

LEMMA SealedOnce ==
  ASSUME NEW a, NEW b, IsLog(a), IsLog(b), Verdict(a) = "pass", Verdict(b) = "pass",
         LastHash(a) = LastHash(b)
  PROVE  Len(a) = Len(b) /\ \A i \in DOMAIN a : SameSealed(a[i], b[i])
<1> DEFINE n == Len(a)
<1>1. /\ Len(a) \in Nat /\ DOMAIN a = 1..Len(a) /\ a = [i \in 1..Len(a) |-> a[i]]
      /\ Len(b) \in Nat /\ DOMAIN b = 1..Len(b) /\ b = [i \in 1..Len(b) |-> b[i]]
  BY LogFacts
<1>2. (\A i \in 1..Len(a) : Sound(a, i)) /\ (\A i \in 1..Len(b) : Sound(b, i))
  BY <1>1 DEF Verdict
<1>3. a = <<>> <=> b = <<>>
  <2>1. a # <<>> => LastHash(a) # Zero
    <3> SUFFICES ASSUME a # <<>> PROVE LastHash(a) # Zero
      OBVIOUS
    <3>1. Len(a) \in 1..Len(a) /\ LastHash(a) = a[Len(a)].entry_hash
      BY LogFacts
    <3>2. a[Len(a)].entry_hash = Hash(a[Len(a)])
      BY <1>2, <3>1 DEF Sound
    <3> QED
      BY <3>1, <3>2, HashIsNotZero
  <2>2. b # <<>> => LastHash(b) # Zero
    <3> SUFFICES ASSUME b # <<>> PROVE LastHash(b) # Zero
      OBVIOUS
    <3>1. Len(b) \in 1..Len(b) /\ LastHash(b) = b[Len(b)].entry_hash
      BY LogFacts
    <3>2. b[Len(b)].entry_hash = Hash(b[Len(b)])
      BY <1>2, <3>1 DEF Sound
    <3> QED
      BY <3>1, <3>2, HashIsNotZero
  <2>3. LastHash(<<>>) = Zero
    BY DEF LastHash
  <2>4. a = <<>> => LastHash(a) = Zero
    BY <2>3, Zenon
  <2>5. b = <<>> => LastHash(b) = Zero
    BY <2>3, Zenon
  <2> QED
    BY <2>1, <2>2, <2>4, <2>5, Zenon
<1>4. CASE a # <<>>
  <2>1. /\ n \in 1..n /\ LastHash(a) = a[n].entry_hash
        /\ Len(b) \in 1..Len(b) /\ LastHash(b) = b[Len(b)].entry_hash
    BY <1>3, <1>4, LogFacts
  <2>2. Hash(a[n]) = Hash(b[Len(b)]) /\ a[n].sequence = n - 1 /\ b[Len(b)].sequence = Len(b) - 1
    BY <1>2, <2>1 DEF Sound
  <2>3. n - 1 = Len(b) - 1
    BY <2>2, HashIsSealed
  <2>4. Len(b) = n
    <3>1. \A x, y \in Nat : x - 1 = y - 1 => y = x
      OBVIOUS
    <3> QED
      BY <1>1, <2>3, <3>1, Zenon
  <2> DEFINE Same(i) == Hash(a[i]) = Hash(b[i])
  <2>5. ASSUME NEW i \in 1..n, Same(i) PROVE SameSealed(a[i], b[i]) /\ (i > 1 => Same(i - 1))
    <3>1. /\ Hash(a[i]) = a[i].entry_hash /\ Hash(b[i]) = b[i].entry_hash
          /\ a[i].prev_hash = LastHash(SubSeq(a, 1, i - 1))
          /\ b[i].prev_hash = LastHash(SubSeq(b, 1, i - 1))
      BY <1>2, <2>4 DEF Sound
    <3>3. a[i].sequence = b[i].sequence /\ a[i].prev_hash = b[i].prev_hash /\ a[i].kind = b[i].kind
      BY <2>5, HashIsSealed
    <3>4. SameSealed(a[i], b[i])
      BY <2>5, <3>1, <3>3 DEF SameSealed
    <3>5. ASSUME i > 1 PROVE Same(i - 1)
      <4>1. i - 1 \in 1..n
        BY <1>1, <3>5
      <4>2. a[i].prev_hash = a[i - 1].entry_hash /\ b[i].prev_hash = b[i - 1].entry_hash
        BY <2>4, <3>1, <3>5, LogFacts
      <4>3. Hash(a[i - 1]) = a[i - 1].entry_hash /\ Hash(b[i - 1]) = b[i - 1].entry_hash
        BY <1>2, <2>4, <4>1 DEF Sound
      <4>4. a[i - 1].entry_hash = b[i - 1].entry_hash
        BY <3>3, <4>2, Zenon
      <4>5. Hash(a[i - 1]) = Hash(b[i - 1])
        BY <4>3, <4>4, Zenon
      <4> QED
        BY <4>5 DEF Same
    <3> QED
      BY <3>4, <3>5
  <2> HIDE DEF Same
  <2>6. \A i \in 1..n : Same(i)
    <3> DEFINE Bad == {k \in 0..n - 1 : ~Same(n - k)}
    <3>1. CASE Bad # {}
      <4>0. Bad \in SUBSET Nat
        BY <1>1
      <4>1. PICK k \in Bad : \A j \in Bad : k <= j
        BY <3>1, <4>0, LeastNumber, Zenon
      <4>2. k \in 0..n - 1 /\ ~Same(n - k)
        OBVIOUS
      <4>3. k # 0
        BY <1>1, <2>1, <2>2, <2>4, <4>2 DEF Same
      <4>4. k - 1 \in 0..n - 1 /\ ~(k <= k - 1) /\ n - (k - 1) \in 1..n
            /\ n - (k - 1) > 1 /\ (n - (k - 1)) - 1 = n - k
        BY <1>1, <4>2, <4>3
      <4>5. Same(n - (k - 1))
        BY <4>1, <4>4
      <4> QED
        BY <2>5, <4>2, <4>4, <4>5
    <3>2. CASE Bad = {}
      <4> SUFFICES ASSUME NEW i \in 1..n PROVE Same(i)
        OBVIOUS
      <4>1. n - i \in 0..n - 1 /\ n - (n - i) = i
        BY <1>1
      <4> QED
        BY <3>2, <4>1
    <3> QED
      BY <3>1, <3>2
  <2>7. \A i \in 1..n : SameSealed(a[i], b[i])
    BY <2>5, <2>6
  <2> QED
    BY <1>1, <2>4, <2>7
<1>5. CASE a = <<>>
  BY <1>1, <1>3, <1>5
<1> QED
  BY <1>4, <1>5

(* The edits of a log leave a log, with these entries.                     *)
LEMMA AppendedLog ==
  ASSUME NEW sealed, IsLog(sealed), NEW e, IsEntry(e)
  PROVE  /\ IsLog(Append(sealed, e)) /\ Len(Append(sealed, e)) = Len(sealed) + 1
         /\ \A j \in 1..Len(sealed) + 1 : Append(sealed, e)[j] = IF j = Len(sealed) + 1 THEN e ELSE sealed[j]
<1> PICK S : sealed \in Seq(S) /\ \A d \in S : IsEntry(d)
  BY DEF IsLog
<1> DEFINE T == S \cup {e}
<1>1. sealed \in Seq(T) /\ e \in T /\ \A d \in T : IsEntry(d)
  OBVIOUS
<1> HIDE DEF T
<1>2. /\ Append(sealed, e) \in Seq(T) /\ Len(Append(sealed, e)) = Len(sealed) + 1
      /\ \A j \in 1..Len(sealed) + 1 : Append(sealed, e)[j] = IF j = Len(sealed) + 1 THEN e ELSE sealed[j]
  BY <1>1
<1> QED
  BY <1>1, <1>2 DEF IsLog

LEMMA ReplacedLog ==
  ASSUME NEW sealed, IsLog(sealed), NEW i \in DOMAIN sealed, NEW e, IsEntry(e)
  PROVE  /\ IsLog([sealed EXCEPT ![i] = e]) /\ Len([sealed EXCEPT ![i] = e]) = Len(sealed)
         /\ \A j \in 1..Len(sealed) : [sealed EXCEPT ![i] = e][j] = IF j = i THEN e ELSE sealed[j]
<1> PICK S : sealed \in Seq(S) /\ \A d \in S : IsEntry(d)
  BY DEF IsLog
<1> DEFINE T == S \cup {e}
<1>1. sealed \in Seq(T) /\ e \in T /\ \A d \in T : IsEntry(d)
  OBVIOUS
<1> HIDE DEF T
<1>2. /\ [sealed EXCEPT ![i] = e] \in Seq(T) /\ Len([sealed EXCEPT ![i] = e]) = Len(sealed)
      /\ \A j \in 1..Len(sealed) : [sealed EXCEPT ![i] = e][j] = IF j = i THEN e ELSE sealed[j]
  BY <1>1
<1> QED
  BY <1>1, <1>2 DEF IsLog

LEMMA ShortenedLog ==
  ASSUME NEW sealed, IsLog(sealed), NEW i \in DOMAIN sealed
  PROVE  /\ IsLog(RemoveAt(sealed, i)) /\ Len(RemoveAt(sealed, i)) = Len(sealed) - 1
         /\ \A j \in 1..Len(sealed) - 1 :
              \E k \in 1..Len(sealed) : RemoveAt(sealed, i)[j] = sealed[k]
<1> PICK S : sealed \in Seq(S) /\ \A d \in S : IsEntry(d)
  BY DEF IsLog
<1> DEFINE before == SubSeq(sealed, 1, i - 1)
           after == SubSeq(sealed, i + 1, Len(sealed))
<1>1. Len(sealed) \in Nat /\ i \in 1..Len(sealed)
  OBVIOUS
<1>2. before \in Seq(S) /\ Len(before) = i - 1 /\ \A j \in 1..i - 1 : before[j] = sealed[j]
  BY <1>1
<1>3. /\ after \in Seq(S) /\ Len(after) = Len(sealed) - i
      /\ \A j \in 1..Len(sealed) - i : after[j] = sealed[i + j]
  BY <1>1
<1>4. RemoveAt(sealed, i) = before \o after
  BY DEF RemoveAt
<1> HIDE DEF before, after
<1>5. /\ before \o after \in Seq(S) /\ Len(before \o after) = Len(sealed) - 1
  BY <1>1, <1>2, <1>3
<1>6. ASSUME NEW j \in 1..Len(sealed) - 1
      PROVE  \E k \in 1..Len(sealed) : (before \o after)[j] = sealed[k]
  <2>1. CASE j < i
    <3>1. j \in 1..i - 1 /\ j \in 1..Len(sealed)
      BY <1>1, <2>1
    <3>2. (before \o after)[j] = before[j]
      BY <1>1, <1>2, <1>3, <3>1
    <3> QED
      BY <1>2, <3>1, <3>2
  <2>2. CASE ~(j < i)
    <3>1. j - (i - 1) \in 1..Len(sealed) - i /\ i + (j - (i - 1)) = j + 1 /\ j + 1 \in 1..Len(sealed)
      BY <1>1, <2>2
    <3>2. (before \o after)[j] = after[j - (i - 1)]
      BY <1>1, <1>2, <1>3, <2>2
    <3> QED
      BY <1>3, <3>1, <3>2
  <2> QED
    BY <2>1, <2>2
<1> QED
  BY <1>4, <1>5, <1>6 DEF IsLog

(* What holds of the two logs whatever is done to the file.                *)
LogsAreLogs == IsLog(entries) /\ IsLog(noted)

LEMMA LogStart == LogInit => LogTypeOK /\ LogsAreLogs
<1> SUFFICES ASSUME LogInit PROVE LogTypeOK /\ LogsAreLogs
  OBVIOUS
<1>1. entries = <<>> /\ noted = <<>> /\ edits = 0 /\ 0 \in 0..MaxEntries /\ 0 \in 0..MaxFileEdits
  BY LogAssumption DEF LogInit
<1>2. <<>> \in Seq({}) /\ Len(<<>>) = 0 /\ DOMAIN <<>> = 1..0
  OBVIOUS
<1>3. IsLog(<<>>)
  <2>1. \E S : <<>> \in Seq(S) /\ \A e \in S : IsEntry(e)
    <3> DEFINE none == {}
    <3>1. <<>> \in Seq(none) /\ \A e \in none : IsEntry(e)
      BY <1>2
    <3> HIDE DEF none
    <3> QED
      BY <3>1
  <2> QED
    BY <2>1, Zenon DEF IsLog
<1> QED
  BY <1>1, <1>2, <1>3 DEF LogTypeOK, LogsAreLogs

LEMMA LogStep ==
  ASSUME LogTypeOK, LogsAreLogs, [LogNext]_logVars
  PROVE  LogTypeOK' /\ LogsAreLogs'
<1> DEFINE Sized(e) == e.kind \in Kinds /\ e.sequence < MaxEntries /\ e.fraction \in Fractions
           n == Len(entries)
<1>1. /\ n \in Nat /\ DOMAIN entries = 1..n /\ n <= MaxEntries
      /\ \A i \in 1..n : IsEntry(entries[i]) /\ Sized(entries[i])
  BY LogFacts DEF LogsAreLogs, LogTypeOK
<1>2. edits \in 0..MaxFileEdits /\ IsLog(entries) /\ IsLog(noted)
  BY DEF LogsAreLogs, LogTypeOK
<1>3. SUFFICES /\ IsLog(entries') /\ IsLog(noted') /\ edits' \in 0..MaxFileEdits
               /\ Len(entries') <= MaxEntries
               /\ \A j \in 1..Len(entries') : Sized(entries'[j])
  <2>1. ASSUME IsLog(entries') PROVE Len(entries') \in Nat /\ DOMAIN entries' = 1..Len(entries')
    BY <2>1, LogFacts
  <2> QED
    BY <1>3, <2>1 DEF LogsAreLogs, LogTypeOK
<1>4. ASSUME NEW k \in Kinds, NEW f \in Fractions, AppendEntry(k, f) PROVE <1>3!1
  <2>1. /\ n < MaxEntries /\ entries' = Append(entries, Entry(k, f)) /\ noted' = noted
        /\ edits' = edits
    BY <1>4 DEF AppendEntry
  <2>2. IsEntry(Entry(k, f)) /\ Entry(k, f).sequence = n /\ Entry(k, f).kind = k
      /\ Entry(k, f).fraction = f
    BY DEF Entry, Sealed, IsEntry
  <2>3. Sized(Entry(k, f))
    BY <2>1, <2>2
  <2>4. /\ IsLog(entries') /\ Len(entries') = n + 1
        /\ \A j \in 1..n + 1 : entries'[j] = IF j = n + 1 THEN Entry(k, f) ELSE entries[j]
    BY <1>2, <2>1, <2>2, AppendedLog
  <2> HIDE DEF Sized
  <2>5. \A j \in 1..n + 1 : Sized(entries'[j])
    BY <1>1, <2>3, <2>4
  <2> QED
    BY <1>1, <1>2, <2>1, <2>4, <2>5, LogAssumption
<1>5. ASSUME Note PROVE <1>3!1
  BY <1>1, <1>2, <1>5 DEF Note
<1>6. ASSUME NEW i \in 1..n, NEW e, IsEntry(e), Sized(e), Edited([entries EXCEPT ![i] = e])
      PROVE  <1>3!1
  <2>1. /\ entries' = [entries EXCEPT ![i] = e] /\ noted' = noted
        /\ edits < MaxFileEdits /\ edits' = edits + 1
    BY <1>6 DEF Edited
  <2>2. /\ IsLog(entries') /\ Len(entries') = n
        /\ \A j \in 1..n : entries'[j] = IF j = i THEN e ELSE entries[j]
    BY <1>1, <1>2, <1>6, <2>1, ReplacedLog
  <2>3. edits' \in 0..MaxFileEdits
    BY <1>2, <2>1, LogAssumption
  <2> HIDE DEF Sized
  <2>4. \A j \in 1..n : Sized(entries'[j])
    BY <1>1, <1>6, <2>2
  <2> QED
    BY <1>1, <1>2, <2>1, <2>2, <2>3, <2>4
<1>7. ASSUME NEW i \in 1..n, NEW k \in Kinds, Rewrite(i, k) PROVE <1>3!1
  <2> DEFINE e == [entries[i] EXCEPT !.kind = k]
  <2>1. IsEntry(e) /\ Sized(e)
    BY <1>1 DEF IsEntry
  <2>2. Edited([entries EXCEPT ![i] = e])
    BY <1>7 DEF Rewrite
  <2> QED
    BY <1>6, <2>1, <2>2
<1>13. ASSUME NEW i \in 1..n, NEW f \in Fractions, Retime(i, f) PROVE <1>3!1
  <2> DEFINE e == [entries[i] EXCEPT !.fraction = f]
  <2>1. IsEntry(e) /\ Sized(e)
    BY <1>1 DEF IsEntry
  <2>2. Edited([entries EXCEPT ![i] = e])
    BY <1>13 DEF Retime
  <2> QED
    BY <1>6, <2>1, <2>2
<1>8. ASSUME NEW i \in 1..n, Reseal(i) PROVE <1>3!1
  <2>1. IsEntry(Sealed(entries[i])) /\ Sized(Sealed(entries[i]))
    BY <1>1 DEF IsEntry, Sealed
  <2>2. Edited([entries EXCEPT ![i] = Sealed(entries[i])])
    BY <1>8 DEF Reseal
  <2> QED
    BY <1>6, <2>1, <2>2
<1>9. ASSUME NEW i \in 1..n, Relink(i) PROVE <1>3!1
  <2> DEFINE e == [entries[i] EXCEPT !.prev_hash = entries[i - 1].entry_hash]
  <2>1. IsEntry(e) /\ Sized(e)
    BY <1>1 DEF IsEntry
  <2>2. Edited([entries EXCEPT ![i] = e])
    BY <1>9 DEF Relink
  <2> QED
    BY <1>6, <2>1, <2>2
<1>10. ASSUME NEW i \in 1..n, Renumber(i) PROVE <1>3!1
  <2> DEFINE e == [entries[i] EXCEPT !.sequence = i - 1]
  <2>1. IsEntry(e) /\ e.kind = entries[i].kind /\ e.fraction = entries[i].fraction
        /\ e.sequence = i - 1
    BY <1>1 DEF IsEntry
  <2>2. i - 1 < MaxEntries
    BY <1>1, LogAssumption
  <2>3. Edited([entries EXCEPT ![i] = e])
    BY <1>10 DEF Renumber
  <2> QED
    BY <1>1, <1>6, <2>1, <2>2, <2>3
<1>11. ASSUME NEW i \in 1..n, Drop(i) PROVE <1>3!1
  <2>1. /\ entries' = RemoveAt(entries, i) /\ noted' = noted
        /\ edits < MaxFileEdits /\ edits' = edits + 1
    BY <1>11 DEF Drop, Edited
  <2>2. /\ IsLog(entries') /\ Len(entries') = n - 1
        /\ \A j \in 1..n - 1 : \E k \in 1..n : entries'[j] = entries[k]
    <3>1. i \in DOMAIN entries
      BY <1>1
    <3> QED
      BY <1>2, <2>1, <3>1, ShortenedLog, Zenon
  <2>3. edits' \in 0..MaxFileEdits /\ n - 1 <= MaxEntries
    BY <1>1, <1>2, <2>1, LogAssumption
  <2> HIDE DEF Sized
  <2>4. \A j \in 1..n - 1 : Sized(entries'[j])
    BY <1>1, <2>2
  <2> QED
    BY <1>2, <2>1, <2>2, <2>3, <2>4
<1>12. ASSUME UNCHANGED logVars PROVE <1>3!1
  BY <1>1, <1>2, <1>12 DEF logVars
<1> HIDE DEF Sized, n
<1> QED
  BY <1>1, <1>4, <1>5, <1>7, <1>8, <1>9, <1>10, <1>11, <1>12, <1>13 DEF LogNext

(* The log has the entries of its kinds, numbered below the bound.         *)
THEOREM LogTypeCorrect == LogSpec => []LogTypeOK
<1> QED
  BY LogStart, LogStep, PTL DEF LogSpec

(* A log that still verifies and ends in the hash that was written down    *)
(* has the entries of that moment with all that the hash covers, whatever  *)
(* was done to the file in between, with hashes computed anew or not.      *)
THEOREM NotedIsSealedCorrect == LogSpec => []NotedIsSealed
<1>1. LogsAreLogs => NotedIsSealed
  BY SealedOnce DEF LogsAreLogs, NotedIsSealed, Stands, SameSealed
<1> QED
  BY <1>1, LogStart, LogStep, PTL DEF LogSpec

-----------------------------------------------------------------------------
(* Recovery.                                                               *)

(* The line of regions: each is active or stands by at one place, and one  *)
(* that stands by in place i was active at most as many failovers ago as   *)
(* there are regions behind the places before it.                          *)
Waiting == Cardinality(Regions) - 1
InLine ==
  /\ active \in Regions /\ standby \in Seq(Regions) /\ Len(standby) = Waiting
  /\ \A i, j \in 1..Waiting : standby[i] = standby[j] => i = j
  /\ \A i \in 1..Waiting : standby[i] # active
  /\ \A r \in Regions : r = active \/ \E i \in 1..Waiting : standby[i] = r
Rested ==
  /\ idle \in [Regions -> Nat] /\ idle[active] = 0
  /\ \A i \in 1..Waiting : idle[standby[i]] <= Cardinality(Regions) - i

LEMMA LineIsCovered ==
  ASSUME InLine, Rested
  PROVE  RecoveryTypeOK /\ EveryRegionHasItsTurn
<1> DEFINE N == Cardinality(Regions)
<1>1. /\ active \in Regions /\ standby \in Seq(Regions) /\ Len(standby) = Waiting
      /\ DOMAIN standby = 1..Waiting
  BY DEF InLine
<1>2. N \in Nat /\ N > 0 /\ Waiting = N - 1
  <2>1. N \in Nat /\ (N = 0 <=> Regions = {})
    BY RecoveryAssumption, FS_CardinalityType, FS_EmptySet
  <2> QED
    BY <1>1, <2>1 DEF Waiting
<1>3. IsInjective(standby)
  BY <1>1 DEF InLine, IsInjective
<1>4. active \notin ToSet(standby) /\ ToSet(standby) \subseteq Regions
  BY <1>1 DEF InLine, ToSet
<1>5. Regions \subseteq {active} \union ToSet(standby)
  BY <1>1 DEF InLine, ToSet
<1>6. ASSUME NEW r \in Regions PROVE idle[r] < N
  <2>1. CASE r = active
    BY <1>2, <2>1 DEF Rested
  <2>2. CASE r # active
    <3>1. PICK i \in 1..Waiting : standby[i] = r
      BY <2>2 DEF InLine
    <3>2. idle[r] <= N - i /\ idle[r] \in Nat
      BY <3>1 DEF Rested
    <3> QED
      BY <1>2, <3>2
  <2> QED
    BY <2>1, <2>2
<1> QED
  BY <1>1, <1>3, <1>4, <1>5, <1>6 DEF EveryRegionHasItsTurn, RecoveryTypeOK, Rested

LEMMA LineStart == RecoveryInit => InLine /\ Rested
<1> SUFFICES ASSUME RecoveryInit PROVE InLine /\ Rested
  OBVIOUS
<1> DEFINE others == Regions \ {active}
<1>1. active \in Regions /\ standby \in SetToSeqs(others) /\ idle = [r \in Regions |-> 0]
  BY DEF RecoveryInit
<1>2. /\ IsFiniteSet(others) /\ Cardinality(others) = Waiting
      /\ Cardinality(Regions) \in Nat
  <2>1. IsFiniteSet(others) /\ Cardinality(others) = Cardinality(Regions) - 1
    BY <1>1, RecoveryAssumption, FS_RemoveElement
  <2> QED
    BY <2>1, RecoveryAssumption, FS_CardinalityType DEF Waiting
<1>3. Waiting \in Nat /\ Cardinality(Regions) = Waiting + 1
  BY <1>2, FS_CardinalityType DEF Waiting
<1> HIDE DEF others
<1>4. /\ standby \in [1..Waiting -> others]
      /\ \A i, j \in 1..Waiting : i # j => standby[i] # standby[j]
  BY <1>1, <1>2 DEF SetToSeqs
<1>5. others = Regions \ {active}
  BY DEF others
<1>6. standby \in Seq(Regions) /\ Len(standby) = Waiting
  BY <1>3, <1>4, <1>5
<1>7. standby \in Surjection(1..Waiting, others)
  <2>1. standby \in Injection(1..Waiting, others)
    BY <1>4 DEF Injection, IsInjective
  <2>2. IsFiniteSet(1..Waiting) /\ Cardinality(1..Waiting) = Waiting
    BY <1>3, FS_Interval
  <2> QED
    BY <1>2, <2>1, <2>2, FS_Injection
<1>8. \A r \in others : \E i \in 1..Waiting : standby[i] = r
  BY <1>7 DEF Surjection
<1>9. InLine
  BY <1>1, <1>4, <1>5, <1>6, <1>8 DEF InLine
<1>10. Rested
  BY <1>1, <1>3, <1>4, <1>5 DEF Rested
<1> QED
  BY <1>9, <1>10

LEMMA LineStep ==
  ASSUME InLine, Rested, [FailOver]_drVars
  PROVE  InLine' /\ Rested'
<1> DEFINE N == Cardinality(Regions)
<1>1. /\ active \in Regions /\ standby \in Seq(Regions) /\ Len(standby) = Waiting
      /\ Waiting \in Nat /\ N = Waiting + 1
  <2>1. N \in Nat
    BY RecoveryAssumption, FS_CardinalityType
  <2>2. Len(standby) = N - 1 /\ Len(standby) \in Nat
    BY DEF InLine, Waiting
  <2> QED
    BY <2>1, <2>2 DEF InLine, Waiting
<1>2. CASE FailOver
  <2>1. /\ standby # <<>> /\ active' = standby[1] /\ standby' = Append(Tail(standby), active)
        /\ idle' = [r \in Regions |-> IF r = active' THEN 0 ELSE idle[r] + 1]
    BY <1>1, <1>2 DEF FailOver, Standby
  <2>2. Waiting > 0 /\ 1 \in 1..Waiting /\ active' \in Regions
    BY <1>1, <2>1
  <2>3. /\ Tail(standby) \in Seq(Regions) /\ Len(Tail(standby)) = Waiting - 1
        /\ \A i \in 1..Waiting - 1 : Tail(standby)[i] = standby[i + 1]
    BY <1>1, <2>2
  <2>4. /\ standby' \in Seq(Regions) /\ Len(standby') = Waiting
        /\ \A i \in 1..Waiting :
             standby'[i] = IF i = Waiting THEN active ELSE standby[i + 1]
    BY <1>1, <2>1, <2>2, <2>3
  <2>5. \A i, j \in 1..Waiting : standby'[i] = standby'[j] => i = j
    <3> SUFFICES ASSUME NEW i \in 1..Waiting, NEW j \in 1..Waiting, standby'[i] = standby'[j]
                 PROVE  i = j
      OBVIOUS
    <3>1. i # Waiting => i + 1 \in 1..Waiting
      BY <1>1
    <3>2. j # Waiting => j + 1 \in 1..Waiting
      BY <1>1
    <3>3. CASE i = Waiting \/ j = Waiting
      BY <2>4, <3>1, <3>2, <3>3 DEF InLine
    <3>4. CASE i # Waiting /\ j # Waiting
      <4>1. standby[i + 1] = standby[j + 1]
        BY <2>4, <3>4
      <4>2. i + 1 = j + 1
        BY <3>1, <3>2, <3>4, <4>1 DEF InLine
      <4> QED
        BY <4>2
    <3> QED
      BY <3>3, <3>4
  <2>6. \A i \in 1..Waiting : standby'[i] # active'
    <3> SUFFICES ASSUME NEW i \in 1..Waiting PROVE standby'[i] # active'
      OBVIOUS
    <3>1. i # Waiting => i + 1 \in 1..Waiting /\ i + 1 # 1
      BY <1>1
    <3>2. standby[1] # active
      BY <2>2 DEF InLine
    <3>3. i # Waiting => standby[i + 1] # standby[1]
      BY <2>2, <3>1 DEF InLine
    <3> QED
      BY <2>1, <2>4, <3>2, <3>3
  <2>7. \A r \in Regions : r = active' \/ \E i \in 1..Waiting : standby'[i] = r
    <3> SUFFICES ASSUME NEW r \in Regions, r # active'
                 PROVE  \E i \in 1..Waiting : standby'[i] = r
      OBVIOUS
    <3>1. CASE r = active
      <4>1. Waiting \in 1..Waiting /\ standby'[Waiting] = active
        BY <1>1, <2>2, <2>4
      <4> QED
        BY <3>1, <4>1
    <3>2. CASE r # active
      <4>1. PICK k \in 1..Waiting : standby[k] = r
        BY <3>2 DEF InLine
      <4>2. k # 1
        BY <2>1, <4>1
      <4>3. k - 1 \in 1..Waiting /\ k - 1 # Waiting /\ (k - 1) + 1 = k
        BY <1>1, <4>2
      <4>4. standby'[k - 1] = r
        BY <2>4, <4>1, <4>3
      <4> QED
        BY <4>3, <4>4
    <3> QED
      BY <3>1, <3>2
  <2>8. InLine'
    BY <2>2, <2>4, <2>5, <2>6, <2>7 DEF InLine, Waiting
  <2>9. idle' \in [Regions -> Nat] /\ idle'[active'] = 0
    BY <2>1, <2>2 DEF Rested
  <2>10. \A i \in 1..Waiting : idle'[standby'[i]] <= N - i
    <3> SUFFICES ASSUME NEW i \in 1..Waiting PROVE idle'[standby'[i]] <= N - i
      OBVIOUS
    <3>1. standby'[i] \in Regions /\ standby'[i] # active'
      BY <2>4, <2>6
    <3>2. idle'[standby'[i]] = idle[standby'[i]] + 1
      BY <2>1, <3>1
    <3>3. CASE i = Waiting
      <4>1. idle[standby'[i]] = 0
        BY <2>4, <3>3 DEF Rested
      <4> QED
        BY <1>1, <3>2, <3>3, <4>1
    <3>4. CASE i # Waiting
      <4>1. i + 1 \in 1..Waiting
        BY <1>1, <3>4
      <4>2. standby'[i] = standby[i + 1] /\ idle[standby[i + 1]] <= N - (i + 1)
        BY <2>4, <3>4, <4>1 DEF Rested
      <4>3. idle[standby[i + 1]] \in Nat
        BY <3>1, <4>2 DEF Rested
      <4> QED
        BY <1>1, <3>2, <4>1, <4>2, <4>3
    <3> QED
      BY <3>3, <3>4
  <2>11. Rested'
    BY <2>9, <2>10 DEF Rested, Waiting
  <2> QED
    BY <2>8, <2>11
<1>3. CASE UNCHANGED drVars
  BY <1>3 DEF drVars, InLine, Rested
<1> QED
  BY <1>2, <1>3

(* However often a workload of any number of regions fails over, no region *)
(* is lost, and one that was active is active again after as many          *)
(* failovers as there are regions.                                         *)
THEOREM EveryRegionHasItsTurnCorrect == RecoverySpec => []EveryRegionHasItsTurn
<1> QED
  BY LineIsCovered, LineStart, LineStep, PTL DEF RecoverySpec

(* The active region and those that stand by are regions of the workload.  *)
THEOREM RecoveryTypeCorrect == RecoverySpec => []RecoveryTypeOK
<1> QED
  BY LineIsCovered, LineStart, LineStep, PTL DEF RecoverySpec

-----------------------------------------------------------------------------
(* ExtensionHost.                                                          *)

(* An id is loaded at most once, with what it was last granted, which is   *)
(* no less than it asked for.                                              *)
Grants == SUBSET Caps
Entries == [id : Ids, granted : Grants]
LoadedOnce ==
  /\ loaded \in Seq(Entries)
  /\ \A i, j \in 1..Len(loaded) : loaded[i].id = loaded[j].id => i = j
AsGiven ==
  /\ asked \in [Ids -> Grants] /\ given \in [Ids -> Grants \union {NotLoaded}]
  /\ \A i \in 1..Len(loaded) :
       given[loaded[i].id] = loaded[i].granted /\ asked[loaded[i].id] \subseteq loaded[i].granted
  /\ \A id \in Ids : ~IsLoaded(id) => given[id] = NotLoaded

LEMMA EntryFacts ==
  /\ \A e \in Entries : e.id \in Ids /\ e.granted \in Grants
  /\ \A id \in Ids, granted \in Grants :
       LET e == [id |-> id, granted |-> granted]
       IN  e \in Entries /\ e.id = id /\ e.granted = granted
  BY DEF Entries

LEMMA LoadedFacts ==
  ASSUME LoadedOnce
  PROVE  /\ Len(loaded) \in Nat /\ DOMAIN loaded = 1..Len(loaded) /\ loaded \in Seq(Entries)
         /\ \A i \in 1..Len(loaded) : loaded[i].id \in Ids /\ loaded[i].granted \in Grants
<1>1. /\ Len(loaded) \in Nat /\ DOMAIN loaded = 1..Len(loaded) /\ loaded \in Seq(Entries)
      /\ \A i \in 1..Len(loaded) : loaded[i] \in Entries
  BY DEF LoadedOnce
<1> QED
  BY <1>1, EntryFacts

LEMMA HostHolds ==
  ASSUME LoadedOnce, AsGiven
  PROVE  HostTypeOK /\ GrantIsLastGiven
<1>1. Len(loaded) \in Nat /\ DOMAIN loaded = 1..Len(loaded)
  BY LoadedFacts
<1>2. \A i \in 1..Len(loaded) : loaded[i].id \in Ids /\ loaded[i].granted \subseteq Caps
  BY LoadedFacts DEF Grants
<1>3. ASSUME NEW id \in Ids
      PROVE  Granted(id) = given[id] /\ (IsLoaded(id) => asked[id] \subseteq Granted(id))
  <2>1. CASE IsLoaded(id)
    <3>1. PICK i \in 1..Len(loaded) : loaded[i].id = id
      BY <1>1, <2>1 DEF IsLoaded
    <3>2. {k \in DOMAIN loaded : loaded[k].id = id} = {i}
      BY <1>1, <3>1 DEF LoadedOnce
    <3>3. (CHOOSE k \in {i} : \A j \in {i} : k <= j) = i
      BY <3>1
    <3>4. Granted(id) = loaded[i].granted
      BY <3>2, <3>3 DEF Granted
    <3> QED
      BY <3>1, <3>4 DEF AsGiven
  <2>2. CASE ~IsLoaded(id)
    <3>1. {k \in DOMAIN loaded : loaded[k].id = id} = {}
      BY <2>2 DEF IsLoaded
    <3>2. Granted(id) = NotLoaded
      BY <3>1 DEF Granted
    <3> QED
      BY <2>2, <3>2 DEF AsGiven
  <2> QED
    BY <2>1, <2>2
<1> QED
  BY <1>1, <1>2, <1>3 DEF HostTypeOK, GrantIsLastGiven

LEMMA HostStart == HostInit => LoadedOnce /\ AsGiven
<1> SUFFICES ASSUME HostInit PROVE LoadedOnce /\ AsGiven
  OBVIOUS
<1>1. loaded = <<>> /\ loaded \in Seq(Entries) /\ Len(loaded) = 0
  BY DEF HostInit
<1>2. 1..Len(loaded) = {}
  BY <1>1
<1>3. asked \in [Ids -> Grants] /\ given \in [Ids -> Grants \union {NotLoaded}]
  BY DEF HostInit, Grants
<1>4. \A id \in Ids : given[id] = NotLoaded
  BY DEF HostInit
<1> QED
  BY <1>1, <1>2, <1>3, <1>4 DEF LoadedOnce, AsGiven

LEMMA HostLoadStep ==
  ASSUME LoadedOnce, AsGiven, NEW id \in Ids, NEW wanted \in Grants, NEW granted \in Grants,
         NEW compatible \in BOOLEAN, HostLoad(id, wanted, granted, compatible)
  PROVE  LoadedOnce' /\ AsGiven'
<1> DEFINE n == Len(loaded)  e == [id |-> id, granted |-> granted]
<1>1. /\ wanted \subseteq granted /\ ~IsLoaded(id) /\ loaded' = Append(loaded, e)
      /\ asked' = [asked EXCEPT ![id] = wanted] /\ given' = [given EXCEPT ![id] = granted]
  BY DEF HostLoad, Accepted
<1>2. n \in Nat /\ DOMAIN loaded = 1..n /\ loaded \in Seq(Entries)
  BY LoadedFacts
<1>3. \A i \in 1..n : loaded[i].id # id /\ loaded[i].id \in Ids
  BY <1>1, <1>2, LoadedFacts DEF IsLoaded
<1>4. e \in Entries /\ e.id = id /\ e.granted = granted
  BY EntryFacts
<1> HIDE DEF e, n
<1>5. /\ loaded' \in Seq(Entries) /\ Len(loaded') = n + 1 /\ DOMAIN loaded' = 1..n + 1
      /\ \A i \in 1..n + 1 : loaded'[i] = IF i = n + 1 THEN e ELSE loaded[i]
  BY <1>1, <1>2, <1>4 DEF n
<1>6. \A i \in 1..n + 1 : i # n + 1 => i \in 1..n
  BY <1>2
<1>7. \A i, j \in 1..n + 1 : loaded'[i].id = loaded'[j].id => i = j
  <2> SUFFICES ASSUME NEW i \in 1..n + 1, NEW j \in 1..n + 1, loaded'[i].id = loaded'[j].id
               PROVE  i = j
    OBVIOUS
  <2>1. CASE i = n + 1 \/ j = n + 1
    BY <1>3, <1>4, <1>5, <1>6, <2>1
  <2>2. CASE i # n + 1 /\ j # n + 1
    BY <1>5, <1>6, <2>2 DEF LoadedOnce, n
  <2> QED
    BY <2>1, <2>2
<1>8. LoadedOnce'
  BY <1>5, <1>7 DEF LoadedOnce
<1>9. asked' \in [Ids -> Grants] /\ given' \in [Ids -> Grants \union {NotLoaded}]
  BY <1>1 DEF AsGiven
<1>10. ASSUME NEW i \in 1..n + 1
       PROVE  /\ given'[loaded'[i].id] = loaded'[i].granted
              /\ asked'[loaded'[i].id] \subseteq loaded'[i].granted
  <2>1. CASE i = n + 1
    BY <1>1, <1>4, <1>5, <2>1 DEF AsGiven
  <2>2. CASE i # n + 1
    <3>1. i \in 1..n /\ loaded'[i] = loaded[i] /\ loaded[i].id # id /\ loaded[i].id \in Ids
      BY <1>3, <1>5, <1>6, <2>2
    <3>2. /\ given'[loaded[i].id] = given[loaded[i].id]
          /\ asked'[loaded[i].id] = asked[loaded[i].id]
      BY <1>1, <3>1 DEF AsGiven
    <3> QED
      BY <3>1, <3>2 DEF AsGiven, n
  <2> QED
    BY <2>1, <2>2
<1>11. ASSUME NEW x \in Ids, ~IsLoaded(x)' PROVE given'[x] = NotLoaded
  <2>1. \A i \in 1..n + 1 : loaded'[i].id # x
    BY <1>5, <1>11 DEF IsLoaded
  <2>2. x # id
    <3>1. n + 1 \in 1..n + 1
      BY <1>2
    <3> QED
      BY <1>4, <1>5, <2>1, <3>1
  <2>3. \A i \in 1..n : i \in 1..n + 1 /\ i # n + 1
    BY <1>2
  <2>4. ~IsLoaded(x)
    BY <1>2, <1>5, <2>1, <2>3 DEF IsLoaded
  <2> QED
    BY <1>1, <2>2, <2>4 DEF AsGiven
<1>12. AsGiven'
  BY <1>5, <1>9, <1>10, <1>11 DEF AsGiven
<1> QED
  BY <1>8, <1>12

LEMMA HostUnloadStep ==
  ASSUME LoadedOnce, AsGiven, NEW id \in Ids, HostUnload(id)
  PROVE  LoadedOnce' /\ AsGiven'
<1> DEFINE n == Len(loaded)  S == {i \in DOMAIN loaded : loaded[i].id # id}
           N == Cardinality(S)  f == Upwards(S)
<1>1. /\ loaded' = Picked(loaded, S) /\ asked' = asked
      /\ given' = [given EXCEPT ![id] = NotLoaded]
  BY DEF HostUnload, Unloaded
<1>2. /\ n \in Nat /\ DOMAIN loaded = 1..n /\ loaded \in Seq(Entries)
      /\ \A i \in 1..n : loaded[i].id \in Ids
  BY LoadedFacts
<1>3. S \in SUBSET (1..n) /\ (\A i \in S : loaded[i].id # id)
      /\ \A i \in 1..n : loaded[i].id # id => i \in S
  BY <1>2
<1> HIDE DEF S
<1>4. /\ N \in 0..n /\ loaded' \in Seq(Entries) /\ Len(loaded') = N
      /\ f \in [1..N -> S] /\ \A k \in 1..N : loaded'[k] = loaded[f[k]]
      /\ \A i \in S : \E k \in 1..N : f[k] = i
      /\ \A k, l \in 1..N : k < l <=> f[k] < f[l]
  <2>1. S \in SUBSET (1..Len(loaded)) /\ loaded \in Seq(Entries)
    BY <1>2, <1>3
  <2>2. /\ N \in 0..n /\ Picked(loaded, S) \in Seq(Entries) /\ Len(Picked(loaded, S)) = N
        /\ f \in [1..N -> S] /\ \A k \in 1..N : Picked(loaded, S)[k] = loaded[f[k]]
        /\ \A i \in S : \E k \in 1..N : f[k] = i
        /\ \A k, l \in 1..N : k < l <=> f[k] < f[l]
    BY <2>1, PickedFacts
  <2> QED
    BY <1>1, <2>2
<1> HIDE DEF N, f, n
<1>5. \A k \in 1..N : f[k] \in 1..n /\ loaded[f[k]].id # id
  BY <1>3, <1>4
<1>6. \A k, l \in 1..N : loaded'[k].id = loaded'[l].id => k = l
  <2> SUFFICES ASSUME NEW k \in 1..N, NEW l \in 1..N, loaded'[k].id = loaded'[l].id
               PROVE  k = l
    OBVIOUS
  <2>1. f[k] = f[l]
    BY <1>4, <1>5 DEF LoadedOnce, n
  <2>2. ~(k < l) /\ ~(l < k)
    BY <1>2, <1>4, <1>5, <2>1
  <2> QED
    BY <1>4, <2>2
<1>7. LoadedOnce'
  BY <1>4, <1>6 DEF LoadedOnce
<1>8. asked' \in [Ids -> Grants] /\ given' \in [Ids -> Grants \union {NotLoaded}]
  BY <1>1 DEF AsGiven
<1>9. ASSUME NEW k \in 1..N
      PROVE  /\ given'[loaded'[k].id] = loaded'[k].granted
             /\ asked'[loaded'[k].id] \subseteq loaded'[k].granted
  <2>1. f[k] \in 1..n /\ loaded[f[k]].id # id /\ loaded[f[k]].id \in Ids
    BY <1>2, <1>5
  <2>2. given'[loaded[f[k]].id] = given[loaded[f[k]].id]
    BY <1>1, <2>1 DEF AsGiven
  <2> QED
    BY <1>1, <1>4, <2>1, <2>2 DEF AsGiven, n
<1>10. ASSUME NEW x \in Ids, ~IsLoaded(x)' PROVE given'[x] = NotLoaded
  <2>1. CASE x = id
    BY <1>1, <2>1 DEF AsGiven
  <2>2. CASE x # id
    <3>1. ASSUME NEW i \in 1..n, loaded[i].id = x PROVE FALSE
      <4>1. i \in S
        BY <1>3, <2>2, <3>1
      <4>2. PICK k \in 1..N : f[k] = i
        BY <1>4, <4>1
      <4>3. loaded'[k].id = x /\ k \in DOMAIN loaded'
        BY <1>4, <3>1, <4>2
      <4> QED
        BY <1>10, <4>3 DEF IsLoaded
    <3>2. ~IsLoaded(x)
      BY <1>2, <3>1 DEF IsLoaded
    <3> QED
      BY <1>1, <2>2, <3>2 DEF AsGiven
  <2> QED
    BY <2>1, <2>2
<1>11. AsGiven'
  BY <1>4, <1>8, <1>9, <1>10 DEF AsGiven
<1> QED
  BY <1>7, <1>11

LEMMA HostStep == LoadedOnce /\ AsGiven /\ [HostNext]_hostVars => LoadedOnce' /\ AsGiven'
<1> SUFFICES ASSUME LoadedOnce, AsGiven, [HostNext]_hostVars PROVE LoadedOnce' /\ AsGiven'
  OBVIOUS
<1>1. CASE HostNext
  BY <1>1, HostLoadStep, HostUnloadStep DEF HostNext, Grants
<1>2. CASE UNCHANGED hostVars
  BY <1>2 DEF hostVars, LoadedOnce, AsGiven, IsLoaded
<1> QED
  BY <1>1, <1>2

(* After any sequence of loads and unloads the host's answer is the grant  *)
(* of the last load, and a loaded extension holds all that it asked for.   *)
THEOREM GrantIsLastGivenCorrect == HostSpec => []GrantIsLastGiven
<1> QED
  BY HostHolds, HostStart, HostStep, PTL DEF HostSpec

(* A loaded extension has an id and a set of capabilities.                 *)
THEOREM HostTypeCorrect == HostSpec => []HostTypeOK
<1> QED
  BY HostHolds, HostStart, HostStep, PTL DEF HostSpec

-----------------------------------------------------------------------------
(* OperatorFiles.                                                          *)

Writing == {"open", "fill", "chmod"}
FileStates == [text : {"none", "torn", "template", "own"}, executable : BOOLEAN]

(* A command that is to write found no text of the operator, unless it is   *)
(* forced; one that is there now was written later.                         *)
WrittenLater ==
  \A c \in Commands :
    command[c].pc \in Writing /\ file[command[c].name].text = "own"
      => command[c].force \/ raced[c]
FilesKnown == FilesTypeOK /\ WrittenLater

LEMMA FilesStart == FilesInit => FilesKnown
<1> SUFFICES ASSUME FilesInit PROVE FilesKnown
  OBVIOUS
<1>1. file \in [Names -> FileStates]
  BY DEF FilesInit, Missing, FileStates
<1>2. NoCommand("hook", "") \in Command /\ NoCommand("hook", "").pc = "done"
  <2>1. [pc |-> "done", name |-> "hook", force |-> FALSE, linked |-> FALSE, said |-> ""] \in Command
    BY DEF Command, Names
  <2> QED
    BY <2>1 DEF NoCommand
<1>3. command \in [Commands -> Command] /\ \A c \in Commands : command[c].pc = "done"
  BY <1>2 DEF FilesInit
<1>4. commands \in 0..MaxCommands
  <2>1. commands = 0
    BY DEF FilesInit
  <2> QED
    BY <2>1, FilesAssumption
<1>5. FilesTypeOK
  BY <1>1, <1>3, <1>4 DEF FilesInit, FilesTypeOK, FileStates
<1>6. WrittenLater
  BY <1>3 DEF WrittenLater, Writing
<1> QED
  BY <1>5, <1>6 DEF FilesKnown

LEMMA FilesTouch ==
  ASSUME FilesKnown, NEW n \in Names, NEW new \in Left(n), NEW inPlace \in BOOLEAN,
         Touch(n, new, inPlace)
  PROVE  FilesKnown' /\ OwnTextKept
<1>1. /\ command \in [Commands -> Command] /\ raced \in [Commands -> BOOLEAN]
      /\ file \in [Names -> FileStates]
  BY DEF FilesKnown, FilesTypeOK, FileStates
<1>7. new \in FileStates
  <2>1. Missing \in FileStates
    BY DEF Missing, FileStates
  <2>2. [text |-> "own", executable |-> n = "hook"] \in FileStates
    BY DEF FileStates
  <2>3. [text : {"template"}, executable : BOOLEAN] \subseteq FileStates
    BY DEF FileStates
  <2> QED
    BY <2>1, <2>2, <2>3 DEF Left
<1>2. /\ file' = [file EXCEPT ![n] = new]
      /\ command' = [c \in Commands |-> IF command[c].name = n /\ ~inPlace
                       THEN [command[c] EXCEPT !.linked = FALSE] ELSE command[c]]
      /\ raced' = [c \in Commands |-> raced[c] \/ command[c].name = n]
      /\ UNCHANGED <<report, looked, commands>>
  BY DEF Touch
<1>3. ASSUME NEW c \in Commands
      PROVE  /\ command'[c] \in Command /\ command'[c].pc = command[c].pc
             /\ command'[c].name = command[c].name /\ command'[c].force = command[c].force
  <2>1. command[c] \in Command
    BY <1>1
  <2>2. [command[c] EXCEPT !.linked = FALSE] \in Command
    BY <2>1 DEF Command
  <2> QED
    BY <1>2, <2>1, <2>2 DEF Command
<1>4. FilesTypeOK'
  <2>1. file' \in [Names -> FileStates]
    BY <1>1, <1>2, <1>7
  <2>2. command' \in [Commands -> Command]
    BY <1>2, <1>3
  <2>3. raced' \in [Commands -> BOOLEAN]
    BY <1>1, <1>2
  <2> QED
    BY <1>2, <2>1, <2>2, <2>3 DEF FilesKnown, FilesTypeOK, FileStates
<1>5. WrittenLater'
  <2> SUFFICES ASSUME NEW c \in Commands, command'[c].pc \in Writing,
                      file'[command'[c].name].text = "own"
               PROVE  command'[c].force \/ raced'[c]
    BY DEF WrittenLater
  <2>1. CASE command[c].name = n
    BY <1>2, <2>1
  <2>2. CASE command[c].name # n
    <3>1. command[c].name \in Names
      BY <1>1 DEF Command
    <3>2. file[command[c].name].text = "own"
      BY <1>1, <1>2, <1>3, <2>2, <3>1
    <3> QED
      BY <1>2, <1>3, <3>2 DEF FilesKnown, WrittenLater
  <2> QED
    BY <2>1, <2>2
<1>6. OwnTextKept
  BY <1>3 DEF OwnTextKept
<1> QED
  BY <1>4, <1>5, <1>6 DEF FilesKnown

(* A step of the command c writes no text of the operator's, and changes a  *)
(* file only when it has come so far.                                       *)
LEMMA FilesMove ==
  ASSUME FilesKnown, NEW c \in Commands, NEW new \in Command, command' = [command EXCEPT ![c] = new],
         file' \in [Names -> FileStates],
         \A n \in Names : file'[n].text = "own" => file[n].text = "own",
         raced' \in [Commands -> BOOLEAN], \A d \in Commands : d # c => raced'[d] = raced[d],
         commands' \in 0..MaxCommands, UNCHANGED <<report, looked>>,
         new.pc \in Writing /\ file[new.name].text = "own" => new.force \/ raced'[c],
         file' = file \/ command[c].pc \in Writing
  PROVE  FilesKnown' /\ OwnTextKept
<1>1. /\ command \in [Commands -> Command] /\ command' \in [Commands -> Command]
      /\ command'[c] = new /\ \A d \in Commands : d # c => command'[d] = command[d]
  BY DEF FilesKnown, FilesTypeOK
<1>2. FilesTypeOK'
  BY <1>1 DEF FilesKnown, FilesTypeOK, FileStates
<1>3. WrittenLater'
  <2> SUFFICES ASSUME NEW d \in Commands, command'[d].pc \in Writing,
                      file'[command'[d].name].text = "own"
               PROVE  command'[d].force \/ raced'[d]
    BY DEF WrittenLater
  <2>1. command'[d].name \in Names
    BY <1>1 DEF Command
  <2>2. file[command'[d].name].text = "own"
    BY <2>1
  <2> QED
    BY <1>1, <2>2 DEF FilesKnown, WrittenLater
<1>4. OwnTextKept
  BY <1>1 DEF OwnTextKept, FilesKnown, WrittenLater
<1> QED
  BY <1>2, <1>3, <1>4 DEF FilesKnown

LEMMA FilesStarted ==
  ASSUME FilesKnown, NEW c \in Commands, NEW rec \in Command, Start(c, rec),
         rec.pc \notin Writing
  PROVE  FilesKnown' /\ OwnTextKept
<1>1. commands \in 0..MaxCommands /\ commands < MaxCommands /\ commands' = commands + 1
  BY DEF Start, FilesKnown, FilesTypeOK
<1>2. commands' \in 0..MaxCommands
  BY <1>1, FilesAssumption
<1>3. file \in [Names -> FileStates] /\ raced \in [Commands -> BOOLEAN]
  BY DEF FilesKnown, FilesTypeOK, FileStates
<1> QED
  BY <1>2, <1>3, FilesMove DEF Start

LEMMA FilesGo ==
  ASSUME FilesKnown, NEW c \in Commands,
         Look(c) \/ OpenFile(c) \/ FillFile(c) \/ MakeExecutable(c) \/ StopEarly(c)
  PROVE  FilesKnown' /\ OwnTextKept
<1> DEFINE n == command[c].name
           old == file[n]
<1>1. /\ command \in [Commands -> Command] /\ command[c] \in Command /\ n \in Names
      /\ file \in [Names -> FileStates] /\ raced \in [Commands -> BOOLEAN]
      /\ commands \in 0..MaxCommands
  BY DEF FilesKnown, FilesTypeOK, Command, FileStates
<1>2. CASE Look(c)
  <2> DEFINE found == IF n = "hook" THEN HookFinds(command[c].force) ELSE FixFinds
             new == [command[c] EXCEPT !.pc = found[1], !.said = found[2]]
  <2>1. command' = [command EXCEPT ![c] = new] /\ raced' = [raced EXCEPT ![c] = FALSE]
        /\ UNCHANGED <<file, report, looked, commands>>
    BY <1>1, <1>2 DEF Look, Command
  <2>2. /\ file["hook"].text \in {"none", "torn", "template", "own"}
        /\ command[c].force \in BOOLEAN
    BY <1>1 DEF FileStates, Names, Command
  <2>3. /\ found[1] \in {"done", "open"} /\ found[2] \in {"", "ok", "refused"}
        /\ found[1] = "open" /\ old.text = "own" => command[c].force
    BY <1>1, <2>2 DEF HookFinds, FixFinds, Names
  <2> HIDE DEF found
  <2>4. new \in Command /\ new.pc = found[1] /\ new.name = n /\ new.force = command[c].force
    BY <1>1, <2>3 DEF Command
  <2> QED
    BY <1>1, <2>1, <2>3, <2>4, FilesMove DEF Writing
<1>3. ASSUME NEW pc \in {"done", "chmod", "fill"}, NEW said \in {"", "ok", "error", "failed"},
             NEW linked \in BOOLEAN,
             command' = [command EXCEPT ![c].pc = pc, ![c].linked = linked, ![c].said = said],
             UNCHANGED <<report, looked, raced, commands>>,
             file' \in [Names -> FileStates],
             \A m \in Names : file'[m].text = "own" => file[m].text = "own",
             pc = "done" \/ command[c].pc \in Writing,
             file' = file \/ command[c].pc \in Writing
      PROVE  FilesKnown' /\ OwnTextKept
  <2> DEFINE new == [command[c] EXCEPT !.pc = pc, !.linked = linked, !.said = said]
  <2>1. command' = [command EXCEPT ![c] = new]
    BY <1>1, <1>3 DEF Command
  <2>2. new \in Command /\ new.pc = pc /\ new.name = n /\ new.force = command[c].force
    BY <1>1 DEF Command
  <2>3. new.pc \in Writing /\ file[new.name].text = "own" => new.force \/ raced'[c]
    BY <1>3, <2>2 DEF FilesKnown, WrittenLater, Writing
  <2> QED
    BY <1>1, <1>3, <2>1, <2>2, <2>3, FilesMove
<1>4. ASSUME NEW text \in {"torn", "template", old.text}, NEW m \in Names,
             file' = [file EXCEPT ![n].text = text]
      PROVE  /\ file' \in [Names -> FileStates]
             /\ file'[m].text = "own" => file[m].text = "own"
  <2>1. [old EXCEPT !.text = text] \in FileStates /\ [old EXCEPT !.text = text].text = text
    BY <1>1 DEF FileStates
  <2>2. file' = [file EXCEPT ![n] = [old EXCEPT !.text = text]]
    BY <1>1, <1>4 DEF FileStates
  <2> QED
    BY <1>1, <2>1, <2>2
<1>5. CASE OpenFile(c)
  <2>1. /\ command[c].pc = "open" /\ file' = [file EXCEPT ![n].text = "torn"]
        /\ command' = [command EXCEPT ![c].pc = "fill", ![c].linked = TRUE]
        /\ UNCHANGED <<report, looked, raced, commands>>
    BY <1>5 DEF OpenFile
  <2> DEFINE new == [command[c] EXCEPT !.pc = "fill", !.linked = TRUE]
  <2>2. command' = [command EXCEPT ![c] = new]
    BY <1>1, <2>1 DEF Command
  <2>3. new \in Command /\ new.name = n /\ new.force = command[c].force
    BY <1>1 DEF Command
  <2>4. file' \in [Names -> FileStates]
        /\ \A m \in Names : file'[m].text = "own" => file[m].text = "own"
    BY <1>1, <1>4, <2>1
  <2>5. old.text = "own" => command[c].force \/ raced'[c]
    BY <2>1 DEF FilesKnown, WrittenLater, Writing
  <2>6. command[c].pc \in Writing
    BY <2>1 DEF Writing
  <2> HIDE DEF new
  <2> QED
    BY <1>1, <2>1, <2>2, <2>3, <2>4, <2>5, <2>6, FilesMove
<1>6. CASE FillFile(c)
  <2>1. PICK text \in Filled(c, old.text) : file' = [file EXCEPT ![n].text = text]
    BY <1>6 DEF FillFile
  <2>2. text \in {"torn", "template", old.text}
    BY <2>1 DEF Filled
  <2>3. file' \in [Names -> FileStates]
        /\ \A m \in Names : file'[m].text = "own" => file[m].text = "own"
    BY <1>1, <1>4, <2>1, <2>2
  <2>4. command[c].pc \in Writing /\ (Goes(c, "chmod", "") \/ Goes(c, "done", "ok"))
    BY <1>6 DEF FillFile, Writing
  <2> QED
    BY <1>3, <2>3, <2>4 DEF Goes
<1>7. CASE MakeExecutable(c)
  <2>1. command[c].pc \in Writing /\ Goes(c, "done", "ok")
        /\ file' = [file EXCEPT !["hook"].executable = TRUE]
    BY <1>7 DEF MakeExecutable, Writing
  <2>2. file' \in [Names -> FileStates]
        /\ \A m \in Names : file'[m].text = "own" => file[m].text = "own"
    <3> DEFINE new == [file["hook"] EXCEPT !.executable = TRUE]
    <3>1. "hook" \in Names /\ new \in FileStates /\ new.text = file["hook"].text
      BY <1>1 DEF FileStates, Names
    <3>2. file' = [file EXCEPT !["hook"] = new]
      BY <1>1, <2>1 DEF FileStates
    <3> HIDE DEF new
    <3> QED
      BY <1>1, <3>1, <3>2
  <2> QED
    BY <1>3, <2>1, <2>2 DEF Goes
<1>8. CASE StopEarly(c)
  <2>1. PICK said \in {"", IF n = "hook" THEN "error" ELSE "failed"} : Goes(c, "done", said)
    BY <1>8 DEF StopEarly
  <2>2. file' = file
    BY <1>8 DEF StopEarly
  <2> QED
    BY <1>1, <1>3, <2>1, <2>2 DEF Goes
<1> QED
  BY <1>2, <1>5, <1>6, <1>7, <1>8

LEMMA FilesStep ==
  ASSUME FilesKnown, FilesNext
  PROVE  FilesKnown' /\ OwnTextKept
<1>1. ASSUME NEW n \in Names, NEW inPlace \in BOOLEAN, NEW new \in Left(n), Touch(n, new, inPlace)
      PROVE  FilesKnown' /\ OwnTextKept
  BY <1>1, FilesTouch
<1>2. ASSUME (\E wanted \in BOOLEAN : CheckWellKnown(wanted)) \/ WriteReport
      PROVE  FilesKnown' /\ OwnTextKept
  <2>1. /\ looked' \in {"idle", "finding", "clean"}
        /\ report' \in {"none", "torn", "finding", "clean"}
        /\ UNCHANGED <<file, command, raced, commands>>
    BY <1>2 DEF CheckWellKnown, WriteReport, FilesKnown, FilesTypeOK
  <2> QED
    BY <2>1 DEF FilesKnown, FilesTypeOK, WrittenLater, OwnTextKept
<1>3. ASSUME NEW c \in Commands, StartFix(c)
      PROVE  FilesKnown' /\ OwnTextKept
  <2> DEFINE rec == IF report = "finding" THEN [NoCommand("security_txt", "") EXCEPT !.pc = "look"]
                    ELSE NoCommand("security_txt", IF report = "clean" THEN "ok" ELSE "error")
  <2>1. Start(c, rec)
    BY <1>3 DEF StartFix
  <2>2. rec \in Command /\ rec.pc \notin Writing
    BY DEF NoCommand, Command, Names, Writing
  <2> QED
    BY <2>1, <2>2, FilesStarted
<1>4. ASSUME NEW c \in Commands, NEW force \in BOOLEAN, StartInitHook(c, force)
      PROVE  FilesKnown' /\ OwnTextKept
  <2> DEFINE rec == [NoCommand("hook", "") EXCEPT !.pc = "look", !.force = force]
  <2>1. Start(c, rec)
    BY <1>4 DEF StartInitHook
  <2>2. rec \in Command /\ rec.pc \notin Writing
    BY DEF NoCommand, Command, Names, Writing
  <2> QED
    BY <2>1, <2>2, FilesStarted
<1> QED
  BY <1>1, <1>2, <1>3, <1>4, FilesGo DEF FilesNext

LEMMA FilesKept == FilesKnown /\ [FilesNext]_filesVars => FilesKnown'
<1> SUFFICES ASSUME FilesKnown, UNCHANGED filesVars PROVE FilesKnown'
  BY FilesStep
<1> QED
  BY DEF filesVars, FilesKnown, FilesTypeOK, WrittenLater

(* A command changes a file with a text of the operator only if it was      *)
(* forced to, or the operator has touched the file since the command        *)
(* looked, however commands overlap and wherever they die.                  *)
THEOREM OwnTextIsKeptCorrect == FilesSpec => OwnTextIsKept
<1>1. FilesKnown /\ [FilesNext]_filesVars => [OwnTextKept]_filesVars
  BY FilesStep
<1> QED
  BY <1>1, FilesKept, FilesStart, PTL DEF FilesSpec, OwnTextIsKept

(* The two files, the report, the commands and the history have their       *)
(* types.                                                                   *)
THEOREM FilesTypeCorrect == FilesSpec => []FilesTypeOK
<1>2. FilesKnown => FilesTypeOK
  BY DEF FilesKnown
<1> QED
  BY <1>2, FilesKept, FilesStart, PTL DEF FilesSpec

-----------------------------------------------------------------------------
(* IdentityChain.                                                          *)

Turn == {"idle", "read", "built", "written", "failed"}
Holds(o) == operator[o].pc \in {"built", "written", "failed"}
Pairs == [from : Nat, to : Nat]

(* The types, with the identity as the number of transitions built.        *)
IdTyped ==
  /\ transition \in Seq(Pairs) /\ identity = Len(transition) /\ Len(transition) <= MaxTransitions
  /\ chain \in Seq(Pieces) /\ \A i \in 1..Len(chain) : chain[i] \in Nat => chain[i] \in 1..identity
  /\ kept \in Seq(Nat) /\ \A i \in 1..Len(kept) : kept[i] \in 1..identity
  /\ operator \in [Operators -> [pc : Turn, from : Nat, edit : Nat]]
  /\ \A o \in Operators : Holds(o) => operator[o].edit \in 1..identity
  /\ failures \in 0..MaxFailures /\ repeated \in SUBSET (1..identity) /\ inTurn \in BOOLEAN

(* Each transition is in one operator's hands, and in the file at most     *)
(* once until its append is run again.                                     *)
EachOnce ==
  /\ \A o, p \in Operators :
       Holds(o) /\ Holds(p) /\ operator[o].edit = operator[p].edit => o = p
  /\ \A i, j \in 1..Len(chain) :
       chain[i] \in Nat /\ chain[i] = chain[j] /\ i # j => chain[i] \in repeated
  /\ \A o \in Operators : operator[o].pc = "built" /\ operator[o].edit \notin repeated =>
       \A i \in 1..Len(chain) : chain[i] # operator[o].edit

(* What the file looks like as long as nothing fails and nobody overlaps:  *)
(* the transitions in the order of their numbers, each on its line.        *)
Orderly ==
  /\ \A o \in Operators : operator[o].pc # "failed"
  /\ \A o, p \in Operators : operator[o].pc # "idle" /\ operator[p].pc # "idle" => o = p
  /\ \A o \in Operators : operator[o].pc = "read" => operator[o].from = identity
  /\ \A k \in 1..identity : transition[k].from = k - 1 /\ transition[k].to = k
  /\ \A i \in 1..Len(chain) : \E k \in 1..identity :
       (i = 2 * k - 1 /\ chain[i] = k) \/ (i = 2 * k /\ chain[i] = Newline)
  /\ \A o \in Operators :
       /\ operator[o].pc = "built" =>
            Len(chain) = 2 * identity - 2 /\ operator[o].edit = identity
       /\ operator[o].pc = "written" =>
            Len(chain) = 2 * identity - 1 /\ operator[o].edit = identity
  /\ (\A o \in Operators : operator[o].pc \in {"idle", "read"}) => Len(chain) = 2 * identity
  /\ \A i \in 1..Len(kept) : 2 * kept[i] <= Len(chain)
IdKnown == IdTyped /\ EachOnce /\ (failures = 0 /\ inTurn => Orderly)

LEMMA IdStart == IdInit => IdKnown
<1> SUFFICES ASSUME IdInit PROVE IdKnown
  OBVIOUS
<1>1. /\ identity = 0 /\ transition = <<>> /\ chain = <<>> /\ kept = <<>>
      /\ operator = [o \in Operators |-> AtRest] /\ failures = 0 /\ repeated = {} /\ inTurn = TRUE
  BY DEF IdInit
<1>2. /\ transition \in Seq(Pairs) /\ Len(transition) = 0
      /\ chain \in Seq(Pieces) /\ Len(chain) = 0 /\ kept \in Seq(Nat) /\ Len(kept) = 0
  BY <1>1
<1>3. \A n : n \in 1..0 => FALSE
  OBVIOUS
<1>4. /\ operator \in [Operators -> [pc : Turn, from : Nat, edit : Nat]]
      /\ \A o \in Operators : operator[o].pc = "idle"
  BY <1>1 DEF AtRest, Turn
<1>5. failures \in 0..MaxFailures /\ 0 <= MaxTransitions
  BY <1>1, IdAssumption
<1>6. IdTyped
  BY <1>1, <1>2, <1>3, <1>4, <1>5 DEF IdTyped, Holds
<1>7. EachOnce
  BY <1>2, <1>3, <1>4 DEF EachOnce, Holds
<1>8. Orderly
  BY <1>1, <1>2, <1>3, <1>4 DEF Orderly
<1> QED
  BY <1>6, <1>7, <1>8 DEF IdKnown

(* The operators that do not move, and the one that does.                  *)
Moved(o, pc, from, edit) ==
  /\ operator' \in [Operators -> [pc : Turn, from : Nat, edit : Nat]]
  /\ operator'[o].pc = pc /\ operator'[o].from = from /\ operator'[o].edit = edit
  /\ \A p \in Operators \ {o} : operator'[p] = operator[p]

LEMMA Moves3 ==
  ASSUME IdTyped, NEW o \in Operators
  PROVE  /\ \A pc \in Turn : Turns(o, pc) => Moved(o, pc, operator[o].from, operator[o].edit)
         /\ operator' = [operator EXCEPT ![o] = AtRest] => Moved(o, "idle", 0, 0)
<1>1. operator \in [Operators -> [pc : Turn, from : Nat, edit : Nat]]
  BY DEF IdTyped
<1>2. ASSUME NEW pc \in Turn, Turns(o, pc)
      PROVE  Moved(o, pc, operator[o].from, operator[o].edit)
  BY <1>1, <1>2 DEF Turns, Moved
<1>3. ASSUME operator' = [operator EXCEPT ![o] = AtRest] PROVE Moved(o, "idle", 0, 0)
  BY <1>1, <1>3 DEF AtRest, Moved, Turn
<1> QED
  BY <1>2, <1>3

LEMMA IdRead ==
  ASSUME IdKnown, NEW o \in Operators, ReadIdentity(o)
  PROVE  IdKnown'
<1>1. /\ operator[o].pc = "idle"
      /\ operator' = [operator EXCEPT ![o] = [pc |-> "read", from |-> identity, edit |-> 0]]
      /\ inTurn' = (inTurn /\ \A p \in Operators \ {o} : operator[p].pc = "idle")
      /\ UNCHANGED <<identity, transition, chain, kept, failures, repeated>>
  BY DEF ReadIdentity
<1>2. IdTyped /\ EachOnce /\ identity \in Nat
  BY DEF IdKnown, IdTyped
<1>3. Moved(o, "read", identity, 0)
  BY <1>1, <1>2 DEF IdTyped, Moved, Turn
<1>4. \A p \in Operators : Holds(p)' <=> Holds(p) /\ p # o
  BY <1>1, <1>3 DEF Moved, Holds
<1>5. \A p \in Operators : p # o => operator'[p] = operator[p]
  BY <1>3 DEF Moved
<1>6. IdTyped'
  <2>1. \A p \in Operators : Holds(p)' => operator'[p].edit \in 1..identity
    BY <1>2, <1>4, <1>5 DEF IdTyped
  <2> QED
    BY <1>1, <1>2, <1>3, <2>1 DEF IdTyped, Moved
<1>7. EachOnce'
  <2>1. operator'[o].pc = "read"
    BY <1>3 DEF Moved
  <2> QED
    BY <1>1, <1>2, <1>4, <1>5, <2>1 DEF EachOnce
<1>8. ASSUME failures' = 0, inTurn' PROVE Orderly'
  <2>1. Orderly /\ \A p \in Operators : operator[p].pc = "idle"
    BY <1>1, <1>8 DEF IdKnown
  <2>2. operator'[o].pc = "read" /\ operator'[o].from = identity
    BY <1>3 DEF Moved
  <2>3. \A p \in Operators : p # o => operator'[p].pc = "idle"
    BY <1>5, <2>1
  <2>4. Len(chain) = 2 * identity
    BY <2>1 DEF Orderly
  <2> QED
    BY <1>1, <2>1, <2>2, <2>3, <2>4 DEF Orderly
<1> QED
  BY <1>6, <1>7, <1>8 DEF IdKnown

LEMMA IdBuild ==
  ASSUME IdKnown, NEW o \in Operators, BuildTransition(o)
  PROVE  IdKnown'
<1> DEFINE T == Len(transition)
           new == [from |-> operator[o].from, to |-> T + 1]
<1>1. /\ operator[o].pc = "read" /\ T < MaxTransitions /\ identity' = T + 1
      /\ transition' = Append(transition, new)
      /\ operator' = [operator EXCEPT ![o].pc = "built", ![o].edit = T + 1]
      /\ UNCHANGED <<chain, kept, failures, repeated, inTurn>>
  BY DEF BuildTransition, Build
<1>2. /\ IdTyped /\ EachOnce /\ identity = T /\ T \in Nat /\ transition \in Seq(Pairs)
      /\ operator[o].from \in Nat
  BY DEF IdKnown, IdTyped
<1>3. new \in Pairs /\ new.from = operator[o].from /\ new.to = T + 1
  BY <1>2 DEF Pairs
<1> HIDE DEF new
<1>4. /\ transition' \in Seq(Pairs) /\ Len(transition') = T + 1
      /\ \A k \in 1..T + 1 : transition'[k] = IF k = T + 1 THEN new ELSE transition[k]
  BY <1>1, <1>2, <1>3
<1>5. Moved(o, "built", operator[o].from, T + 1)
  <2>1. T + 1 \in Nat /\ operator \in [Operators -> [pc : Turn, from : Nat, edit : Nat]]
    BY <1>2 DEF IdTyped
  <2> HIDE DEF T
  <2> QED
    BY <1>1, <2>1 DEF Moved, Turn
<1> HIDE DEF T
<1>6. /\ operator'[o].pc = "built" /\ operator'[o].edit = T + 1
      /\ \A p \in Operators : p # o => operator'[p] = operator[p]
  BY <1>5 DEF Moved
<1>7. \A p \in Operators : Holds(p)' <=> Holds(p) \/ p = o
  BY <1>6 DEF Holds
<1>8. \A p \in Operators : Holds(p) => p # o /\ operator[p].edit \in 1..T
  BY <1>1, <1>2 DEF Holds, IdTyped
<1>9. (\A n \in 1..T : n \in 1..T + 1 /\ n # T + 1) /\ T + 1 \in 1..T + 1
  BY <1>2
<1>10. \A i \in 1..Len(chain) : chain[i] \in Nat => chain[i] \in 1..T
  BY <1>2 DEF IdTyped
<1>11. IdTyped'
  <2>1. \A p \in Operators : Holds(p)' => operator'[p].edit \in 1..T + 1
    BY <1>6, <1>7, <1>8, <1>9
  <2>2. T + 1 <= MaxTransitions
    BY <1>1, <1>2, IdAssumption
  <2>3. (\A i \in 1..Len(kept) : kept[i] \in 1..T + 1) /\ repeated \in SUBSET (1..T + 1)
    BY <1>2, <1>9 DEF IdTyped
  <2>4. \A i \in 1..Len(chain) : chain[i] \in Nat => chain[i] \in 1..T + 1
    BY <1>9, <1>10
  <2> QED
    BY <1>1, <1>2, <1>4, <1>5, <2>1, <2>2, <2>3, <2>4 DEF IdTyped, Moved
<1>12. EachOnce'
  <2>1. \A p, q \in Operators :
          Holds(p)' /\ Holds(q)' /\ operator'[p].edit = operator'[q].edit => p = q
    BY <1>2, <1>6, <1>7, <1>8, <1>9 DEF EachOnce
  <2>2. \A i \in 1..Len(chain) : chain[i] # T + 1
    BY <1>2, <1>9, <1>10
  <2>3. \A i, j \in 1..Len(chain) :
          chain[i] \in Nat /\ chain[i] = chain[j] /\ i # j => chain[i] \in repeated
    BY <1>2 DEF EachOnce
  <2>4. ASSUME NEW p \in Operators, operator'[p].pc = "built", operator'[p].edit \notin repeated,
               NEW i \in 1..Len(chain)
        PROVE  chain[i] # operator'[p].edit
    <3>1. CASE p = o
      BY <1>6, <2>2, <3>1
    <3>2. CASE p # o
      BY <1>2, <1>6, <2>4, <3>2 DEF EachOnce
    <3> QED
      BY <3>1, <3>2
  <2> QED
    BY <1>1, <2>1, <2>3, <2>4 DEF EachOnce
<1>13. ASSUME failures' = 0, inTurn' PROVE Orderly'
  <2>1. /\ Orderly /\ operator[o].from = T
        /\ \A p \in Operators : p # o => operator[p].pc = "idle"
    BY <1>1, <1>2, <1>13 DEF IdKnown, Orderly
  <2>2. Len(chain) = 2 * T
    BY <1>1, <1>2, <2>1 DEF Orderly
  <2>3. \A k \in 1..T + 1 : transition'[k].from = k - 1 /\ transition'[k].to = k
    <3> SUFFICES ASSUME NEW k \in 1..T + 1
                 PROVE  transition'[k].from = k - 1 /\ transition'[k].to = k
      OBVIOUS
    <3>1. CASE k = T + 1
      BY <1>2, <1>3, <1>4, <2>1, <3>1
    <3>2. CASE k # T + 1
      <4>1. k \in 1..T /\ transition'[k] = transition[k]
        BY <1>2, <1>4, <3>2
      <4> QED
        BY <1>2, <2>1, <4>1 DEF Orderly
    <3> QED
      BY <3>1, <3>2
  <2>4. \A i \in 1..Len(chain) : \E k \in 1..T + 1 :
          (i = 2 * k - 1 /\ chain[i] = k) \/ (i = 2 * k /\ chain[i] = Newline)
    BY <1>2, <1>9, <2>1 DEF Orderly
  <2>5. Len(chain) = 2 * (T + 1) - 2
    BY <1>2, <2>2
  <2>6. \A p \in Operators : p # o => operator'[p].pc = "idle"
    BY <1>6, <2>1
  <2>7. ASSUME NEW p \in Operators
        PROVE  /\ operator'[p].pc # "failed"
               /\ operator'[p].pc = "read" => operator'[p].from = T + 1
               /\ operator'[p].pc = "built" => Len(chain) = 2 * (T + 1) - 2 /\ operator'[p].edit = T + 1
               /\ operator'[p].pc = "written" =>
                    Len(chain) = 2 * (T + 1) - 1 /\ operator'[p].edit = T + 1
    BY <1>6, <2>5, <2>6
  <2>8. /\ \A p, q \in Operators : operator'[p].pc # "idle" /\ operator'[q].pc # "idle" => p = q
        /\ ~\A p \in Operators : operator'[p].pc \in {"idle", "read"}
    BY <1>6, <2>6
  <2>9. \A i \in 1..Len(kept) : 2 * kept[i] <= Len(chain)
    BY <2>1 DEF Orderly
  <2> QED
    BY <1>1, <2>3, <2>4, <2>7, <2>8, <2>9 DEF Orderly
<1> QED
  BY <1>11, <1>12, <1>13 DEF IdKnown

(* The file grows by one piece.                                            *)
LEMMA Grown ==
  ASSUME IdTyped, NEW piece \in Pieces, chain' = Append(chain, piece)
  PROVE  /\ chain' \in Seq(Pieces) /\ Len(chain') = Len(chain) + 1 /\ Len(chain) \in Nat
         /\ \A i \in 1..Len(chain) + 1 : chain'[i] = IF i = Len(chain) + 1 THEN piece ELSE chain[i]
         /\ \A i \in 1..Len(chain) + 1 : i # Len(chain) + 1 => i \in 1..Len(chain)
BY DEF IdTyped

LEMMA IdWrite ==
  ASSUME IdKnown, NEW o \in Operators, WriteTransition(o)
  PROVE  IdKnown'
<1> DEFINE e == operator[o].edit  L == Len(chain)
<1>1. /\ operator[o].pc = "built" /\ chain' = Append(chain, e) /\ Turns(o, "written")
      /\ UNCHANGED <<identity, transition, kept, failures, repeated, inTurn>>
  BY DEF WriteTransition
<1>2. /\ IdTyped /\ EachOnce /\ identity \in Nat /\ e \in 1..identity /\ e \in Nat
  BY <1>1 DEF IdKnown, IdTyped, Holds
<1>3. Moved(o, "written", operator[o].from, e)
  BY <1>1, <1>2, Moves3 DEF Turn
<1>4. /\ chain' \in Seq(Pieces) /\ Len(chain') = L + 1 /\ L \in Nat
      /\ \A i \in 1..L + 1 : chain'[i] = IF i = L + 1 THEN e ELSE chain[i]
      /\ \A i \in 1..L + 1 : i # L + 1 => i \in 1..L
  BY <1>1, <1>2, Grown DEF Pieces
<1> HIDE DEF e, L
<1>5. /\ operator'[o].pc = "written" /\ operator'[o].edit = e
      /\ \A p \in Operators : p # o => operator'[p] = operator[p]
  BY <1>3 DEF Moved
<1>6. /\ \A p \in Operators : Holds(p)' <=> Holds(p)
      /\ \A p \in Operators : operator'[p].edit = operator[p].edit
  BY <1>1, <1>5 DEF Holds, e
<1>7. IdTyped'
  <2>1. \A i \in 1..L + 1 : chain'[i] \in Nat => chain'[i] \in 1..identity
    BY <1>2, <1>4 DEF IdTyped, L
  <2>2. \A p \in Operators : Holds(p)' => operator'[p].edit \in 1..identity
    BY <1>2, <1>6 DEF IdTyped
  <2> QED
    BY <1>1, <1>2, <1>3, <1>4, <2>1, <2>2 DEF IdTyped, Moved
<1>8. EachOnce'
  <2>1. \A p, q \in Operators :
          Holds(p)' /\ Holds(q)' /\ operator'[p].edit = operator'[q].edit => p = q
    BY <1>2, <1>6 DEF EachOnce
  <2>2. e \in repeated \/ \A i \in 1..L : chain[i] # e
    BY <1>1, <1>2 DEF EachOnce, e, L
  <2>3. ASSUME NEW i \in 1..L + 1, NEW j \in 1..L + 1, chain'[i] \in Nat, chain'[i] = chain'[j], i # j
        PROVE  chain'[i] \in repeated
    <3>1. CASE i = L + 1 \/ j = L + 1
      BY <1>4, <2>2, <2>3, <3>1
    <3>2. CASE i # L + 1 /\ j # L + 1
      BY <1>2, <1>4, <2>3, <3>2 DEF EachOnce, L
    <3> QED
      BY <3>1, <3>2
  <2>4. ASSUME NEW p \in Operators, operator'[p].pc = "built", operator'[p].edit \notin repeated,
               NEW i \in 1..L + 1
        PROVE  chain'[i] # operator'[p].edit
    <3>1. p # o /\ operator[p].pc = "built" /\ operator'[p].edit = operator[p].edit
      BY <1>5, <2>4
    <3>2. Holds(p) /\ Holds(o)
      BY <1>1, <3>1 DEF Holds
    <3>3. operator[p].edit # e
      BY <1>2, <3>1, <3>2 DEF EachOnce, e
    <3>4. CASE i = L + 1
      BY <1>4, <3>1, <3>3, <3>4
    <3>5. CASE i # L + 1
      BY <1>2, <1>4, <2>4, <3>1, <3>5 DEF EachOnce, L
    <3> QED
      BY <3>4, <3>5
  <2> QED
    BY <1>1, <1>4, <2>1, <2>3, <2>4 DEF EachOnce
<1>9. ASSUME failures' = 0, inTurn' PROVE Orderly'
  <2>1. Orderly /\ \A p \in Operators : p # o => operator'[p].pc = "idle"
    BY <1>1, <1>5, <1>9 DEF IdKnown, Orderly
  <2>2. L = 2 * identity - 2 /\ e = identity
    BY <1>1, <2>1 DEF Orderly, e, L
  <2>3. L + 1 = 2 * identity - 1
    BY <1>2, <2>2
  <2>4. ASSUME NEW i \in 1..L + 1
        PROVE  \E k \in 1..identity :
                 (i = 2 * k - 1 /\ chain'[i] = k) \/ (i = 2 * k /\ chain'[i] = Newline)
    <3>1. CASE i = L + 1
      BY <1>2, <1>4, <2>2, <2>3, <3>1
    <3>2. CASE i # L + 1
      BY <1>4, <2>1, <3>2 DEF Orderly, L
    <3> QED
      BY <3>1, <3>2
  <2>5. ASSUME NEW p \in Operators
        PROVE  /\ operator'[p].pc # "failed" /\ operator'[p].pc # "read"
               /\ operator'[p].pc # "built"
               /\ operator'[p].pc = "written" => operator'[p].edit = identity
    BY <1>5, <2>1, <2>2
  <2>6. /\ \A p, q \in Operators : operator'[p].pc # "idle" /\ operator'[q].pc # "idle" => p = q
        /\ ~\A p \in Operators : operator'[p].pc \in {"idle", "read"}
    BY <1>5, <2>1
  <2>7. \A i \in 1..Len(kept) : 2 * kept[i] <= L + 1
    <3>1. \A i \in 1..Len(kept) : 2 * kept[i] <= L /\ kept[i] \in Nat
      BY <1>2, <2>1 DEF Orderly, L, IdTyped
    <3> QED
      BY <1>4, <3>1
  <2>8. \A k \in 1..identity : transition[k].from = k - 1 /\ transition[k].to = k
    BY <2>1 DEF Orderly
  <2> QED
    BY <1>1, <1>4, <2>3, <2>4, <2>5, <2>6, <2>7, <2>8 DEF Orderly
<1> QED
  BY <1>7, <1>8, <1>9 DEF IdKnown

LEMMA IdEnd ==
  ASSUME IdKnown, NEW o \in Operators, EndTransition(o)
  PROVE  IdKnown'
<1> DEFINE e == operator[o].edit  L == Len(chain)  K == Len(kept)
<1>1. /\ operator[o].pc = "written" /\ chain' = Append(chain, Newline) /\ kept' = Append(kept, e)
      /\ operator' = [operator EXCEPT ![o] = AtRest]
      /\ UNCHANGED <<identity, transition, failures, repeated, inTurn>>
  BY DEF EndTransition
<1>2. /\ IdTyped /\ EachOnce /\ identity \in Nat /\ e \in 1..identity /\ e \in Nat
      /\ kept \in Seq(Nat)
  BY <1>1 DEF IdKnown, IdTyped, Holds
<1>3. Moved(o, "idle", 0, 0)
  BY <1>1, <1>2, Moves3
<1>4. /\ chain' \in Seq(Pieces) /\ Len(chain') = L + 1 /\ L \in Nat
      /\ \A i \in 1..L + 1 : chain'[i] = IF i = L + 1 THEN Newline ELSE chain[i]
      /\ \A i \in 1..L + 1 : i # L + 1 => i \in 1..L
  BY <1>1, <1>2, Grown DEF Pieces
<1>5. /\ kept' \in Seq(Nat) /\ Len(kept') = K + 1 /\ K \in Nat
      /\ \A i \in 1..K + 1 : kept'[i] = IF i = K + 1 THEN e ELSE kept[i]
      /\ \A i \in 1..K + 1 : i # K + 1 => i \in 1..K
  <2> HIDE DEF e
  <2> QED
    BY <1>1, <1>2
<1> HIDE DEF e, L, K
<1>6. /\ operator'[o].pc = "idle"
      /\ \A p \in Operators : p # o => operator'[p] = operator[p]
  BY <1>3 DEF Moved
<1>7. \A p \in Operators : Holds(p)' => Holds(p) /\ operator'[p] = operator[p] /\ p # o
  BY <1>6 DEF Holds
<1>8. \A i \in 1..L + 1 : chain'[i] \in Nat => i \in 1..L /\ chain'[i] = chain[i]
  BY <1>4, PiecesAssumption
<1>9. IdTyped'
  <2>1. \A i \in 1..L + 1 : chain'[i] \in Nat => chain'[i] \in 1..identity
    BY <1>2, <1>8 DEF IdTyped, L
  <2>2. \A p \in Operators : Holds(p)' => operator'[p].edit \in 1..identity
    BY <1>2, <1>7 DEF IdTyped
  <2>3. \A i \in 1..K + 1 : kept'[i] \in 1..identity
    BY <1>2, <1>5 DEF IdTyped, K
  <2> QED
    BY <1>1, <1>2, <1>3, <1>4, <1>5, <2>1, <2>2, <2>3 DEF IdTyped, Moved
<1>10. EachOnce'
  <2>1. \A p, q \in Operators :
          Holds(p)' /\ Holds(q)' /\ operator'[p].edit = operator'[q].edit => p = q
    BY <1>2, <1>7 DEF EachOnce
  <2>2. \A i, j \in 1..L + 1 :
          chain'[i] \in Nat /\ chain'[i] = chain'[j] /\ i # j => chain'[i] \in repeated
    BY <1>2, <1>8 DEF EachOnce, L
  <2>3. ASSUME NEW p \in Operators, operator'[p].pc = "built", operator'[p].edit \notin repeated,
               NEW i \in 1..L + 1
        PROVE  chain'[i] # operator'[p].edit
    <3>1. p # o /\ operator'[p] = operator[p]
      BY <1>6, <2>3
    <3>2. operator[p].edit \in Nat
      BY <1>2 DEF IdTyped
    <3>3. CASE chain'[i] \in Nat
      BY <1>2, <1>8, <2>3, <3>1, <3>3 DEF EachOnce, L
    <3>4. CASE chain'[i] \notin Nat
      BY <3>1, <3>2, <3>4
    <3> QED
      BY <3>3, <3>4
  <2> QED
    BY <1>1, <1>4, <2>1, <2>2, <2>3 DEF EachOnce
<1>11. ASSUME failures' = 0, inTurn' PROVE Orderly'
  <2>1. Orderly /\ \A p \in Operators : operator'[p].pc = "idle"
    BY <1>1, <1>6, <1>11 DEF IdKnown, Orderly
  <2>2. L = 2 * identity - 1 /\ e = identity
    BY <1>1, <2>1 DEF Orderly, e, L
  <2>3. L + 1 = 2 * identity
    BY <1>2, <2>2
  <2>4. ASSUME NEW i \in 1..L + 1
        PROVE  \E k \in 1..identity :
                 (i = 2 * k - 1 /\ chain'[i] = k) \/ (i = 2 * k /\ chain'[i] = Newline)
    <3>1. CASE i = L + 1
      BY <1>2, <1>4, <2>2, <2>3, <3>1
    <3>2. CASE i # L + 1
      BY <1>4, <2>1, <3>2 DEF Orderly, L
    <3> QED
      BY <3>1, <3>2
  <2>5. \A i \in 1..K + 1 : 2 * kept'[i] <= L + 1
    <3>1. \A i \in 1..K : 2 * kept[i] <= L /\ kept[i] \in Nat
      BY <1>2, <2>1 DEF Orderly, L, K, IdTyped
    <3> SUFFICES ASSUME NEW i \in 1..K + 1 PROVE 2 * kept'[i] <= L + 1
      OBVIOUS
    <3>2. CASE i = K + 1
      BY <1>5, <2>2, <2>3, <3>2
    <3>3. CASE i # K + 1
      <4>1. kept'[i] = kept[i] /\ 2 * kept[i] <= L /\ kept[i] \in Nat
        BY <1>5, <3>1, <3>3
      <4> QED
        BY <1>4, <4>1
    <3> QED
      BY <3>2, <3>3
  <2>6. \A k \in 1..identity : transition[k].from = k - 1 /\ transition[k].to = k
    BY <2>1 DEF Orderly
  <2> QED
    BY <1>1, <1>4, <1>5, <2>1, <2>3, <2>4, <2>5, <2>6 DEF Orderly
<1> QED
  BY <1>9, <1>10, <1>11 DEF IdKnown

LEMMA IdFails ==
  ASSUME IdKnown, NEW o \in Operators, AppendFails(o)
  PROVE  IdKnown'
<1> DEFINE L == Len(chain)
<1>1. /\ operator[o].pc \in {"built", "written"} /\ failures < MaxFailures
      /\ chain' = chain \/ chain' = Append(chain, Torn)
      /\ Turns(o, "failed") /\ failures' = failures + 1
      /\ UNCHANGED <<identity, transition, kept, repeated, inTurn>>
  BY DEF AppendFails
<1>2. IdTyped /\ EachOnce /\ L \in Nat /\ failures \in 0..MaxFailures
  BY DEF IdKnown, IdTyped
<1>3. Moved(o, "failed", operator[o].from, operator[o].edit)
  BY <1>1, <1>2, Moves3 DEF Turn
<1>4. chain' \in Seq(Pieces) /\ Len(chain') \in Nat
  <2>1. chain \in Seq(Pieces) /\ Torn \in Pieces
    BY <1>2 DEF IdTyped, Pieces
  <2>2. Append(chain, Torn) \in Seq(Pieces)
    BY <2>1
  <2>3. chain' \in Seq(Pieces)
    BY <1>1, <2>1, <2>2
  <2> QED
    BY <2>3
<1>5. \A i \in 1..Len(chain') : chain'[i] \in Nat => i \in 1..L /\ chain'[i] = chain[i]
  <2>1. CASE chain' = chain
    BY <2>1
  <2>2. CASE chain' = Append(chain, Torn)
    BY <1>2, <2>2, Grown, PiecesAssumption DEF Pieces
  <2> QED
    BY <1>1, <2>1, <2>2
<1> HIDE DEF L
<1>6. /\ operator'[o].pc = "failed" /\ operator'[o].edit = operator[o].edit
      /\ \A p \in Operators : p # o => operator'[p] = operator[p]
  BY <1>3 DEF Moved
<1>7. /\ \A p \in Operators : Holds(p)' <=> Holds(p)
      /\ \A p \in Operators : operator'[p].edit = operator[p].edit
  BY <1>1, <1>6 DEF Holds
<1>8. IdTyped'
  <2>1. \A i \in 1..Len(chain') : chain'[i] \in Nat => chain'[i] \in 1..identity
    BY <1>2, <1>5 DEF IdTyped, L
  <2>2. \A p \in Operators : Holds(p)' => operator'[p].edit \in 1..identity
    BY <1>2, <1>7 DEF IdTyped
  <2>3. failures' \in 0..MaxFailures
    BY <1>1, <1>2, IdAssumption
  <2> QED
    BY <1>1, <1>2, <1>3, <1>4, <2>1, <2>2, <2>3 DEF IdTyped, Moved
<1>9. EachOnce'
  <2>1. \A p, q \in Operators :
          Holds(p)' /\ Holds(q)' /\ operator'[p].edit = operator'[q].edit => p = q
    BY <1>2, <1>7 DEF EachOnce
  <2>2. \A i, j \in 1..Len(chain') :
          chain'[i] \in Nat /\ chain'[i] = chain'[j] /\ i # j => chain'[i] \in repeated
    BY <1>2, <1>5 DEF EachOnce, L
  <2>3. ASSUME NEW p \in Operators, operator'[p].pc = "built", operator'[p].edit \notin repeated,
               NEW i \in 1..Len(chain')
        PROVE  chain'[i] # operator'[p].edit
    <3>1. p # o /\ operator'[p] = operator[p]
      BY <1>6, <2>3
    <3>2. operator[p].edit \in Nat
      BY <1>2 DEF IdTyped
    <3>3. CASE chain'[i] \in Nat
      BY <1>2, <1>5, <2>3, <3>1, <3>3 DEF EachOnce, L
    <3>4. CASE chain'[i] \notin Nat
      BY <3>1, <3>2, <3>4
    <3> QED
      BY <3>3, <3>4
  <2> QED
    BY <1>1, <2>1, <2>2, <2>3 DEF EachOnce
<1>10. failures' # 0
  BY <1>1, <1>2
<1> QED
  BY <1>8, <1>9, <1>10 DEF IdKnown

LEMMA IdAgain ==
  ASSUME IdKnown, NEW o \in Operators, Retry(o) \/ GiveUp(o)
  PROVE  IdKnown'
<1>1. /\ operator[o].pc = "failed"
      /\ \/ Turns(o, "built") /\ repeated' = repeated \union {operator[o].edit}
         \/ operator' = [operator EXCEPT ![o] = AtRest] /\ repeated' = repeated
      /\ UNCHANGED <<identity, transition, chain, kept, failures, inTurn>>
  BY DEF Retry, GiveUp
<1>2. IdTyped /\ EachOnce /\ operator[o].edit \in 1..identity
  BY <1>1 DEF IdKnown, IdTyped, Holds
<1>3. \/ Moved(o, "built", operator[o].from, operator[o].edit) /\ operator[o].edit \in repeated'
      \/ Moved(o, "idle", 0, 0)
  BY <1>1, <1>2, Moves3 DEF Turn
<1>4. /\ operator' \in [Operators -> [pc : Turn, from : Nat, edit : Nat]]
      /\ \A p \in Operators : p # o => operator'[p] = operator[p]
      /\ \/ operator'[o].pc = "built" /\ operator'[o].edit = operator[o].edit
              /\ operator[o].edit \in repeated'
         \/ operator'[o].pc = "idle"
  BY <1>3 DEF Moved
<1>5. \A p \in Operators : Holds(p)' => Holds(p) /\ operator'[p].edit = operator[p].edit
  BY <1>1, <1>4 DEF Holds
<1>6. repeated \subseteq repeated' /\ repeated' \in SUBSET (1..identity)
  BY <1>1, <1>2 DEF IdTyped
<1>7. IdTyped'
  <2>1. \A p \in Operators : Holds(p)' => operator'[p].edit \in 1..identity
    BY <1>2, <1>5 DEF IdTyped
  <2> QED
    BY <1>1, <1>2, <1>4, <1>6, <2>1 DEF IdTyped
<1>8. EachOnce'
  <2>1. \A p, q \in Operators :
          Holds(p)' /\ Holds(q)' /\ operator'[p].edit = operator'[q].edit => p = q
    BY <1>2, <1>5 DEF EachOnce
  <2>2. \A i, j \in 1..Len(chain) :
          chain[i] \in Nat /\ chain[i] = chain[j] /\ i # j => chain[i] \in repeated'
    BY <1>2, <1>6 DEF EachOnce
  <2>3. ASSUME NEW p \in Operators, operator'[p].pc = "built", operator'[p].edit \notin repeated',
               NEW i \in 1..Len(chain)
        PROVE  chain[i] # operator'[p].edit
    <3>1. p # o
      BY <1>4, <2>3
    <3> QED
      BY <1>2, <1>4, <1>6, <2>3, <3>1 DEF EachOnce
  <2> QED
    BY <1>1, <2>1, <2>2, <2>3 DEF EachOnce
<1>9. ~(failures = 0 /\ inTurn)
  BY <1>1 DEF IdKnown, Orderly
<1> QED
  BY <1>1, <1>7, <1>8, <1>9 DEF IdKnown

LEMMA IdStep == IdKnown /\ [IdNext]_idVars => IdKnown'
<1>1. ASSUME IdKnown, IdNext PROVE IdKnown'
  BY <1>1, IdRead, IdBuild, IdWrite, IdEnd, IdFails, IdAgain DEF IdNext
<1>2. ASSUME IdKnown, UNCHANGED idVars PROVE IdKnown'
  <2>1. UNCHANGED <<identity, transition, chain, kept, operator, failures, repeated, inTurn>>
    BY <1>2 DEF idVars
  <2>2. IdTyped'
    BY <1>2, <2>1 DEF IdKnown, IdTyped, Holds
  <2>3. EachOnce'
    BY <1>2, <2>1 DEF IdKnown, EachOnce, Holds
  <2>4. Orderly => Orderly'
    BY <2>1 DEF Orderly
  <2> QED
    BY <1>2, <2>1, <2>2, <2>3, <2>4 DEF IdKnown
<1> QED
  BY <1>1, <1>2

(* What is read of an orderly file: every transition on a line of its own. *)
LEMMA ReadInOrder ==
  ASSUME IdTyped, Orderly
  PROVE  /\ Len(ReadChain) \in 0..identity /\ DOMAIN ReadChain = 1..Len(ReadChain)
         /\ \A k \in 1..Len(ReadChain) : ReadChain[k] = k
         /\ \A k \in 1..identity : 2 * k - 1 <= Len(chain) => k <= Len(ReadChain)
<1> DEFINE L == Len(chain)
           S == {i \in DOMAIN chain : LineParses(chain, i)}
           N == Cardinality(S)
           f == Upwards(S)
<1>1. /\ chain \in Seq(Pieces) /\ L \in Nat /\ DOMAIN chain = 1..L /\ identity \in Nat
      /\ Newline \notin Nat
  BY PiecesAssumption DEF IdTyped
<1>2. \A i \in 1..L : \E k \in 1..identity :
        (i = 2 * k - 1 /\ chain[i] = k) \/ (i = 2 * k /\ chain[i] = Newline)
  BY DEF Orderly
<1>3. S \in SUBSET (1..Len(chain))
  BY <1>1
<1>4. \A i \in S : \E k \in 1..identity : i = 2 * k - 1 /\ chain[i] = k
  BY <1>1, <1>2, <1>3 DEF LineParses
<1>5. ASSUME NEW k \in 1..identity, 2 * k - 1 <= L PROVE 2 * k - 1 \in S
  <2>1. 2 * k - 1 \in 1..L
    BY <1>1, <1>5
  <2>2. chain[2 * k - 1] = k
    BY <1>1, <1>2, <2>1
  <2>3. 2 * k - 1 > 1 => chain[(2 * k - 1) - 1] = Newline
    <3> SUFFICES ASSUME 2 * k - 1 > 1 PROVE chain[(2 * k - 1) - 1] = Newline
      OBVIOUS
    <3>1. (2 * k - 1) - 1 \in 1..L
      BY <1>1, <2>1
    <3> QED
      BY <1>1, <1>2, <3>1
  <2>4. 2 * k - 1 < L => chain[(2 * k - 1) + 1] = Newline
    <3> SUFFICES ASSUME 2 * k - 1 < L PROVE chain[(2 * k - 1) + 1] = Newline
      OBVIOUS
    <3>1. (2 * k - 1) + 1 \in 1..L
      BY <1>1, <2>1
    <3> QED
      BY <1>1, <1>2, <3>1
  <2>5. k \in Nat
    BY <1>1
  <2> QED
    BY <1>1, <2>1, <2>2, <2>3, <2>4, <2>5 DEF LineParses, OnOwnLine
<1> DEFINE n == IF \E o \in Operators : operator[o].pc = "built" THEN identity - 1 ELSE identity
<1>6. /\ n \in 0..identity
      /\ \A k \in 1..identity : 2 * k - 1 <= L <=> k <= n
  <2>1. CASE \E o \in Operators : operator[o].pc = "built"
    <3>1. n = identity - 1 /\ L = 2 * identity - 2
      BY <2>1 DEF Orderly
    <3>2. identity >= 1
      BY <1>1, <3>1
    <3> HIDE DEF n, L
    <3> QED
      BY <1>1, <3>1, <3>2
  <2>2. CASE ~\E o \in Operators : operator[o].pc = "built"
    <3>1. n = identity
      BY <2>2
    <3>2. L = 2 * identity - 1 \/ L = 2 * identity
      <4>1. CASE \E o \in Operators : operator[o].pc = "written"
        BY <4>1 DEF Orderly
      <4>2. CASE \A o \in Operators : operator[o].pc # "written"
        <5>1. \A o \in Operators : operator[o].pc \in {"idle", "read"}
          BY <2>2, <4>2 DEF Orderly, IdTyped, Turn
        <5> QED
          BY <5>1 DEF Orderly
      <4> QED
        BY <4>1, <4>2
    <3> HIDE DEF n, L
    <3> QED
      BY <1>1, <3>1, <3>2
  <2> QED
    BY <2>1, <2>2
<1> DEFINE g == [k \in 1..n |-> 2 * k - 1]
<1> HIDE DEF S, n, L
<1>7. /\ g \in [1..n -> S] /\ \A k, l \in 1..n : k < l => g[k] < g[l]
      /\ \A i \in S : \E k \in 1..n : g[k] = i
  <2>1. \A k \in 1..n : k \in 1..identity /\ g[k] = 2 * k - 1 /\ 2 * k - 1 \in S
    BY <1>1, <1>5, <1>6
  <2>2. \A i \in S : \E k \in 1..n : i = 2 * k - 1
    <3> SUFFICES ASSUME NEW i \in S PROVE \E k \in 1..n : i = 2 * k - 1
      OBVIOUS
    <3>1. PICK k \in 1..identity : i = 2 * k - 1
      BY <1>4
    <3>2. i \in 1..L
      BY <1>3 DEF L
    <3>3. 2 * k - 1 <= L
      BY <1>1, <3>1, <3>2
    <3>4. k <= n
      BY <1>6, <3>3
    <3>5. k \in 1..n
      BY <1>6, <3>4
    <3> QED
      BY <3>1, <3>5
  <2>3. \A k, l \in 1..n : k < l => 2 * k - 1 < 2 * l - 1
    BY <1>1, <1>6
  <2> QED
    BY <2>1, <2>2, <2>3
<1>8. n = N /\ g = f
  <2>1. Len(chain) \in Nat /\ n \in Nat
    BY <1>1, <1>6 DEF L
  <2> HIDE DEF g
  <2> QED
    BY <1>3, <1>7, <2>1, UpwardsUnique
<1>9. ReadChain = [k \in 1..n |-> chain[2 * k - 1]]
  <2>1. ReadChain = [k \in 1..N |-> chain[f[k]]]
    BY DEF ReadChain, Picked, S
  <2>2. ReadChain = [k \in 1..n |-> chain[g[k]]]
    BY <1>8, <2>1
  <2> QED
    BY <2>2
<1>10. \A k \in 1..n : chain[2 * k - 1] = k
  BY <1>1, <1>4, <1>5, <1>6
<1>11. ReadChain \in Seq(Nat) /\ Len(ReadChain) = n
  <2>1. ReadChain \in [1..n -> Nat] /\ n \in Nat
    <3>1. \A k \in 1..n : k \in Nat
      BY <1>6
    <3>2. \A k \in 1..n : chain[2 * k - 1] \in Nat
      BY <1>10, <3>1
    <3> QED
      BY <1>6, <1>9, <3>2
  <2> QED
    BY <2>1
<1>12. \A k \in 1..n : ReadChain[k] = k
  BY <1>9, <1>10
<1> QED
  BY <1>6, <1>11, <1>12 DEF L

LEMMA IdHolds == IdKnown => IdTypeOK /\ ChainIsHistory
<1> SUFFICES ASSUME IdKnown PROVE IdTypeOK /\ ChainIsHistory
  OBVIOUS
<1> DEFINE S == {i \in DOMAIN chain : LineParses(chain, i)}
           N == Cardinality(S)
           f == Upwards(S)
           read == ReadChain
<1>1. /\ IdTyped /\ EachOnce /\ identity \in Nat /\ chain \in Seq(Pieces)
      /\ DOMAIN chain = 1..Len(chain) /\ Len(transition) = identity
      /\ DOMAIN transition = 1..identity /\ kept \in Seq(Nat) /\ DOMAIN kept = 1..Len(kept)
      /\ identity <= MaxTransitions
  BY DEF IdKnown, IdTyped
<1>2. IdTypeOK
  <2>1. ToSet(chain) \subseteq (DOMAIN transition) \union {Newline, Torn}
    <3>1. \A i \in 1..Len(chain) : chain[i] \in Pieces
      BY <1>1
    <3>2. \A i \in 1..Len(chain) : chain[i] \in 1..identity \/ chain[i] \in {Newline, Torn}
      BY <1>1, <3>1 DEF IdTyped, Pieces
    <3> QED
      BY <1>1, <3>2 DEF ToSet
  <2>2. ToSet(kept) \subseteq DOMAIN transition
    BY <1>1 DEF ToSet, IdTyped
  <2>3. \A o \in Operators : operator[o].pc \in {"idle", "read", "built", "written", "failed"}
    BY <1>1 DEF IdTyped, Turn
  <2>4. identity \in 0..MaxTransitions /\ Len(transition) <= MaxTransitions
    BY <1>1, IdAssumption
  <2>5. failures \in 0..MaxFailures /\ repeated \subseteq DOMAIN transition /\ inTurn \in BOOLEAN
    BY <1>1 DEF IdTyped
  <2> QED
    BY <2>1, <2>2, <2>3, <2>4, <2>5 DEF IdTypeOK
<1>3. S \in SUBSET (1..Len(chain)) /\ \A i \in S : chain[i] \in 1..identity /\ chain[i] \in Nat
  BY <1>1 DEF IdTyped, LineParses
<1>4. read = Picked(chain, S)
  BY DEF ReadChain
<1> HIDE DEF S, read
<1>5. /\ read \in Seq(Pieces) /\ Len(read) = N /\ f \in [1..N -> S] /\ N \in Nat
      /\ \A k \in 1..N : read[k] = chain[f[k]]
      /\ \A k, l \in 1..N : k < l <=> f[k] < f[l]
  BY <1>1, <1>3, <1>4, PickedFacts
<1>6. DOMAIN read = 1..N
  BY <1>5
<1> HIDE DEF N, f
<1>7. ToSet(read) \subseteq DOMAIN transition
  BY <1>1, <1>3, <1>5, <1>6 DEF ToSet
<1>8. ASSUME NEW i \in DOMAIN read, NEW j \in DOMAIN read, read[i] = read[j], i # j
      PROVE  read[i] \in repeated
  <2>1. i \in 1..N /\ j \in 1..N /\ (i < j \/ j < i)
    BY <1>5, <1>6, <1>8
  <2>2. f[i] \in 1..Len(chain) /\ f[j] \in 1..Len(chain) /\ f[i] # f[j] /\ f[i] \in S
    <3>1. f[i] \in S /\ f[j] \in S
      BY <1>5, <2>1
    <3>2. f[i] < f[j] \/ f[j] < f[i]
      BY <1>5, <2>1
    <3>3. f[i] \in 1..Len(chain) /\ f[j] \in 1..Len(chain)
      BY <1>3, <3>1
    <3> QED
      BY <3>1, <3>2, <3>3
  <2>3. chain[f[i]] = chain[f[j]] /\ chain[f[i]] \in Nat
    BY <1>3, <1>5, <1>8, <2>1, <2>2
  <2> QED
    BY <1>1, <1>5, <2>1, <2>2, <2>3 DEF EachOnce
<1>9. ASSUME failures = 0, inTurn
      PROVE  /\ ToSet(kept) \subseteq ToSet(read)
             /\ \A i \in DOMAIN read :
                  transition[read[i]].from = IF i = 1 THEN 0 ELSE transition[read[i - 1]].to
             /\ (\A o \in Operators : operator[o].pc = "idle") /\ identity > 0 =>
                  read # <<>> /\ transition[Last(read)].to = identity
  <2>1. Orderly
    BY <1>9 DEF IdKnown
  <2>2. /\ N \in 0..identity /\ \A k \in 1..N : read[k] = k
        /\ \A k \in 1..identity : 2 * k - 1 <= Len(chain) => k <= N
    BY <1>1, <1>5, <2>1, ReadInOrder DEF read
  <2>3. \A k \in 1..identity : transition[k].from = k - 1 /\ transition[k].to = k
    BY <2>1 DEF Orderly
  <2>4. ToSet(kept) \subseteq ToSet(read)
    <3> SUFFICES ASSUME NEW i \in 1..Len(kept) PROVE kept[i] \in ToSet(read)
      BY <1>1 DEF ToSet
    <3>1. kept[i] \in 1..identity /\ 2 * kept[i] <= Len(chain) /\ Len(chain) \in Nat
      <4>1. kept[i] \in 1..identity
        BY <1>1 DEF IdTyped
      <4>2. 2 * kept[i] <= Len(chain)
        BY <2>1 DEF Orderly
      <4> QED
        BY <1>1, <4>1, <4>2
    <3>2. kept[i] \in 1..N
      BY <1>1, <2>2, <3>1
    <3> QED
      BY <1>6, <2>2, <3>2 DEF ToSet
  <2>5. ASSUME NEW i \in 1..N
        PROVE  transition[read[i]].from = IF i = 1 THEN 0 ELSE transition[read[i - 1]].to
    <3>1. read[i] = i /\ i \in 1..identity /\ transition[i].from = i - 1
      BY <1>1, <2>2, <2>3
    <3>2. CASE i = 1
      BY <3>1, <3>2
    <3>3. CASE i # 1
      <4>1. i - 1 \in 1..N /\ i - 1 \in 1..identity
        BY <1>1, <2>2, <3>3
      <4> QED
        BY <2>2, <2>3, <3>1, <3>3, <4>1
    <3> QED
      BY <3>2, <3>3
  <2>6. ASSUME \A o \in Operators : operator[o].pc = "idle", identity > 0
        PROVE  read # <<>> /\ transition[Last(read)].to = identity
    <3>1. Len(chain) = 2 * identity
      BY <2>1, <2>6 DEF Orderly
    <3>2. identity \in 1..identity /\ N = identity
      BY <1>1, <2>2, <2>6, <3>1
    <3>3. read # <<>>
      BY <1>5, <3>2
    <3>4. Last(read) = identity
      BY <1>5, <2>2, <3>2 DEF Last
    <3> QED
      BY <2>3, <3>2, <3>3, <3>4
  <2> QED
    BY <1>6, <2>4, <2>5, <2>6
<1>10. ChainIsHistory
  BY <1>7, <1>8, <1>9 DEF ChainIsHistory, read
<1> QED
  BY <1>2, <1>10

(* However the appends of any number of operators overlap, fail and are    *)
(* run again, what is read was built, and twice only if it was written     *)
(* again; and without failures and overlaps it is the linked history.      *)
THEOREM ChainIsHistoryCorrect == IdSpec => []ChainIsHistory
<1> QED
  BY IdStart, IdStep, IdHolds, PTL DEF IdSpec

(* The file holds transitions that were built, half lines and newlines.    *)
THEOREM IdTypeCorrect == IdSpec => []IdTypeOK
<1> QED
  BY IdStart, IdStep, IdHolds, PTL DEF IdSpec

-----------------------------------------------------------------------------
(* Resumption.                                                             *)

(* An item has no event, or a status and two times.                        *)
Tasks == [status : Statuses, created_at : 0..LastSecond, updated_at : 0..LastSecond]

LEMMA BriefTyped ==
  ASSUME BriefTypeOK
  PROVE  /\ second \in 0..LastSecond /\ items \in [TaskIds -> Tasks \union {NotYet}]
         /\ \A i \in Known : i \in TaskIds /\ items[i].status \in Statuses
                               /\ items[i].created_at \in 0..LastSecond
                               /\ items[i].updated_at \in 0..LastSecond
<1>1. second \in 0..LastSecond /\ items \in [TaskIds -> Tasks \union {NotYet}]
  BY DEF BriefTypeOK, Tasks
<1>2. \A i \in Known : i \in TaskIds /\ items[i] \in Tasks
  BY <1>1 DEF Known
<1>3. \A t \in Tasks : /\ t.status \in Statuses /\ t.created_at \in 0..LastSecond
                       /\ t.updated_at \in 0..LastSecond
  BY DEF Tasks
<1> QED
  BY <1>1, <1>2, <1>3

LEMMA BriefStart == BriefInit => BriefTypeOK
BY BriefAssumption DEF BriefInit, BriefTypeOK

LEMMA BriefStep == BriefTypeOK /\ [BriefNext]_briefVars => BriefTypeOK'
<1> SUFFICES ASSUME BriefTypeOK, [BriefNext]_briefVars PROVE BriefTypeOK'
  OBVIOUS
<1>1. CASE NextSecond
  <2>1. second \in 0..LastSecond /\ second < LastSecond /\ second' = second + 1 /\ items' = items
    BY <1>1 DEF NextSecond, BriefTypeOK
  <2>2. second' \in 0..LastSecond
    BY <2>1, BriefAssumption
  <2> QED
    BY <2>1, <2>2 DEF BriefTypeOK
<1>2. ASSUME NEW i \in TaskIds, NEW status \in Statuses, Record(i, status) PROVE BriefTypeOK'
  <2> DEFINE old == IF items[i] = NotYet THEN second ELSE items[i].created_at
             new == [status |-> status, updated_at |-> second, created_at |-> old]
  <2>1. items' = [items EXCEPT ![i] = new] /\ second' = second
    BY <1>2 DEF Record
  <2>2. /\ second \in 0..LastSecond /\ items \in [TaskIds -> Tasks \union {NotYet}]
        /\ i \in Known => items[i].created_at \in 0..LastSecond
    BY BriefTyped
  <2>3. old \in 0..LastSecond
    BY <2>2 DEF Known
  <2> HIDE DEF old
  <2>4. new \in Tasks
    BY <2>2, <2>3 DEF Tasks
  <2> HIDE DEF new
  <2>5. items' \in [TaskIds -> Tasks \union {NotYet}]
    BY <2>1, <2>2, <2>4
  <2> QED
    BY <2>1, <2>2, <2>5 DEF BriefTypeOK, Tasks
<1>3. CASE UNCHANGED briefVars
  BY <1>3 DEF briefVars, BriefTypeOK
<1> QED
  BY <1>1, <1>2, <1>3 DEF BriefNext

(* A sorted list has every element of the set once, in the order of the    *)
(* key.                                                                    *)
LEMMA SortedFacts ==
  ASSUME NEW S \in SUBSET TaskIds, NEW key, \A i \in S : key[i] \in Nat
  PROVE  /\ SortedBy(S, key) \in Seq(S) /\ Len(SortedBy(S, key)) = Cardinality(S)
         /\ Cardinality(S) \in Nat /\ IsFiniteSet(S)
         /\ \A i \in S : \E k \in 1..Cardinality(S) : SortedBy(S, key)[k] = i
         /\ \A k, l \in 1..Cardinality(S) :
              SortedBy(S, key)[k] = SortedBy(S, key)[l] => k = l
         /\ \A k, l \in 1..Cardinality(S) :
              k < l => key[SortedBy(S, key)[k]] <= key[SortedBy(S, key)[l]]
<1> DEFINE R == {p \in S \X S : \/ key[p[1]] < key[p[2]]
                                \/ key[p[1]] = key[p[2]] /\ p[1] < p[2]}
           q == Listed(S, R)
           N == Cardinality(S)
<1>1. IsFiniteSet(S) /\ N \in Nat
  BY BriefAssumption, FS_Subset, FS_CardinalityType
<1>2. \A i \in S : i \in Nat
  BY BriefAssumption
<1>3. \A i, j \in S : <<i, j>> \in R <=> (key[i] < key[j] \/ (key[i] = key[j] /\ i < j))
  OBVIOUS
<1>4. SortedBy(S, key) = q
  BY DEF SortedBy
<1> HIDE DEF R
<1>5. Orders(S, R)
  <2>1. \A i \in S : ~(<<i, i>> \in R)
    BY <1>2, <1>3
  <2>2. \A i, j \in S : i # j => <<i, j>> \in R \/ <<j, i>> \in R
    BY <1>2, <1>3
  <2>3. \A i, j, k \in S : <<i, j>> \in R /\ <<j, k>> \in R => <<i, k>> \in R
    BY <1>2, <1>3
  <2> QED
    BY <2>1, <2>2, <2>3 DEF Orders
<1>6. /\ q \in [1..N -> S]
      /\ \A i \in S : \E k \in 1..N : q[k] = i
      /\ \A k, l \in 1..N : k < l <=> <<q[k], q[l]>> \in R
  BY <1>1, <1>5, ListedFacts
<1> HIDE DEF q, N
<1>7. q \in Seq(S) /\ Len(q) = N
  BY <1>1, <1>6
<1>8. \A k, l \in 1..N : k < l => key[q[k]] <= key[q[l]]
  <2> SUFFICES ASSUME NEW k \in 1..N, NEW l \in 1..N, k < l PROVE key[q[k]] <= key[q[l]]
    OBVIOUS
  <2>1. q[k] \in S /\ q[l] \in S /\ <<q[k], q[l]>> \in R
    BY <1>6
  <2>2. key[q[k]] < key[q[l]] \/ key[q[k]] = key[q[l]]
    BY <1>3, <2>1
  <2>3. key[q[k]] \in Nat /\ key[q[l]] \in Nat
    BY <2>1
  <2> QED
    BY <2>2, <2>3
<1>9. \A k, l \in 1..N : q[k] = q[l] => k = l
  <2> SUFFICES ASSUME NEW k \in 1..N, NEW l \in 1..N, q[k] = q[l] PROVE k = l
    OBVIOUS
  <2>1. q[k] \in S
    BY <1>6
  <2>2. ~(<<q[k], q[k]>> \in R)
    BY <1>2, <1>3, <2>1
  <2>3. ~(k < l) /\ ~(l < k)
    BY <1>6, <2>2
  <2> QED
    BY <1>1, <2>3
<1> QED
  BY <1>1, <1>4, <1>6, <1>7, <1>8, <1>9 DEF N

(* A sequence lists items of a set, each at most once.                     *)
Lists(q, S) ==
  /\ q \in Seq(TaskIds) /\ \A k \in 1..Len(q) : q[k] \in S
  /\ \A k, l \in 1..Len(q) : q[k] = q[l] => k = l

LEMMA ListsBoth ==
  ASSUME NEW p, NEW q, NEW A, NEW B, Lists(p, A), Lists(q, B), \A i \in A : i \notin B
  PROVE  /\ Lists(p \o q, A \union B) /\ Len(p \o q) = Len(p) + Len(q)
         /\ ToSet(p \o q) = ToSet(p) \union ToSet(q)
<1> DEFINE r == p \o q  m == Len(p)  n == Len(q)
<1>1. /\ p \in Seq(TaskIds) /\ q \in Seq(TaskIds) /\ m \in Nat /\ n \in Nat
      /\ DOMAIN p = 1..m /\ DOMAIN q = 1..n
  BY DEF Lists
<1>2. r \in Seq(TaskIds) /\ Len(r) = m + n /\ DOMAIN r = 1..m + n
  BY <1>1
<1>3. /\ \A k \in 1..m : r[k] = p[k]
      /\ \A k \in 1..m + n : ~(k <= m) => r[k] = q[k - m]
      /\ \A k \in 1..n : r[m + k] = q[k]
  BY <1>1, ConcatFacts
<1> HIDE DEF r, m, n
<1>4. \A k \in 1..m + n : (k <= m => k \in 1..m) /\ (~(k <= m) => k - m \in 1..n)
  BY <1>1
<1>5. (\A k \in 1..m : p[k] \in A) /\ \A k \in 1..n : q[k] \in B
  BY DEF Lists, m, n
<1>6. \A k \in 1..m + n : r[k] \in A \union B
  BY <1>3, <1>4, <1>5
<1>7. ASSUME NEW k \in 1..m + n, NEW l \in 1..m + n, r[k] = r[l] PROVE k = l
  <2>1. CASE k <= m /\ l <= m
    BY <1>3, <1>4, <1>7, <2>1 DEF Lists, m
  <2>2. CASE ~(k <= m) /\ ~(l <= m)
    <3>1. k - m = l - m
      BY <1>3, <1>4, <1>7, <2>2 DEF Lists, n
    <3> QED
      BY <1>1, <3>1
  <2>3. CASE k <= m /\ ~(l <= m)
    BY <1>3, <1>4, <1>5, <1>7, <2>3
  <2>4. CASE ~(k <= m) /\ l <= m
    BY <1>3, <1>4, <1>5, <1>7, <2>4
  <2> QED
    BY <2>1, <2>2, <2>3, <2>4
<1>8. Lists(r, A \union B)
  BY <1>2, <1>6, <1>7 DEF Lists
<1>9. \A k \in 1..m : k \in 1..m + n
  BY <1>1
<1>10. \A k \in 1..n : m + k \in 1..m + n
  BY <1>1
<1>11. ToSet(r) = ToSet(p) \union ToSet(q)
  <2>1. ToSet(r) \subseteq ToSet(p) \union ToSet(q)
    BY <1>1, <1>2, <1>3, <1>4 DEF ToSet
  <2>2. ToSet(p) \subseteq ToSet(r)
    BY <1>1, <1>2, <1>3, <1>9 DEF ToSet
  <2>3. ToSet(q) \subseteq ToSet(r)
    <3> SUFFICES ASSUME NEW k \in 1..n PROVE q[k] \in ToSet(r)
      BY <1>1 DEF ToSet
    <3>1. m + k \in 1..m + n /\ r[m + k] = q[k]
      BY <1>3, <1>10
    <3> QED
      BY <1>2, <3>1 DEF ToSet
  <2> QED
    BY <2>1, <2>2, <2>3
<1> QED
  BY <1>2, <1>8, <1>11 DEF r, m, n

(* A capped list is the start of the sorted one.                           *)
LEMMA CappedFacts ==
  ASSUME NEW S \in SUBSET TaskIds, NEW key, \A i \in S : key[i] \in Nat
  PROVE  /\ Lists(Capped(SortedBy(S, key)), S) /\ Len(Capped(SortedBy(S, key))) \in Nat
         /\ \A i \in S \ ToSet(Capped(SortedBy(S, key))), j \in ToSet(Capped(SortedBy(S, key))) :
              j \in S /\ key[j] <= key[i]
<1> DEFINE q == SortedBy(S, key)  N == Cardinality(S)  c == Capped(q)
           m == IF Len(q) < Cap THEN Len(q) ELSE Cap
<1>1. /\ q \in Seq(S) /\ Len(q) = N /\ N \in Nat
      /\ \A i \in S : \E k \in 1..N : q[k] = i
      /\ \A k, l \in 1..N : q[k] = q[l] => k = l
      /\ \A k, l \in 1..N : k < l => key[q[k]] <= key[q[l]]
  BY SortedFacts
<1> HIDE DEF q, N
<1>2. m \in 0..N
  BY <1>1, BriefAssumption
<1>3. c = SubSeq(q, 1, m)
  BY DEF Capped
<1> HIDE DEF c, m
<1>4. c \in Seq(S) /\ Len(c) = m /\ \A k \in 1..m : c[k] = q[k]
  BY <1>1, <1>2, <1>3
<1>5. c \in Seq(TaskIds) /\ DOMAIN c = 1..m /\ \A k \in 1..m : k \in 1..N
  BY <1>1, <1>2, <1>4
<1>6. Lists(c, S)
  BY <1>1, <1>4, <1>5 DEF Lists
<1>7. ASSUME NEW i \in S \ ToSet(c), NEW j \in ToSet(c) PROVE j \in S /\ key[j] <= key[i]
  <2>1. PICK l \in 1..m : c[l] = j
    BY <1>5 DEF ToSet
  <2>2. PICK k \in 1..N : q[k] = i
    BY <1>1
  <2>3. k \notin 1..m
    BY <1>4, <1>5, <2>2 DEF ToSet
  <2>4. l < k /\ l \in 1..N
    BY <1>2, <1>5, <2>3
  <2> QED
    BY <1>1, <1>4, <2>1, <2>2, <2>4
<1> QED
  BY <1>2, <1>4, <1>6, <1>7 DEF c, q

(* The items by status: every known one has one status.                    *)
LEMMA StatusFacts ==
  ASSUME BriefTypeOK
  PROVE  /\ Known \in SUBSET TaskIds /\ IsFiniteSet(Known)
         /\ \A s \in Statuses : WithStatus(s) \in SUBSET TaskIds
         /\ \A s, t \in Statuses : s # t => \A i \in WithStatus(s) : i \notin WithStatus(t)
         /\ Known = ((((WithStatus("completed") \union WithStatus("pending"))
                         \union WithStatus("in-progress")) \union WithStatus("blocked"))
                         \union WithStatus("cancelled"))
<1>1. Known \in SUBSET TaskIds
  BY DEF Known
<1>2. IsFiniteSet(Known)
  BY <1>1, BriefAssumption, FS_Subset
<1>3. \A s : WithStatus(s) \subseteq Known
  BY DEF WithStatus
<1>4. \A s, t : s # t => \A i \in WithStatus(s) : i \notin WithStatus(t)
  BY DEF WithStatus
<1>5. ASSUME NEW i \in Known
      PROVE  \/ i \in WithStatus("completed") \/ i \in WithStatus("pending")
             \/ i \in WithStatus("in-progress") \/ i \in WithStatus("blocked")
             \/ i \in WithStatus("cancelled")
  BY BriefTyped DEF WithStatus, Statuses
<1> QED
  BY <1>1, <1>2, <1>3, <1>4, <1>5

LEMMA CountsAddUp ==
  ASSUME BriefTypeOK
  PROVE  /\ \A s \in Statuses : Cardinality(WithStatus(s)) \in Nat
         /\ Cardinality(Known) =
              (((Cardinality(WithStatus("completed")) + Cardinality(WithStatus("pending")))
                 + Cardinality(WithStatus("in-progress"))) + Cardinality(WithStatus("blocked")))
                 + Cardinality(WithStatus("cancelled"))
<1> DEFINE C == WithStatus("completed")  P == WithStatus("pending")
           I == WithStatus("in-progress")  B == WithStatus("blocked")  X == WithStatus("cancelled")
<1>1. IsFiniteSet(Known) /\ Known = (((C \union P) \union I) \union B) \union X
  BY StatusFacts
<1>2. /\ \A i \in C : i \notin P /\ i \notin I /\ i \notin B /\ i \notin X
      /\ \A i \in P : i \notin I /\ i \notin B /\ i \notin X
      /\ \A i \in I : i \notin B /\ i \notin X
      /\ \A i \in B : i \notin X
  BY StatusFacts DEF Statuses
<1> HIDE DEF C, P, I, B, X
<1>3. /\ IsFiniteSet(((C \union P) \union I) \union B) /\ Cardinality(X) \in Nat
      /\ Cardinality(((C \union P) \union I) \union B) \in Nat
      /\ Cardinality(Known) = Cardinality(((C \union P) \union I) \union B) + Cardinality(X)
  <2>1. \A i \in ((C \union P) \union I) \union B : i \notin X
    BY <1>2
  <2> QED
    BY <1>1, <2>1, SplitInTwo
<1>4. /\ IsFiniteSet((C \union P) \union I) /\ Cardinality(B) \in Nat
      /\ Cardinality((C \union P) \union I) \in Nat
      /\ Cardinality(((C \union P) \union I) \union B) =
           Cardinality((C \union P) \union I) + Cardinality(B)
  <2>1. \A i \in (C \union P) \union I : i \notin B
    BY <1>2
  <2> QED
    BY <1>3, <2>1, SplitInTwo
<1>5. /\ IsFiniteSet(C \union P) /\ Cardinality(I) \in Nat /\ Cardinality(C \union P) \in Nat
      /\ Cardinality((C \union P) \union I) = Cardinality(C \union P) + Cardinality(I)
  <2>1. \A i \in C \union P : i \notin I
    BY <1>2
  <2> QED
    BY <1>4, <2>1, SplitInTwo
<1>6. /\ Cardinality(C) \in Nat /\ Cardinality(P) \in Nat
      /\ Cardinality(C \union P) = Cardinality(C) + Cardinality(P)
  BY <1>2, <1>5, SplitInTwo
<1>7. \A s \in Statuses : Cardinality(WithStatus(s)) \in Nat
  BY <1>3, <1>4, <1>5, <1>6 DEF Statuses, C, P, I, B, X
<1>8. Cardinality(Known) =
        (((Cardinality(C) + Cardinality(P)) + Cardinality(I)) + Cardinality(B)) + Cardinality(X)
  BY <1>3, <1>4, <1>5, <1>6
<1> QED
  BY <1>7, <1>8 DEF C, P, I, B, X

LEMMA CountsFacts ==
  /\ Counts["total"] = Cardinality(Known)
  /\ \A s \in Statuses : Counts[s] = Cardinality(WithStatus(s))
<1>1. "total" \notin Statuses
  BY DEF Statuses
<1> QED
  BY <1>1 DEF Counts

LEMMA BriefHolds == BriefTypeOK => BriefIsHonest
<1> SUFFICES ASSUME BriefTypeOK PROVE BriefIsHonest
  OBVIOUS
<1> DEFINE C == WithStatus("completed")  P == WithStatus("pending")
           I == WithStatus("in-progress")  B == WithStatus("blocked")
           two == Completed \o Pending  three == two \o InProgress  shown == three \o Blocked
<1>1. C \in SUBSET TaskIds /\ P \in SUBSET TaskIds /\ I \in SUBSET TaskIds /\ B \in SUBSET TaskIds
  BY StatusFacts DEF Statuses
<1>2. /\ \A i \in C : i \notin P /\ i \notin I /\ i \notin B
      /\ \A i \in P : i \notin I /\ i \notin B
      /\ \A i \in I : i \notin B
  BY StatusFacts DEF Statuses
<1>3. /\ Lists(Completed, C) /\ Len(Completed) \in Nat
      /\ \A i \in C \ ToSet(Completed), j \in ToSet(Completed) :
           items[i].updated_at <= items[j].updated_at
  <2>1. \A i \in C : i \in Known /\ Recency[i] = LastSecond - items[i].updated_at
    BY DEF WithStatus, Recency
  <2>2. \A i \in C : /\ items[i].updated_at \in 0..LastSecond
                     /\ Recency[i] = LastSecond - items[i].updated_at
    BY <2>1, BriefTyped
  <2>3. \A i \in C : Recency[i] \in Nat
    BY <2>2, BriefAssumption
  <2>4. /\ Lists(Completed, C) /\ Len(Completed) \in Nat
        /\ \A i \in C \ ToSet(Completed), j \in ToSet(Completed) :
             j \in C /\ Recency[j] <= Recency[i]
    BY <1>1, <2>3, CappedFacts DEF Completed
  <2>5. ASSUME NEW i \in C \ ToSet(Completed), NEW j \in ToSet(Completed)
        PROVE  items[i].updated_at <= items[j].updated_at
    <3>1. j \in C /\ i \in C /\ Recency[j] <= Recency[i]
      BY <2>4
    <3>2. LastSecond - items[j].updated_at <= LastSecond - items[i].updated_at
      BY <2>2, <3>1
    <3>3. items[i].updated_at \in Nat /\ items[j].updated_at \in Nat
      BY <2>2, <3>1
    <3> QED
      BY <3>2, <3>3, BriefAssumption
  <2> QED
    BY <2>4, <2>5
<1>4. /\ Lists(Pending, P) /\ Len(Pending) \in Nat
      /\ \A i \in P \ ToSet(Pending), j \in ToSet(Pending) :
           items[i].created_at >= items[j].created_at
  <2>1. \A i \in P : i \in Known /\ Creation[i] = items[i].created_at
    BY DEF WithStatus, Creation
  <2>2. \A i \in P : Creation[i] \in Nat /\ Creation[i] = items[i].created_at
    BY <2>1, BriefTyped
  <2>3. /\ Lists(Pending, P) /\ Len(Pending) \in Nat
        /\ \A i \in P \ ToSet(Pending), j \in ToSet(Pending) :
             j \in P /\ Creation[j] <= Creation[i]
    BY <1>1, <2>2, CappedFacts DEF Pending
  <2>4. ASSUME NEW i \in P \ ToSet(Pending), NEW j \in ToSet(Pending)
        PROVE  items[i].created_at >= items[j].created_at
    <3>1. j \in P /\ i \in P /\ Creation[j] <= Creation[i]
      BY <2>3
    <3> QED
      BY <2>2, <3>1
  <2> QED
    BY <2>3, <2>4
<1>5. ASSUME NEW S \in SUBSET TaskIds
      PROVE  Lists(ById(S), S) /\ ToSet(ById(S)) = S /\ Len(ById(S)) = Cardinality(S)
  <2> DEFINE key == [i \in S |-> 0]
  <2>1. ById(S) = SortedBy(S, key) /\ \A i \in S : key[i] \in Nat
    BY DEF ById
  <2> HIDE DEF key
  <2>2. /\ ById(S) \in Seq(S) /\ Len(ById(S)) = Cardinality(S) /\ Cardinality(S) \in Nat
        /\ \A i \in S : \E k \in 1..Cardinality(S) : ById(S)[k] = i
        /\ \A k, l \in 1..Cardinality(S) : ById(S)[k] = ById(S)[l] => k = l
    BY <2>1, SortedFacts
  <2>3. DOMAIN ById(S) = 1..Cardinality(S) /\ ById(S) \in Seq(TaskIds)
        /\ \A k \in 1..Cardinality(S) : ById(S)[k] \in S
    BY <2>2
  <2>4. ToSet(ById(S)) = S
    BY <2>2, <2>3 DEF ToSet
  <2> QED
    BY <2>2, <2>3, <2>4 DEF Lists
<1>6. /\ Lists(InProgress, I) /\ ToSet(InProgress) = I /\ Len(InProgress) = Cardinality(I)
      /\ Lists(Blocked, B) /\ ToSet(Blocked) = B /\ Len(Blocked) = Cardinality(B)
  BY <1>1, <1>5 DEF InProgress, Blocked
<1> HIDE DEF C, P, I, B, two, three, shown
<1>7. /\ Lists(two, C \union P) /\ Len(two) = Len(Completed) + Len(Pending)
  BY <1>2, <1>3, <1>4, ListsBoth DEF two
<1>8. /\ Lists(three, (C \union P) \union I) /\ Len(three) = Len(two) + Len(InProgress)
      /\ ToSet(three) = ToSet(two) \union ToSet(InProgress)
  <2>1. \A i \in C \union P : i \notin I
    BY <1>2
  <2> QED
    BY <1>6, <1>7, <2>1, ListsBoth DEF three
<1>9. /\ Lists(shown, ((C \union P) \union I) \union B) /\ Len(shown) = Len(three) + Len(Blocked)
      /\ ToSet(shown) = ToSet(three) \union ToSet(Blocked)
  <2>1. \A i \in (C \union P) \union I : i \notin B
    BY <1>2
  <2> QED
    BY <1>6, <1>8, <2>1, ListsBoth DEF shown
<1>10. IsInjective(shown)
  <2>1. DOMAIN shown = 1..Len(shown)
    BY <1>9 DEF Lists
  <2> QED
    BY <1>9, <2>1 DEF Lists, IsInjective
<1>11. I \union B \subseteq ToSet(shown)
  BY <1>6, <1>8, <1>9
<1>12. Counts["total"] - Counts["cancelled"] - Len(shown) =
         (Counts["completed"] - Len(Completed)) + (Counts["pending"] - Len(Pending))
  <2>1. /\ Counts["total"] = Cardinality(Known)
        /\ Counts["cancelled"] = Cardinality(WithStatus("cancelled"))
        /\ Counts["completed"] = Cardinality(C) /\ Counts["pending"] = Cardinality(P)
    BY CountsFacts DEF Statuses, C, P
  <2>2. /\ Cardinality(C) \in Nat /\ Cardinality(P) \in Nat /\ Cardinality(I) \in Nat
        /\ Cardinality(B) \in Nat /\ Cardinality(WithStatus("cancelled")) \in Nat
        /\ Cardinality(Known) =
             (((Cardinality(C) + Cardinality(P)) + Cardinality(I)) + Cardinality(B))
               + Cardinality(WithStatus("cancelled"))
    BY CountsAddUp DEF Statuses, C, P, I, B
  <2>3. Len(shown) = ((Len(Completed) + Len(Pending)) + Cardinality(I)) + Cardinality(B)
    BY <1>6, <1>7, <1>8, <1>9
  <2> QED
    BY <1>3, <1>4, <2>1, <2>2, <2>3
<1>13. shown = Completed \o Pending \o InProgress \o Blocked
  BY DEF shown, three, two
<1> QED
  BY <1>3, <1>4, <1>10, <1>11, <1>12, <1>13 DEF BriefIsHonest, C, P, I, B

(* Nothing that needs attention is left out of the brief, nothing is in it *)
(* twice, the caps leave out the older work that is done and the newer     *)
(* that waits, and the counts tell of it, for any number of items.         *)
THEOREM BriefIsHonestCorrect == BriefSpec => []BriefIsHonest
<1> QED
  BY BriefStart, BriefStep, BriefHolds, PTL DEF BriefSpec

(* An item has no event, or a status and the seconds of its two times.     *)
THEOREM BriefTypeCorrect == BriefSpec => []BriefTypeOK
<1> QED
  BY BriefStart, BriefStep, PTL DEF BriefSpec

-----------------------------------------------------------------------------
(* PhaseRunner.                                                            *)

(* The findings of one phase among those of a run.                         *)
Of(found, p) == Picked(found, {i \in DOMAIN found : found[i].phase = p})

LEMMA OfConcat ==
  ASSUME NEW a \in Seq(Finding), NEW b \in Seq(Finding), NEW p
  PROVE  Of(a \o b, p) = Of(a, p) \o Of(b, p)
<1> DEFINE S == {i \in DOMAIN a : a[i].phase = p}  T == {i \in DOMAIN b : b[i].phase = p}
           c == a \o b  U == {i \in DOMAIN c : c[i].phase = p}  m == Len(a)  n == Len(b)
<1>1. /\ m \in Nat /\ n \in Nat /\ DOMAIN a = 1..m /\ DOMAIN b = 1..n
      /\ c \in Seq(Finding) /\ Len(c) = m + n /\ DOMAIN c = 1..m + n
      /\ \A k \in 1..m : c[k] = a[k]
      /\ \A k \in 1..n : c[m + k] = b[k]
  BY ConcatFacts
<1> HIDE DEF c
<1>2. S \in SUBSET (1..m) /\ T \in SUBSET (1..n) /\ U \in SUBSET (1..m + n)
  BY <1>1
<1>3. \A i \in 1..m : i \in 1..m + n
  BY <1>1
<1>4. \A i \in 1..n : m + i \in 1..m + n
  BY <1>1
<1>5. \A i \in 1..m : i \in U <=> i \in S
  BY <1>1, <1>3
<1>6. \A i \in 1..n : m + i \in U <=> i \in T
  BY <1>1, <1>4
<1>7. Splits(m, n, S, T, U)
  BY <1>2, <1>5, <1>6 DEF Splits
<1> HIDE DEF S, T, U
<1>8. Picked(a \o b, U) = Picked(a, S) \o Picked(b, T)
  BY <1>7, PickedConcat
<1> QED
  BY <1>8 DEF Of, S, T, U, c

LEMMA OfOwn ==
  ASSUME NEW b \in Seq(Finding), NEW q, \A i \in DOMAIN b : b[i].phase = q
  PROVE  /\ Of(b, q) = b
         /\ \A p : p # q => Of(b, p) = <<>>
<1>1. {i \in DOMAIN b : b[i].phase = q} = 1..Len(b)
  OBVIOUS
<1>2. ASSUME NEW p, p # q PROVE {i \in DOMAIN b : b[i].phase = p} = {}
  BY <1>2
<1>3. Of(b, q) = b
  BY <1>1, PickedAll DEF Of
<1> QED
  BY <1>2, <1>3, PickedNone DEF Of

(* The findings of a severity, counted over two lists.                     *)
LEMMA SeverityConcat ==
  ASSUME NEW a \in Seq(Finding), NEW b \in Seq(Finding), NEW s
  PROVE  /\ Cardinality(WithSeverity(a, s)) \in Nat /\ Cardinality(WithSeverity(b, s)) \in Nat
         /\ Cardinality(WithSeverity(a \o b, s)) =
              Cardinality(WithSeverity(a, s)) + Cardinality(WithSeverity(b, s))
<1> DEFINE S == WithSeverity(a, s)  T == WithSeverity(b, s)
           c == a \o b  U == WithSeverity(c, s)  m == Len(a)  n == Len(b)
<1>1. /\ m \in Nat /\ n \in Nat /\ DOMAIN a = 1..m /\ DOMAIN b = 1..n
      /\ c \in Seq(Finding) /\ Len(c) = m + n /\ DOMAIN c = 1..m + n
      /\ \A k \in 1..m : c[k] = a[k]
      /\ \A k \in 1..n : c[m + k] = b[k]
  BY ConcatFacts
<1> HIDE DEF c
<1>2. S \in SUBSET (1..m) /\ T \in SUBSET (1..n) /\ U \in SUBSET (1..m + n)
  BY <1>1 DEF WithSeverity
<1>3. \A i \in 1..m : i \in 1..m + n
  BY <1>1
<1>4. \A i \in 1..n : m + i \in 1..m + n
  BY <1>1
<1>5. \A i \in 1..m : i \in U <=> i \in S
  BY <1>1, <1>3 DEF WithSeverity
<1>6. \A i \in 1..n : m + i \in U <=> i \in T
  BY <1>1, <1>4 DEF WithSeverity
<1> HIDE DEF S, T, U
<1>12. Splits(m, n, S, T, U)
  BY <1>2, <1>5, <1>6 DEF Splits
<1>7. Picked(c, U) = Picked(a, S) \o Picked(b, T)
  BY <1>12, PickedConcat DEF c
<1>8. /\ Picked(a, S) \in Seq(Finding) /\ Len(Picked(a, S)) = Cardinality(S)
      /\ Cardinality(S) \in 0..m
  BY <1>1, <1>2, PickedFacts
<1>9. /\ Picked(b, T) \in Seq(Finding) /\ Len(Picked(b, T)) = Cardinality(T)
      /\ Cardinality(T) \in 0..n
  BY <1>1, <1>2, PickedFacts
<1>10. Len(Picked(c, U)) = Cardinality(U)
  BY <1>1, <1>2, PickedFacts
<1>11. Len(Picked(c, U)) = Cardinality(S) + Cardinality(T)
  BY <1>7, <1>8, <1>9, ConcatTyped
<1> QED
  BY <1>1, <1>8, <1>9, <1>10, <1>11 DEF S, T, U, c

(* What promotion and exemption leave of a phase's findings.               *)
LEMMA KeptFacts ==
  ASSUME NEW p \in Phases, NEW found \in Seq(Finding), \A i \in DOMAIN found : found[i].phase = p
  PROVE  /\ Kept(found) \in Seq(Finding) /\ \A i \in DOMAIN Kept(found) : Kept(found)[i].phase = p
         /\ Len(Kept(found)) = Cardinality({i \in DOMAIN found : <<p, found[i].rule>> \notin policy.exempt})
         /\ Len(Kept(found)) \in 0..Len(found)
         /\ Promoted(p) => \A i \in DOMAIN Kept(found) : Kept(found)[i].severity = "strict"
         /\ policy.exempt = {} /\ policy.promote = {} => Kept(found) = found
<1> DEFINE N == Len(found)  g == [i \in DOMAIN found |-> Promote(found[i])]
           S == {i \in DOMAIN found : ~Exempt(g[i])}
<1>1. N \in Nat /\ DOMAIN found = 1..N /\ \A i \in 1..N : found[i] \in Finding
  OBVIOUS
<1>2. ASSUME NEW i \in 1..N
      PROVE  /\ Promote(found[i]) \in Finding /\ Promote(found[i]).phase = p
             /\ Promote(found[i]).rule = found[i].rule
             /\ Promoted(p) => Promote(found[i]).severity = "strict"
             /\ ~Promoted(p) => Promote(found[i]) = found[i]
  <2>1. found[i] \in Finding /\ found[i].phase = p
    BY <1>1
  <2>2. CASE Promoted(p)
    <3>1. Promote(found[i]) = [found[i] EXCEPT !.severity = "strict"]
      BY <2>1, <2>2 DEF Promote
    <3> QED
      BY <2>1, <2>2, <3>1 DEF Finding
  <2>3. CASE ~Promoted(p)
    BY <2>1, <2>3 DEF Promote
  <2> QED
    BY <2>2, <2>3
<1>3. DOMAIN g = 1..N /\ \A i \in 1..N : g[i] = Promote(found[i])
  BY <1>1
<1> HIDE DEF g
<1>4. g \in Seq(Finding) /\ Len(g) = N
  <2>1. g = [i \in 1..N |-> Promote(found[i])]
    BY <1>1 DEF g
  <2>2. g \in [1..N -> Finding]
    BY <1>2, <2>1
  <2> QED
    BY <1>1, <2>2
<1>5. S = {i \in DOMAIN found : <<p, found[i].rule>> \notin policy.exempt}
  BY <1>1, <1>2, <1>3 DEF Exempt
<1>6. Kept(found) = Picked(g, S)
  BY DEF Kept, g
<1> HIDE DEF S
<1>7. S \in SUBSET (1..N)
  BY <1>1, <1>5
<1>8. /\ Picked(g, S) \in Seq(Finding) /\ Len(Picked(g, S)) = Cardinality(S)
      /\ Cardinality(S) \in 0..N
      /\ Upwards(S) \in [1..Cardinality(S) -> S]
      /\ \A k \in 1..Cardinality(S) : Picked(g, S)[k] = g[Upwards(S)[k]]
  BY <1>4, <1>7, PickedFacts
<1>9. DOMAIN Picked(g, S) = 1..Cardinality(S)
  BY <1>8
<1>10. ASSUME NEW k \in 1..Cardinality(S)
       PROVE  \E i \in 1..N : Picked(g, S)[k] = Promote(found[i])
  <2>1. Upwards(S)[k] \in S
    BY <1>8
  <2> QED
    BY <1>3, <1>7, <1>8, <2>1
<1>11. \A k \in 1..Cardinality(S) : /\ Picked(g, S)[k].phase = p
                                    /\ Promoted(p) => Picked(g, S)[k].severity = "strict"
  BY <1>2, <1>10
<1>12. ASSUME policy.exempt = {}, policy.promote = {} PROVE Kept(found) = found
  <2>1. ~Promoted(p)
    BY <1>12 DEF Promoted
  <2>2. g = found
    BY <1>1, <1>2, <1>3, <2>1 DEF g
  <2>3. S = 1..N
    BY <1>1, <1>5, <1>12
  <2> QED
    BY <1>6, <2>2, <2>3, PickedAll
<1> QED
  BY <1>5, <1>6, <1>8, <1>9, <1>11, <1>12

(* Where a stage is in the pipeline.                                       *)
Rank(p) == IF StageOf(p) = "parse" THEN 1 ELSE IF StageOf(p) = "render" THEN 2 ELSE 3

LEMMA RankFacts ==
  /\ \A p : Rank(p) \in 1..3
  /\ \A p : \A s \in 1..3 : StageOf(p) = StageNames[s] <=> Rank(p) = s
  /\ Rank("render") = 2
  /\ \A p : StageOf(p) = "audit" <=> Rank(p) = 3
<1>1. \A p : StageOf(p) \in {"parse", "render", "audit"}
  BY DEF StageOf
<1>2. StageNames[1] = "parse" /\ StageNames[2] = "render" /\ StageNames[3] = "audit"
  BY DEF StageNames
<1>3. StageOf("render") = "render"
  BY DEF StageOf
<1>4. \A s \in 1..3 : s = 1 \/ s = 2 \/ s = 3
  OBVIOUS
<1>5. \A p : \/ StageOf(p) = "parse" /\ Rank(p) = 1
             \/ StageOf(p) = "render" /\ Rank(p) = 2
             \/ StageOf(p) = "audit" /\ Rank(p) = 3
  BY <1>1 DEF Rank
<1>6. \A p : Rank(p) \in 1..3
  BY <1>5
<1>7. \A p : \A s \in 1..3 : StageOf(p) = StageNames[s] <=> Rank(p) = s
  BY <1>2, <1>4, <1>5
<1>8. Rank("render") = 2
  BY <1>3, <1>5
<1>9. \A p : StageOf(p) = "audit" <=> Rank(p) = 3
  BY <1>5
<1> QED
  BY <1>6, <1>7, <1>8, <1>9

(* The phases that ran and those that are left: none twice, none in both.  *)
Has(seq, p) == \E k \in 1..Len(seq) : seq[k] = p
Once(ran, left) ==
  /\ ran \in Seq(Phases) /\ left \in Seq(Phases)
  /\ \A k, l \in 1..Len(ran) : ran[k] = ran[l] => k = l
  /\ \A k, l \in 1..Len(left) : left[k] = left[l] => k = l
  /\ \A k \in 1..Len(ran), l \in 1..Len(left) : ran[k] # left[l]

LEMMA NextPhase ==
  ASSUME NEW ran, NEW left, Once(ran, left), left # <<>>
  PROVE  /\ Head(left) \in Phases /\ Head(left) = left[1] /\ 1 \in 1..Len(left)
         /\ ~Has(ran, Head(left))
         /\ Once(Append(ran, Head(left)), Tail(left))
         /\ \A p : Has(Append(ran, Head(left)), p) <=> Has(ran, p) \/ p = Head(left)
         /\ \A p : Has(left, p) <=> Has(Tail(left), p) \/ p = Head(left)
         /\ \A l \in 1..Len(Tail(left)) : \E k \in 1..Len(left) : Tail(left)[l] = left[k]
         /\ Len(Append(ran, Head(left))) = Len(ran) + 1 /\ Len(ran) \in Nat
         /\ Append(ran, Head(left))[Len(ran) + 1] = Head(left)
         /\ \A k \in 1..Len(ran) : Append(ran, Head(left))[k] = ran[k]
<1> DEFINE h == Head(left)  r == Append(ran, h)  t == Tail(left)  m == Len(ran)  n == Len(left)
<1>1. /\ ran \in Seq(Phases) /\ left \in Seq(Phases) /\ m \in Nat /\ n \in Nat
      /\ \A k, l \in 1..m : ran[k] = ran[l] => k = l
      /\ \A k, l \in 1..n : left[k] = left[l] => k = l
      /\ \A k \in 1..m, l \in 1..n : ran[k] # left[l]
  BY DEF Once
<1>2. h \in Phases /\ h = left[1] /\ 1 \in 1..n
  BY <1>1
<1>3. t \in Seq(Phases) /\ Len(t) = n - 1 /\ \A k \in 1..n - 1 : t[k] = left[k + 1]
  BY <1>1
<1>4. r \in Seq(Phases) /\ Len(r) = m + 1 /\ r[m + 1] = h /\ \A k \in 1..m : r[k] = ran[k]
  BY <1>1, <1>2
<1> HIDE DEF h, r, t, m, n
<1>5. /\ \A k \in 1..m + 1 : k \in 1..m \/ k = m + 1
      /\ \A k \in 1..m : k \in 1..m + 1
      /\ m + 1 \in 1..m + 1 /\ m + 1 \notin 1..m
      /\ \A k \in 1..n - 1 : k + 1 \in 1..n /\ k + 1 # 1
      /\ \A k \in 1..n : k = 1 \/ (k - 1 \in 1..n - 1 /\ (k - 1) + 1 = k)
  BY <1>1
<1>6. \A k \in 1..m : ran[k] # h
  BY <1>1, <1>2
<1>7. \A k, l \in 1..m + 1 : r[k] = r[l] => k = l
  BY <1>1, <1>4, <1>5, <1>6
<1>8. \A k, l \in 1..n - 1 : t[k] = t[l] => k = l
  <2> SUFFICES ASSUME NEW k \in 1..n - 1, NEW l \in 1..n - 1, t[k] = t[l] PROVE k = l
    OBVIOUS
  <2>1. k + 1 = l + 1
    BY <1>1, <1>3, <1>5
  <2> QED
    BY <1>1, <2>1
<1>9. \A l \in 1..n - 1 : t[l] # h
  <2> SUFFICES ASSUME NEW l \in 1..n - 1 PROVE left[l + 1] # left[1]
    BY <1>2, <1>3
  <2> QED
    BY <1>1, <1>2, <1>5
<1>10. \A k \in 1..m + 1, l \in 1..n - 1 : r[k] # t[l]
  <2> SUFFICES ASSUME NEW k \in 1..m + 1, NEW l \in 1..n - 1 PROVE r[k] # t[l]
    OBVIOUS
  <2>1. CASE k \in 1..m
    BY <1>1, <1>3, <1>4, <1>5, <2>1
  <2>2. CASE k = m + 1
    BY <1>4, <1>9, <2>2
  <2> QED
    BY <1>5, <2>1, <2>2
<1>11. Once(r, t)
  BY <1>3, <1>4, <1>7, <1>8, <1>10 DEF Once
<1>12. \A p : (\E k \in 1..m + 1 : r[k] = p) <=> (\E k \in 1..m : ran[k] = p) \/ p = h
  BY <1>4, <1>5
<1>13. \A p : (\E k \in 1..n : left[k] = p) <=> (\E k \in 1..n - 1 : t[k] = p) \/ p = h
  <2>1. ASSUME NEW k \in 1..n PROVE left[k] = h \/ \E l \in 1..n - 1 : t[l] = left[k]
    <3>1. CASE k = 1
      BY <1>2, <3>1
    <3>2. CASE k - 1 \in 1..n - 1 /\ (k - 1) + 1 = k
      BY <1>3, <3>2
    <3> QED
      BY <1>5, <3>1, <3>2
  <2> QED
    BY <1>2, <1>3, <1>5, <2>1
<1>14. /\ \A p : Has(r, p) <=> Has(ran, p) \/ p = h
       /\ \A p : Has(left, p) <=> Has(t, p) \/ p = h
  BY <1>3, <1>4, <1>12, <1>13 DEF Has, m, n
<1>15. ~Has(ran, h)
  BY <1>6 DEF Has, m
<1>16. \A l \in 1..Len(t) : \E k \in 1..n : t[l] = left[k]
  BY <1>3, <1>5
<1> QED
  BY <1>1, <1>2, <1>4, <1>11, <1>14, <1>15, <1>16 DEF h, r, t, m, n

(* The findings of a run are, phase by phase, what each that ran gave.     *)
Reported(found, ran, what) ==
  /\ found \in Seq(Finding)
  /\ \A p \in Phases : Of(found, p) = IF Has(ran, p) THEN what[p] ELSE <<>>

LEMMA ReportedNext ==
  ASSUME NEW found, NEW ran, NEW what, NEW q \in Phases, NEW more, Reported(found, ran, what),
         ~Has(ran, q), what[q] \in Seq(Finding), \A i \in DOMAIN what[q] : what[q][i].phase = q,
         \A p : Has(more, p) <=> Has(ran, p) \/ p = q
  PROVE  Reported(found \o what[q], more, what)
<1> DEFINE b == what[q]
<1>1. found \in Seq(Finding) /\ b \in Seq(Finding)
  BY DEF Reported
<1>2. found \o b \in Seq(Finding)
  BY <1>1, ConcatTyped
<1>3. \A i \in DOMAIN b : b[i].phase = q
  OBVIOUS
<1> HIDE DEF b
<1>4. Of(b, q) = b /\ \A p : p # q => Of(b, p) = <<>>
  BY <1>1, <1>3, OfOwn
<1>5. ASSUME NEW p \in Phases
      PROVE  Of(found \o b, p) = IF Has(more, p) THEN what[p] ELSE <<>>
  <2>1. Of(found \o b, p) = Of(found, p) \o Of(b, p)
    BY <1>1, OfConcat
  <2>2. CASE p = q
    <3>1. Of(found, p) = <<>> /\ Of(b, p) = b /\ Has(more, p)
      BY <1>4, <2>2 DEF Reported
    <3>2. <<>> \o b = b
      BY <1>1
    <3> QED
      BY <2>1, <2>2, <3>1, <3>2 DEF b
  <2>3. CASE p # q
    <3>1. /\ Of(found, p) = IF Has(ran, p) THEN what[p] ELSE <<>>
          /\ Of(b, p) = <<>> /\ (Has(more, p) <=> Has(ran, p))
      BY <1>4, <2>3 DEF Reported
    <3>2. Of(found, p) \in Seq(Finding)
      <4>1. {i \in DOMAIN found : found[i].phase = p} \in SUBSET (1..Len(found))
        BY <1>1
      <4> QED
        BY <1>1, <4>1, PickedFacts DEF Of
    <3>3. Of(found, p) \o <<>> = Of(found, p)
      BY <3>2
    <3> QED
      BY <2>1, <3>1, <3>3
  <2> QED
    BY <2>2, <2>3
<1> QED
  BY <1>2, <1>5 DEF Reported, b

(* What the flat loop stores of each phase.                                *)
KeptOf == [p \in Phases |-> Kept(site[p])]

(* The flat loop's report when the phases in left are still to run.        *)
FlatAt(rep, left, what, on) ==
  /\ rep \in Report /\ Once(rep.ran, left)
  /\ \A p \in Phases : Has(rep.ran, p) \/ Has(left, p)
  /\ \A k \in 1..Len(rep.ran) : on[rep.ran[k]] # Err
  /\ Reported(rep.findings, rep.ran, what)
  /\ rep.strict_count = Cardinality(WithSeverity(rep.findings, "strict"))
  /\ rep.warn_count = Cardinality(WithSeverity(rep.findings, "warn"))

(* The pipeline in a stage, when the phases in left are still to run in    *)
(* it: the stages before it are done, in their order.                      *)
PipeAt(stage, found, ran, left, on) ==
  /\ Once(ran, left)
  /\ \A p \in Phases : Rank(p) <= stage => Has(ran, p) \/ Has(left, p)
  /\ \A l \in 1..Len(left) : Rank(left[l]) = stage
  /\ \A k \in 1..Len(ran) : Rank(ran[k]) <= stage
  /\ \A k, l \in 1..Len(ran) : k < l => Rank(ran[k]) <= Rank(ran[l])
  /\ \A k \in 1..Len(ran) : on[ran[k]] # Err
  /\ Reported(found, ran, on)

FlatOK ==
  /\ run.runner = "flat" => FlatAt(reports["flat"], run.left, KeptOf, site)
  /\ Ended("flat") => FlatAt(reports["flat"], <<>>, KeptOf, site)

PipeOK ==
  /\ run.runner = "pipeline" => /\ run.stage \in 1..3
                                /\ PipeAt(run.stage, run.held, run.ran, run.left, site)
  /\ Ended("pipeline") => LET rep == reports["pipeline"]
                          IN  PipeAt(3, rep.findings, rep.ran, <<>>, site)

(* A run that failed has met a phase that fails.                           *)
ErrOK == \A r \in Runners : reports[r] = Err => \E p \in Phases : site[p] = Err

RunnerInv == RunnerTypeOK /\ FlatOK /\ PipeOK /\ ErrOK

LEMMA PhaseListFacts ==
  /\ PhaseList \in Seq(Phases) /\ Len(PhaseList) \in Nat
  /\ DOMAIN PhaseList = 1..Len(PhaseList)
  /\ \A k, l \in 1..Len(PhaseList) : PhaseList[k] = PhaseList[l] => k = l
  /\ \A p \in Phases : Has(PhaseList, p)
<1>1. Len(PhaseList) \in Nat /\ DOMAIN PhaseList = 1..Len(PhaseList)
      /\ PhaseList = [k \in 1..Len(PhaseList) |-> PhaseList[k]]
  BY RunnerAssumption
<1>2. \A k \in 1..Len(PhaseList) : PhaseList[k] \in Phases
  BY <1>1 DEF Phases, ToSet
<1>3. PhaseList \in Seq(Phases)
  <2>1. [k \in 1..Len(PhaseList) |-> PhaseList[k]] \in [1..Len(PhaseList) -> Phases]
    BY <1>2
  <2> QED
    BY <1>1, <2>1
<1>4. \A p \in Phases : Has(PhaseList, p)
  BY <1>1 DEF Phases, ToSet, Has
<1>5. \A k, l \in 1..Len(PhaseList) : PhaseList[k] = PhaseList[l] => k = l
  BY <1>1, RunnerAssumption DEF IsInjective
<1> QED
  BY <1>1, <1>3, <1>4, <1>5

LEMMA StageFacts ==
  ASSUME NEW s \in 1..3
  PROVE  /\ PhasesOf(s) \in Seq(Phases)
         /\ \A k, l \in 1..Len(PhasesOf(s)) : PhasesOf(s)[k] = PhasesOf(s)[l] => k = l
         /\ \A k \in 1..Len(PhasesOf(s)) : Rank(PhasesOf(s)[k]) = s
         /\ \A p \in Phases : Rank(p) = s => Has(PhasesOf(s), p)
<1> DEFINE S == {i \in DOMAIN PhaseList : StageOf(PhaseList[i]) = StageNames[s]}
           N == Cardinality(S)  q == Picked(PhaseList, S)
<1>1. /\ S \in SUBSET (1..Len(PhaseList))
      /\ \A i \in 1..Len(PhaseList) : i \in S <=> Rank(PhaseList[i]) = s
  BY PhaseListFacts, RankFacts
<1>2. PhasesOf(s) = q
  BY DEF PhasesOf
<1> HIDE DEF S
<1>3. /\ N \in 0..Len(PhaseList) /\ q \in Seq(Phases) /\ Len(q) = N
      /\ Upwards(S) \in [1..N -> S]
      /\ \A k \in 1..N : q[k] = PhaseList[Upwards(S)[k]]
      /\ \A i \in S : \E k \in 1..N : Upwards(S)[k] = i
      /\ \A k, l \in 1..N : k < l <=> Upwards(S)[k] < Upwards(S)[l]
  BY <1>1, PhaseListFacts, PickedFacts
<1> HIDE DEF q, N
<1>4. \A k \in 1..N : Upwards(S)[k] \in S /\ Upwards(S)[k] \in 1..Len(PhaseList)
  BY <1>1, <1>3
<1>5. \A k \in 1..N : Rank(q[k]) = s
  BY <1>1, <1>3, <1>4
<1>6. ASSUME NEW k \in 1..N, NEW l \in 1..N, q[k] = q[l] PROVE k = l
  <2>1. Upwards(S)[k] = Upwards(S)[l]
    BY <1>3, <1>4, <1>6, PhaseListFacts
  <2>2. ~(k < l) /\ ~(l < k)
    <3>1. Upwards(S)[k] \in Nat /\ Upwards(S)[l] \in Nat
      BY <1>4
    <3> QED
      BY <1>3, <2>1, <3>1
  <2> QED
    BY <1>3, <2>2
<1>7. ASSUME NEW p \in Phases, Rank(p) = s PROVE \E k \in 1..N : q[k] = p
  <2>1. PICK i \in 1..Len(PhaseList) : PhaseList[i] = p
    BY PhaseListFacts DEF Has
  <2>2. PICK k \in 1..N : Upwards(S)[k] = i
    BY <1>1, <1>3, <1>7, <2>1
  <2> QED
    BY <1>3, <2>1, <2>2
<1> QED
  BY <1>2, <1>3, <1>5, <1>6, <1>7 DEF Has

LEMMA Nothing ==
  /\ <<>> \in Seq(Phases) /\ <<>> \in Seq(Finding) /\ Len(<<>>) = 0 /\ \A p : ~Has(<<>>, p)
  /\ \A what : Reported(<<>>, <<>>, what)
  /\ \A s : WithSeverity(<<>>, s) = {}
<1>1. \A p : Of(<<>>, p) = <<>>
  <2>1. \A p : {i \in DOMAIN <<>> : <<>>[i].phase = p} = {}
    OBVIOUS
  <2> QED
    BY <2>1, PickedNone DEF Of
<1>2. \A p : ~Has(<<>>, p)
  BY DEF Has
<1>3. \A s : WithSeverity(<<>>, s) = {}
  BY DEF WithSeverity
<1>4. \A what : Reported(<<>>, <<>>, what)
  BY <1>1, <1>2 DEF Reported
<1> QED
  BY <1>2, <1>3, <1>4

LEMMA SiteFacts ==
  ASSUME RunnerTypeOK, NEW p \in Phases, site[p] # Err
  PROVE  /\ site[p] \in Seq(Finding) /\ \A i \in DOMAIN site[p] : site[p][i].phase = p
         /\ KeptOf[p] = Kept(site[p])
<1>1. site[p] \in Outcomes[p] \ {Err}
  BY DEF RunnerTypeOK
<1> QED
  BY <1>1, RunnerAssumption DEF KeptOf

LEMMA PushAllFacts ==
  ASSUME NEW rep \in Report, NEW found \in Seq(Finding)
  PROVE  /\ PushAll(rep, found) \in Report
         /\ PushAll(rep, found).findings = rep.findings \o found
         /\ PushAll(rep, found).ran = rep.ran
         /\ \A s : /\ Cardinality(WithSeverity(rep.findings, s)) \in Nat
                   /\ Cardinality(WithSeverity(found, s)) \in Nat
                   /\ Cardinality(WithSeverity(rep.findings \o found, s)) =
                        Cardinality(WithSeverity(rep.findings, s))
                          + Cardinality(WithSeverity(found, s))
         /\ PushAll(rep, found).strict_count =
              rep.strict_count + Cardinality(WithSeverity(found, "strict"))
         /\ PushAll(rep, found).warn_count =
              rep.warn_count + Cardinality(WithSeverity(found, "warn"))
<1>1. rep.findings \in Seq(Finding) /\ rep.strict_count \in Nat /\ rep.warn_count \in Nat
  BY DEF Report
<1>2. \A s : /\ Cardinality(WithSeverity(rep.findings, s)) \in Nat
             /\ Cardinality(WithSeverity(found, s)) \in Nat
             /\ Cardinality(WithSeverity(rep.findings \o found, s)) =
                  Cardinality(WithSeverity(rep.findings, s))
                    + Cardinality(WithSeverity(found, s))
  BY <1>1, SeverityConcat
<1> DEFINE fs == rep.findings \o found
           sc == rep.strict_count + Cardinality(WithSeverity(found, "strict"))
           wc == rep.warn_count + Cardinality(WithSeverity(found, "warn"))
<1>3. fs \in Seq(Finding) /\ sc \in Nat /\ wc \in Nat
  BY <1>1, <1>2, ConcatTyped
<1>4. PushAll(rep, found) =
        [rep EXCEPT !.findings = fs, !.strict_count = sc, !.warn_count = wc]
  BY DEF PushAll
<1> HIDE DEF fs, sc, wc
<1>5. /\ PushAll(rep, found) \in Report /\ PushAll(rep, found).findings = fs
      /\ PushAll(rep, found).ran = rep.ran
      /\ PushAll(rep, found).strict_count = sc /\ PushAll(rep, found).warn_count = wc
  BY <1>3, <1>4 DEF Report
<1> QED
  BY <1>2, <1>5 DEF fs, sc, wc

LEMMA RunnerStart == RunnerInit => RunnerInv
<1> SUFFICES ASSUME RunnerInit PROVE RunnerInv
  OBVIOUS
<1>1. /\ \A p \in Phases : site[p] \in Outcomes[p]
      /\ mode \in Modes /\ policy \in Policies
      /\ run = NoRun /\ reports = [r \in Runners |-> NoReport]
  BY DEF RunnerInit
<1>2. run.runner = "none" /\ \A r \in Runners : reports[r] = NoReport
  BY <1>1 DEF NoRun
<1>3. NoRun \in [runner : Runners \union {"none"}, stage : 0..3, left : Seq(Phases),
                 held : Seq(Finding), ran : Seq(Phases)]
  BY Nothing DEF NoRun
<1>4. reports \in [Runners -> Report \union {NoReport, Err}]
  BY <1>1
<1>5. RunnerTypeOK
  BY <1>1, <1>3, <1>4 DEF RunnerTypeOK
<1>6. FlatOK /\ PipeOK
  BY <1>2 DEF FlatOK, PipeOK, Ended, Runners
<1>7. ErrOK
  BY <1>2, RunnerAssumption DEF ErrOK
<1> QED
  BY <1>5, <1>6, <1>7 DEF RunnerInv

RunState == [runner : Runners \union {"none"}, stage : 0..3, left : Seq(Phases),
             held : Seq(Finding), ran : Seq(Phases)]

LEMMA SiteStays ==
  ASSUME UNCHANGED <<site, mode, policy>>
  PROVE  site' = site /\ mode' = mode /\ policy' = policy /\ KeptOf' = KeptOf
  BY DEF KeptOf, Kept, Promote, Promoted, Exempt

(* The invariant after a step, from what the step does to the run and the  *)
(* reports.                                                                *)
LEMMA RunnerTo ==
  ASSUME RunnerInv, UNCHANGED <<site, mode, policy>>,
         run' \in RunState, reports' \in [Runners -> Report \union {NoReport, Err}],
         run'.runner = "flat" => FlatAt(reports'["flat"], run'.left, KeptOf, site),
         reports'["flat"] \notin {NoReport, Err} /\ run'.runner # "flat"
           => FlatAt(reports'["flat"], <<>>, KeptOf, site),
         run'.runner = "pipeline"
           => run'.stage \in 1..3 /\ PipeAt(run'.stage, run'.held, run'.ran, run'.left, site),
         reports'["pipeline"] \notin {NoReport, Err} /\ run'.runner # "pipeline"
           => PipeAt(3, reports'["pipeline"].findings, reports'["pipeline"].ran, <<>>, site),
         \A r \in Runners : reports'[r] = Err => \E p \in Phases : site[p] = Err
  PROVE  RunnerInv'
<1>1. site' = site /\ mode' = mode /\ policy' = policy /\ KeptOf' = KeptOf
  BY SiteStays
<1>2. RunnerTypeOK'
  BY <1>1 DEF RunnerInv, RunnerTypeOK, RunState
<1>3. FlatOK'
  BY <1>1 DEF FlatOK, Ended
<1>4. PipeOK'
  BY <1>1 DEF PipeOK, Ended
<1>5. ErrOK'
  BY <1>1 DEF ErrOK
<1> QED
  BY <1>2, <1>3, <1>4, <1>5 DEF RunnerInv

(* What RunnerInv says, with the definitions a step needs.                 *)
LEMMA RunnerNow ==
  ASSUME RunnerInv
  PROVE  /\ run \in RunState /\ reports \in [Runners -> Report \union {NoReport, Err}]
         /\ run.runner \in Runners \union {"none"} /\ run.stage \in 0..3
         /\ run.left \in Seq(Phases) /\ run.held \in Seq(Finding) /\ run.ran \in Seq(Phases)
         /\ "flat" \in Runners /\ "pipeline" \in Runners
         /\ run.runner = "flat" => FlatAt(reports["flat"], run.left, KeptOf, site)
         /\ reports["flat"] \notin {NoReport, Err} /\ run.runner # "flat"
              => FlatAt(reports["flat"], <<>>, KeptOf, site)
         /\ run.runner = "pipeline"
              => run.stage \in 1..3 /\ PipeAt(run.stage, run.held, run.ran, run.left, site)
         /\ reports["pipeline"] \notin {NoReport, Err} /\ run.runner # "pipeline"
              => PipeAt(3, reports["pipeline"].findings, reports["pipeline"].ran, <<>>, site)
         /\ \A r \in Runners : reports[r] = Err => \E p \in Phases : site[p] = Err
<1>1. run \in RunState /\ reports \in [Runners -> Report \union {NoReport, Err}]
  BY DEF RunnerInv, RunnerTypeOK, RunState
<1>2. /\ run.runner \in Runners \union {"none"} /\ run.stage \in 0..3
      /\ run.left \in Seq(Phases) /\ run.held \in Seq(Finding) /\ run.ran \in Seq(Phases)
  BY <1>1 DEF RunState
<1>3. "flat" \in Runners /\ "pipeline" \in Runners
  BY DEF Runners
<1>4. FlatOK /\ PipeOK /\ ErrOK
  BY DEF RunnerInv
<1>5. /\ run.runner = "flat" => FlatAt(reports["flat"], run.left, KeptOf, site)
      /\ reports["flat"] \notin {NoReport, Err} /\ run.runner # "flat"
           => FlatAt(reports["flat"], <<>>, KeptOf, site)
  BY <1>4 DEF FlatOK, Ended
<1>6. /\ run.runner = "pipeline"
           => run.stage \in 1..3 /\ PipeAt(run.stage, run.held, run.ran, run.left, site)
      /\ reports["pipeline"] \notin {NoReport, Err} /\ run.runner # "pipeline"
           => PipeAt(3, reports["pipeline"].findings, reports["pipeline"].ran, <<>>, site)
  BY <1>4 DEF PipeOK, Ended
<1>7. \A r \in Runners : reports[r] = Err => \E p \in Phases : site[p] = Err
  BY <1>4 DEF ErrOK
<1> QED
  BY <1>1, <1>2, <1>3, <1>5, <1>6, <1>7

LEMMA NoRunTyped == NoRun \in RunState /\ NoRun.runner = "none"
  BY Nothing DEF NoRun, RunState

LEMMA StartFlatKeeps == RunnerInv /\ StartFlat => RunnerInv'
<1> SUFFICES ASSUME RunnerInv, StartFlat PROVE RunnerInv'
  OBVIOUS
<1>1. /\ run.runner = "none" /\ UNCHANGED <<site, mode, policy>>
      /\ run' = [NoRun EXCEPT !.runner = "flat", !.left = PhaseList]
      /\ reports' = [reports EXCEPT !["flat"] = EmptyReport]
  BY DEF StartFlat
<1>2. EmptyReport \in Report /\ EmptyReport.findings = <<>> /\ EmptyReport.ran = <<>>
      /\ EmptyReport.strict_count = 0 /\ EmptyReport.warn_count = 0
  BY Nothing DEF EmptyReport, Report
<1>3. run' \in RunState /\ run'.runner = "flat" /\ run'.left = PhaseList
  <2>1. NoRun \in RunState
    BY NoRunTyped
  <2>2. "flat" \in Runners /\ PhaseList \in Seq(Phases)
    BY PhaseListFacts DEF Runners
  <2> QED
    BY <1>1, <2>1, <2>2 DEF RunState
<1>4. /\ reports' \in [Runners -> Report \union {NoReport, Err}]
      /\ reports'["flat"] = EmptyReport /\ reports'["pipeline"] = reports["pipeline"]
  BY <1>1, <1>2, RunnerNow
<1>5. FlatAt(EmptyReport, PhaseList, KeptOf, site)
  <2>1. Once(<<>>, PhaseList)
    BY PhaseListFacts, Nothing DEF Once
  <2>2. \A s : Cardinality(WithSeverity(<<>>, s)) = 0
    BY Nothing, FS_EmptySet
  <2>3. \A k \in 1..Len(<<>>) : site[<<>>[k]] # Err
    BY Nothing
  <2> QED
    BY <1>2, <2>1, <2>2, <2>3, PhaseListFacts, Nothing DEF FlatAt
<1>6. \A r \in Runners : reports'[r] = Err => reports[r] = Err
  BY <1>2, <1>4, RunnerAssumption DEF Runners
<1>7. \A r \in Runners : reports'[r] = Err => \E p \in Phases : site[p] = Err
  BY <1>6, RunnerNow
<1>8. reports'["pipeline"] \notin {NoReport, Err} /\ run'.runner # "pipeline"
        => PipeAt(3, reports'["pipeline"].findings, reports'["pipeline"].ran, <<>>, site)
  BY <1>1, <1>4, RunnerNow
<1> QED
  BY <1>1, <1>3, <1>4, <1>5, <1>7, <1>8, RunnerTo

LEMMA FlatPhaseKeeps == RunnerInv /\ RunFlatPhase => RunnerInv'
<1> SUFFICES ASSUME RunnerInv, RunFlatPhase PROVE RunnerInv'
  OBVIOUS
<1> DEFINE q == Head(run.left)  old == reports["flat"]  found == site[q]  stored == Kept(found)
           pushed == PushAll(old, stored)
           suppressed == pushed.suppressed + Len(found) - Len(stored)
           promoted == pushed.promoted + Cardinality({i \in WithSeverity(found, "warn") :
                                                        Promoted(found[i].phase)})
           new == [pushed EXCEPT !.suppressed = suppressed, !.promoted = promoted,
                                 !.ran = Append(pushed.ran, q)]
<1>1. /\ run.runner = "flat" /\ run.left # <<>> /\ site[q] # Err
      /\ UNCHANGED <<site, mode, policy>>
      /\ run' = [run EXCEPT !.left = Tail(run.left), !.ran = Append(run.ran, q)]
      /\ reports' = [reports EXCEPT !["flat"] = new]
  BY DEF RunFlatPhase
<1>2. FlatAt(old, run.left, KeptOf, site)
  BY <1>1, RunnerNow
<1>3. old \in Report /\ Once(old.ran, run.left) /\ old.ran \in Seq(Phases)
  BY <1>2 DEF FlatAt, Once
<1> DEFINE more == Append(old.ran, q)  rest == Tail(run.left)
<1>4. /\ q \in Phases /\ ~Has(old.ran, q) /\ Once(more, rest)
      /\ \A p : Has(more, p) <=> Has(old.ran, p) \/ p = q
      /\ \A p : Has(run.left, p) <=> Has(rest, p) \/ p = q
      /\ Len(more) = Len(old.ran) + 1 /\ Len(old.ran) \in Nat
      /\ more[Len(old.ran) + 1] = q /\ \A k \in 1..Len(old.ran) : more[k] = old.ran[k]
  BY <1>1, <1>3, NextPhase
<1>5. found \in Seq(Finding) /\ (\A i \in DOMAIN found : found[i].phase = q) /\ KeptOf[q] = stored
  BY <1>1, <1>4, SiteFacts DEF RunnerInv
<1>6. stored \in Seq(Finding) /\ (\A i \in DOMAIN stored : stored[i].phase = q) /\ Len(stored) \in 0..Len(found)
  BY <1>4, <1>5, KeptFacts
<1> HIDE DEF stored
<1>7. /\ pushed \in Report /\ pushed.findings = old.findings \o stored /\ pushed.ran = old.ran
      /\ \A s : /\ Cardinality(WithSeverity(old.findings, s)) \in Nat
                /\ Cardinality(WithSeverity(stored, s)) \in Nat
                /\ Cardinality(WithSeverity(old.findings \o stored, s)) =
                     Cardinality(WithSeverity(old.findings, s)) + Cardinality(WithSeverity(stored, s))
      /\ pushed.strict_count = old.strict_count + Cardinality(WithSeverity(stored, "strict"))
      /\ pushed.warn_count = old.warn_count + Cardinality(WithSeverity(stored, "warn"))
  BY <1>3, <1>6, PushAllFacts
<1> HIDE DEF pushed
<1>8. suppressed \in Nat /\ promoted \in Nat
  <2>1. pushed.suppressed \in Nat /\ pushed.promoted \in Nat
    BY <1>7 DEF Report
  <2>2. Len(found) \in Nat
    BY <1>5
  <2>3. suppressed \in Nat
    BY <1>6, <2>1, <2>2
  <2> DEFINE W == {i \in WithSeverity(found, "warn") : Promoted(found[i].phase)}
  <2>4. W \in SUBSET (1..Len(found))
    BY <1>5 DEF WithSeverity
  <2>5. Cardinality(W) \in Nat
    BY <1>5, <2>4, PickedFacts
  <2> QED
    BY <2>1, <2>3, <2>5
<1> HIDE DEF suppressed, promoted
<1>9. /\ new \in Report /\ new.findings = old.findings \o stored /\ new.ran = more
      /\ new.strict_count = pushed.strict_count /\ new.warn_count = pushed.warn_count
  <2>1. more \in Seq(Phases)
    BY <1>4 DEF Once
  <2> QED
    BY <1>7, <1>8, <2>1 DEF Report
<1> HIDE DEF new
<1>10. /\ run' \in RunState /\ run'.runner = "flat" /\ run'.left = rest
  <2>1. rest \in Seq(Phases)
    BY <1>4 DEF Once
  <2>2. Append(run.ran, q) \in Seq(Phases)
    BY <1>4, RunnerNow
  <2> QED
    BY <1>1, <2>1, <2>2, RunnerNow DEF RunState
<1>11. /\ reports' \in [Runners -> Report \union {NoReport, Err}]
       /\ reports'["flat"] = new /\ reports'["pipeline"] = reports["pipeline"]
  BY <1>1, <1>9, RunnerNow
<1> HIDE DEF more, rest
<1>12. FlatAt(new, rest, KeptOf, site)
  <2>1. \A p \in Phases : Has(more, p) \/ Has(rest, p)
    BY <1>2, <1>4 DEF FlatAt
  <2>2. ASSUME NEW k \in 1..Len(more) PROVE site[more[k]] # Err
    <3>1. CASE k = Len(old.ran) + 1
      BY <1>1, <1>4, <3>1
    <3>2. CASE k \in 1..Len(old.ran)
      BY <1>2, <1>4, <3>2 DEF FlatAt
    <3> QED
      BY <1>4, <3>1, <3>2
  <2>3. Reported(old.findings \o stored, more, KeptOf)
    <3>1. Reported(old.findings, old.ran, KeptOf)
      BY <1>2 DEF FlatAt
    <3>2. KeptOf[q] \in Seq(Finding) /\ \A i \in DOMAIN KeptOf[q] : KeptOf[q][i].phase = q
      BY <1>5, <1>6
    <3>3. Reported(old.findings \o KeptOf[q], more, KeptOf)
      BY <1>4, <3>1, <3>2, ReportedNext
    <3> QED
      BY <1>5, <3>3
  <2>4. /\ old.strict_count = Cardinality(WithSeverity(old.findings, "strict"))
        /\ old.warn_count = Cardinality(WithSeverity(old.findings, "warn"))
    BY <1>2 DEF FlatAt
  <2>5. /\ new.strict_count = Cardinality(WithSeverity(new.findings, "strict"))
        /\ new.warn_count = Cardinality(WithSeverity(new.findings, "warn"))
    BY <1>7, <1>9, <2>4
  <2> QED
    BY <1>4, <1>9, <2>1, <2>2, <2>3, <2>5 DEF FlatAt
<1>13. \A r \in Runners : reports'[r] = Err => \E p \in Phases : site[p] = Err
  BY <1>9, <1>11, RunnerNow, RunnerAssumption DEF Runners
<1>14. reports'["pipeline"] \notin {NoReport, Err} /\ run'.runner # "pipeline"
        => PipeAt(3, reports'["pipeline"].findings, reports'["pipeline"].ran, <<>>, site)
  BY <1>1, <1>11, RunnerNow
<1> QED
  BY <1>1, <1>10, <1>11, <1>12, <1>13, <1>14, RunnerTo

LEMMA PhaseFailsKeeps == RunnerInv /\ PhaseFails => RunnerInv'
<1> SUFFICES ASSUME RunnerInv, PhaseFails PROVE RunnerInv'
  OBVIOUS
<1>1. /\ run.runner # "none" /\ run.left # <<>> /\ site[Head(run.left)] = Err
      /\ UNCHANGED <<site, mode, policy>>
      /\ reports' = [reports EXCEPT ![run.runner] = Err]
      /\ run' = NoRun
  BY DEF PhaseFails
<1>2. run.runner \in Runners
  BY <1>1, RunnerNow
<1>3. Head(run.left) \in Phases
  BY <1>1, RunnerNow
<1>4. run' \in RunState /\ run'.runner = "none"
  BY <1>1, NoRunTyped
<1>5. /\ reports' \in [Runners -> Report \union {NoReport, Err}]
      /\ \A r \in Runners : reports'[r] = Err \/ (r # run.runner /\ reports'[r] = reports[r])
  BY <1>1, <1>2, RunnerNow
<1>6. \E p \in Phases : site[p] = Err
  BY <1>1, <1>3
<1>7. /\ reports'["flat"] \notin {NoReport, Err} /\ run'.runner # "flat"
           => FlatAt(reports'["flat"], <<>>, KeptOf, site)
      /\ reports'["pipeline"] \notin {NoReport, Err} /\ run'.runner # "pipeline"
           => PipeAt(3, reports'["pipeline"].findings, reports'["pipeline"].ran, <<>>, site)
  BY <1>5, RunnerNow
<1> QED
  BY <1>1, <1>4, <1>5, <1>6, <1>7, RunnerTo

LEMMA EndFlatKeeps == RunnerInv /\ EndFlat => RunnerInv'
<1> SUFFICES ASSUME RunnerInv, EndFlat PROVE RunnerInv'
  OBVIOUS
<1>1. /\ run.runner = "flat" /\ run.left = <<>> /\ run' = NoRun
      /\ UNCHANGED <<site, mode, policy>> /\ reports' = reports
  BY DEF EndFlat
<1>2. run' \in RunState /\ run'.runner = "none"
  BY <1>1, NoRunTyped
<1>3. FlatAt(reports["flat"], <<>>, KeptOf, site)
  BY <1>1, RunnerNow
<1>4. /\ reports' \in [Runners -> Report \union {NoReport, Err}]
      /\ \A r \in Runners : reports'[r] = Err => \E p \in Phases : site[p] = Err
      /\ reports'["pipeline"] \notin {NoReport, Err} /\ run'.runner # "pipeline"
           => PipeAt(3, reports'["pipeline"].findings, reports'["pipeline"].ran, <<>>, site)
  BY <1>1, RunnerNow
<1> QED
  BY <1>1, <1>2, <1>3, <1>4, RunnerTo

LEMMA StartPipelineKeeps == RunnerInv /\ StartPipeline => RunnerInv'
<1> SUFFICES ASSUME RunnerInv, StartPipeline PROVE RunnerInv'
  OBVIOUS
<1> DEFINE q == PhasesOf(1)
<1>1. /\ run.runner = "none" /\ reports["pipeline"] = NoReport
      /\ UNCHANGED <<site, mode, policy>> /\ reports' = reports
      /\ run' = [NoRun EXCEPT !.runner = "pipeline", !.stage = 1, !.left = q]
  BY DEF StartPipeline
<1>2. /\ q \in Seq(Phases)
      /\ \A k, l \in 1..Len(q) : q[k] = q[l] => k = l
      /\ \A k \in 1..Len(q) : Rank(q[k]) = 1
      /\ \A p \in Phases : Rank(p) = 1 => Has(q, p)
  BY StageFacts
<1> HIDE DEF q
<1>3. /\ run' \in RunState /\ run'.runner = "pipeline" /\ run'.stage = 1 /\ run'.left = q
      /\ run'.held = <<>> /\ run'.ran = <<>>
  <2>1. run' = [runner |-> "pipeline", stage |-> 1, left |-> q, held |-> <<>>, ran |-> <<>>]
    BY <1>1 DEF NoRun
  <2>2. "pipeline" \in Runners \union {"none"} /\ 1 \in 0..3 /\ q \in Seq(Phases)
    BY <1>2 DEF Runners
  <2>3. run' \in RunState
    BY <2>1, <2>2, Nothing DEF RunState
  <2> QED
    BY <2>1, <2>3
<1>4. PipeAt(1, <<>>, <<>>, q, site)
  <2>1. Once(<<>>, q)
    BY <1>2, Nothing DEF Once
  <2>2. \A p \in Phases : Rank(p) <= 1 => Has(<<>>, p) \/ Has(q, p)
    <3>1. \A p : Rank(p) <= 1 => Rank(p) = 1
      BY RankFacts
    <3> QED
      BY <1>2, <3>1
  <2>3. \A k : k \notin 1..Len(<<>>)
    BY Nothing
  <2> QED
    BY <1>2, <2>1, <2>2, <2>3, Nothing DEF PipeAt
<1>6. /\ reports' \in [Runners -> Report \union {NoReport, Err}]
      /\ \A r \in Runners : reports'[r] = Err => \E p \in Phases : site[p] = Err
      /\ reports'["flat"] \notin {NoReport, Err} /\ run'.runner # "flat"
           => FlatAt(reports'["flat"], <<>>, KeptOf, site)
  BY <1>1, RunnerNow
<1> QED
  BY <1>1, <1>3, <1>4, <1>6, RunnerTo

LEMMA StagePhaseKeeps == RunnerInv /\ RunStagePhase => RunnerInv'
<1> SUFFICES ASSUME RunnerInv, RunStagePhase PROVE RunnerInv'
  OBVIOUS
<1> DEFINE q == Head(run.left)  more == Append(run.ran, q)  rest == Tail(run.left)
           gathered == run.held \o site[q]
<1>1. /\ run.runner = "pipeline" /\ run.left # <<>> /\ site[q] # Err
      /\ UNCHANGED <<site, mode, policy>> /\ reports' = reports
      /\ run' = [run EXCEPT !.left = rest, !.held = gathered, !.ran = more]
  BY DEF RunStagePhase
<1>2. run.stage \in 1..3 /\ PipeAt(run.stage, run.held, run.ran, run.left, site)
  BY <1>1, RunnerNow
<1>3. Once(run.ran, run.left)
  BY <1>2 DEF PipeAt
<1>4. /\ q \in Phases /\ q = run.left[1] /\ 1 \in 1..Len(run.left)
      /\ ~Has(run.ran, q) /\ Once(more, rest)
      /\ \A p : Has(more, p) <=> Has(run.ran, p) \/ p = q
      /\ \A p : Has(run.left, p) <=> Has(rest, p) \/ p = q
      /\ \A l \in 1..Len(rest) : \E k \in 1..Len(run.left) : rest[l] = run.left[k]
      /\ Len(more) = Len(run.ran) + 1 /\ Len(run.ran) \in Nat
      /\ more[Len(run.ran) + 1] = q /\ \A k \in 1..Len(run.ran) : more[k] = run.ran[k]
  BY <1>1, <1>3, NextPhase
<1>5. site[q] \in Seq(Finding) /\ \A i \in DOMAIN site[q] : site[q][i].phase = q
  BY <1>1, <1>4, SiteFacts DEF RunnerInv
<1>6. Reported(gathered, more, site)
  <2>1. Reported(run.held, run.ran, site)
    BY <1>2 DEF PipeAt
  <2> QED
    BY <1>4, <1>5, <2>1, ReportedNext
<1> HIDE DEF more, rest, gathered
<1>7. /\ run' \in RunState /\ run'.runner = "pipeline" /\ run'.stage = run.stage
      /\ run'.left = rest /\ run'.held = gathered /\ run'.ran = more
  <2>1. rest \in Seq(Phases) /\ more \in Seq(Phases)
    BY <1>4 DEF Once
  <2>2. gathered \in Seq(Finding)
    BY <1>6 DEF Reported
  <2> QED
    BY <1>1, <2>1, <2>2, RunnerNow DEF RunState
<1>8. PipeAt(run.stage, gathered, more, rest, site)
  <2> DEFINE s == run.stage  m == Len(run.ran)
  <2>1. \A k \in 1..m + 1 : k \in 1..m \/ k = m + 1
    BY <1>4
  <2>2. Rank(q) = s
    BY <1>2, <1>4 DEF PipeAt
  <2>3. \A p \in Phases : Rank(p) <= s => Has(more, p) \/ Has(rest, p)
    BY <1>2, <1>4 DEF PipeAt
  <2>4. \A l \in 1..Len(rest) : Rank(rest[l]) = s
    BY <1>2, <1>4 DEF PipeAt
  <2>5. \A k \in 1..m : Rank(more[k]) <= s /\ more[k] = run.ran[k]
    BY <1>2, <1>4 DEF PipeAt
  <2>6. s <= s
    BY <1>2
  <2>7. \A k \in 1..m + 1 : Rank(more[k]) <= s
    BY <1>4, <2>1, <2>2, <2>5, <2>6
  <2>8. ASSUME NEW k \in 1..m + 1, NEW l \in 1..m + 1, k < l PROVE Rank(more[k]) <= Rank(more[l])
    <3>1. k \in 1..m
      BY <1>4, <2>8
    <3>2. CASE l \in 1..m
      BY <1>2, <2>5, <2>8, <3>1, <3>2 DEF PipeAt
    <3>3. CASE l = m + 1
      BY <1>4, <2>2, <2>7, <3>3
    <3> QED
      BY <2>1, <3>2, <3>3
  <2>9. \A k \in 1..m + 1 : site[more[k]] # Err
    BY <1>1, <1>2, <1>4, <2>1 DEF PipeAt
  <2> QED
    BY <1>4, <1>6, <2>3, <2>4, <2>7, <2>8, <2>9 DEF PipeAt
<1>9. /\ reports' \in [Runners -> Report \union {NoReport, Err}]
      /\ \A r \in Runners : reports'[r] = Err => \E p \in Phases : site[p] = Err
      /\ reports'["flat"] \notin {NoReport, Err} /\ run'.runner # "flat"
           => FlatAt(reports'["flat"], <<>>, KeptOf, site)
  BY <1>1, RunnerNow
<1> QED
  BY <1>1, <1>2, <1>7, <1>8, <1>9, RunnerTo

LEMMA EndStageKeeps == RunnerInv /\ EndStage => RunnerInv'
<1> SUFFICES ASSUME RunnerInv, EndStage PROVE RunnerInv'
  OBVIOUS
<1> DEFINE s == run.stage + 1  q == PhasesOf(s)
<1>1. /\ run.runner = "pipeline" /\ run.left = <<>> /\ run.stage < 3
      /\ UNCHANGED <<site, mode, policy>> /\ reports' = reports
      /\ run' = [run EXCEPT !.stage = s, !.left = q]
  BY DEF EndStage
<1>2. run.stage \in 1..3 /\ PipeAt(run.stage, run.held, run.ran, <<>>, site)
  BY <1>1, RunnerNow
<1>3. s \in 1..3 /\ s \in 0..3 /\ run.stage < s /\ \A r \in 1..3 : r <= s <=> r <= run.stage \/ r = s
  BY <1>1, <1>2
<1> HIDE DEF s
<1>4. /\ q \in Seq(Phases)
      /\ \A k, l \in 1..Len(q) : q[k] = q[l] => k = l
      /\ \A k \in 1..Len(q) : Rank(q[k]) = s
      /\ \A p \in Phases : Rank(p) = s => Has(q, p)
  BY <1>3, StageFacts
<1> HIDE DEF q
<1>5. /\ run' \in RunState /\ run'.runner = "pipeline" /\ run'.stage = s
      /\ run'.left = q /\ run'.held = run.held /\ run'.ran = run.ran
  BY <1>1, <1>3, <1>4, RunnerNow DEF RunState
<1>6. PipeAt(s, run.held, run.ran, q, site)
  <2>1. \A k \in 1..Len(run.ran) : Rank(run.ran[k]) <= run.stage /\ Rank(run.ran[k]) \in 1..3
    BY <1>2, RankFacts DEF PipeAt
  <2>2. \A k \in 1..Len(run.ran) : Rank(run.ran[k]) <= s
    BY <1>3, <2>1
  <2>3. \A k \in 1..Len(run.ran) : Rank(run.ran[k]) # s
    BY <1>2, <1>3, <2>1
  <2>4. \A k \in 1..Len(run.ran), l \in 1..Len(q) : run.ran[k] # q[l]
    BY <1>4, <2>3
  <2>5. Once(run.ran, q)
    BY <1>2, <1>4, <2>4 DEF PipeAt, Once
  <2>6. \A p \in Phases : Rank(p) <= s => Has(run.ran, p) \/ Has(q, p)
    <3>1. \A p \in Phases : Rank(p) <= s => Rank(p) <= run.stage \/ Rank(p) = s
      BY <1>3, RankFacts
    <3> QED
      BY <1>2, <1>4, <3>1, Nothing DEF PipeAt
  <2> QED
    BY <1>2, <1>4, <2>2, <2>5, <2>6 DEF PipeAt
<1>7. /\ reports' \in [Runners -> Report \union {NoReport, Err}]
      /\ \A r \in Runners : reports'[r] = Err => \E p \in Phases : site[p] = Err
      /\ reports'["flat"] \notin {NoReport, Err} /\ run'.runner # "flat"
           => FlatAt(reports'["flat"], <<>>, KeptOf, site)
  BY <1>1, RunnerNow
<1> QED
  BY <1>1, <1>3, <1>5, <1>6, <1>7, RunnerTo

LEMMA IntoReportKeeps == RunnerInv /\ IntoReport => RunnerInv'
<1> SUFFICES ASSUME RunnerInv, IntoReport PROVE RunnerInv'
  OBVIOUS
<1> DEFINE pushed == PushAll(EmptyReport, run.held)
           C == {i \in DOMAIN run.ran : StageOf(run.ran[i]) = "audit" /\ site[run.ran[i]] = <<>>}
           clean == Cardinality(C)
           new == [pushed EXCEPT !.ran = run.ran, !.clean = clean]
<1>1. /\ run.runner = "pipeline" /\ run.left = <<>> /\ run.stage = 3
      /\ UNCHANGED <<site, mode, policy>> /\ run' = NoRun
      /\ reports' = [reports EXCEPT !["pipeline"] = new]
  BY DEF IntoReport
<1>2. PipeAt(3, run.held, run.ran, <<>>, site)
  BY <1>1, RunnerNow
<1>3. EmptyReport \in Report /\ EmptyReport.findings = <<>>
  BY Nothing DEF EmptyReport, Report
<1>4. pushed \in Report /\ pushed.findings = EmptyReport.findings \o run.held
  <2>1. run.held \in Seq(Finding)
    BY RunnerNow
  <2> HIDE DEF PushAll
  <2> QED
    BY <1>3, <2>1, PushAllFacts
<1>5. pushed.findings = run.held
  BY <1>3, <1>4, RunnerNow
<1>6. clean \in Nat
  <2>1. C \in SUBSET (1..Len(run.ran))
    BY RunnerNow
  <2> QED
    BY <2>1, RunnerNow, PickedFacts
<1> HIDE DEF pushed, clean
<1>7. new \in Report /\ new.findings = run.held /\ new.ran = run.ran
  BY <1>4, <1>5, <1>6, RunnerNow DEF Report
<1> HIDE DEF new
<1>8. /\ reports' \in [Runners -> Report \union {NoReport, Err}]
      /\ reports'["pipeline"] = new /\ reports'["flat"] = reports["flat"]
  BY <1>1, <1>7, RunnerNow
<1>9. run' \in RunState /\ run'.runner = "none"
  BY <1>1, NoRunTyped
<1>10. \A r \in Runners : reports'[r] = Err => \E p \in Phases : site[p] = Err
  BY <1>7, <1>8, RunnerNow, RunnerAssumption DEF Runners
<1>11. reports'["flat"] \notin {NoReport, Err} /\ run'.runner # "flat"
         => FlatAt(reports'["flat"], <<>>, KeptOf, site)
  BY <1>1, <1>8, RunnerNow
<1>12. PipeAt(3, new.findings, new.ran, <<>>, site)
  BY <1>2, <1>7
<1> QED
  BY <1>1, <1>8, <1>9, <1>10, <1>11, <1>12, RunnerTo

LEMMA RunnerStep == RunnerInv /\ [RunnerNext]_runnerVars => RunnerInv'
<1> SUFFICES ASSUME RunnerInv, [RunnerNext]_runnerVars PROVE RunnerInv'
  OBVIOUS
<1>1. CASE UNCHANGED runnerVars
  <2>1. /\ UNCHANGED <<site, mode, policy>> /\ run' = run /\ reports' = reports
    BY <1>1 DEF runnerVars
  <2> QED
    BY <2>1, RunnerNow, RunnerTo
<1> QED
  BY <1>1, StartFlatKeeps, FlatPhaseKeeps, EndFlatKeeps, PhaseFailsKeeps, StartPipelineKeeps,
     StagePhaseKeeps, EndStageKeeps, IntoReportKeeps DEF RunnerNext

LEMMA RunnerInvAlways == RunnerSpec => []RunnerInv
<1> QED
  BY RunnerStart, RunnerStep, PTL DEF RunnerSpec

(* A run in progress is at a stage with phases to run and findings held,   *)
(* and a runner has no report, an error, or a report of findings.          *)
THEOREM RunnerTypeCorrect == RunnerSpec => []RunnerTypeOK
<1>1. RunnerInv => RunnerTypeOK
  BY DEF RunnerInv
<1> QED
  BY <1>1, RunnerInvAlways, PTL

LEMMA OnceAll ==
  ASSUME NEW ran, Once(ran, <<>>), \A p \in Phases : Has(ran, p)
  PROVE  IsInjective(ran) /\ ToSet(ran) = Phases
<1>1. ran \in Seq(Phases) /\ DOMAIN ran = 1..Len(ran)
  BY DEF Once
<1>2. IsInjective(ran)
  BY <1>1 DEF Once, IsInjective
<1>3. ToSet(ran) \subseteq Phases
  BY <1>1 DEF ToSet
<1>4. Phases \subseteq ToSet(ran)
  BY <1>1 DEF ToSet, Has
<1> QED
  BY <1>2, <1>3, <1>4

(* However the list is cut into stages, a run that ends has run every      *)
(* phase exactly once, and render before every audit, for any list of      *)
(* phases.                                                                 *)
THEOREM EachPhaseOnceCorrect == RunnerSpec => []EachPhaseOnce
<1>1. RunnerInv => EachPhaseOnce
  <2> SUFFICES ASSUME RunnerInv PROVE EachPhaseOnce
    OBVIOUS
  <2>1. Ended("flat") => /\ IsInjective(reports["flat"].ran) /\ ToSet(reports["flat"].ran) = Phases
    <3> SUFFICES ASSUME Ended("flat") PROVE FlatAt(reports["flat"], <<>>, KeptOf, site)
      BY OnceAll, Nothing DEF FlatAt
    <3> QED
      BY RunnerNow DEF Ended
  <2>2. ASSUME Ended("pipeline")
        PROVE  LET ran == reports["pipeline"].ran
               IN  /\ IsInjective(ran) /\ ToSet(ran) = Phases
                   /\ \A i, j \in DOMAIN ran :
                        ran[i] = "render" /\ StageOf(ran[j]) = "audit" => i < j
    <3> DEFINE ran == reports["pipeline"].ran
    <3>1. PipeAt(3, reports["pipeline"].findings, ran, <<>>, site)
      BY <2>2, RunnerNow DEF Ended
    <3> HIDE DEF ran
    <3>2. \A p \in Phases : Rank(p) <= 3
      BY RankFacts
    <3>3. Once(ran, <<>>) /\ \A p \in Phases : Has(ran, p)
      BY <3>1, <3>2, Nothing DEF PipeAt
    <3>4. IsInjective(ran) /\ ToSet(ran) = Phases
      BY <3>3, OnceAll
    <3>5. DOMAIN ran = 1..Len(ran)
      BY <3>3 DEF Once
    <3>6. ASSUME NEW i \in DOMAIN ran, NEW j \in DOMAIN ran,
                 ran[i] = "render", StageOf(ran[j]) = "audit"
          PROVE  i < j
      <4>1. Rank(ran[i]) = 2 /\ Rank(ran[j]) = 3
        BY <3>6, RankFacts
      <4>2. ~(j < i)
        BY <3>1, <3>5, <4>1 DEF PipeAt
      <4>3. i # j
        BY <4>1
      <4> QED
        BY <3>5, <4>2, <4>3
    <3> QED
      BY <3>4, <3>6 DEF ran
  <2> QED
    BY <2>1, <2>2 DEF EachPhaseOnce, Runners
<1> QED
  BY <1>1, RunnerInvAlways, PTL

(* A verdict on a list of findings is one on each phase's.                 *)
LEMMA PassedByPhase ==
  ASSUME NEW rep, rep.findings \in Seq(Finding)
  PROVE  Passed(rep) <=>
           \A p \in Phases : LET mine == Of(rep.findings, p)
                             IN  \A i \in 1..Len(mine) : ~Blocks(mine[i])
<1> DEFINE found == rep.findings
           S(p) == {i \in DOMAIN found : found[i].phase = p}
<1>1. Passed(rep) <=> \A i \in 1..Len(found) : ~Blocks(found[i])
  BY DEF Passed
<1>3. found \in Seq(Finding)
  OBVIOUS
<1> HIDE DEF found
<1>2. \A i \in 1..Len(found) : found[i].phase \in Phases
  <2>1. \A i \in 1..Len(found) : found[i] \in Finding
    BY <1>3
  <2> QED
    BY <2>1 DEF Finding
<1>4. ASSUME NEW p \in Phases
      PROVE  (\A i \in 1..Len(Of(found, p)) : ~Blocks(Of(found, p)[i]))
               <=> (\A i \in 1..Len(found) : found[i].phase = p => ~Blocks(found[i]))
  <2> DEFINE T == S(p)  N == Cardinality(T)
  <2>1. /\ T \in SUBSET (1..Len(found)) /\ \A i \in 1..Len(found) : i \in T <=> found[i].phase = p
        /\ Of(found, p) = Picked(found, T)
    BY <1>3 DEF Of
  <2> HIDE DEF T
  <2>2. /\ Len(Picked(found, T)) = N /\ Upwards(T) \in [1..N -> T]
        /\ \A k \in 1..N : Picked(found, T)[k] = found[Upwards(T)[k]]
        /\ \A i \in T : \E k \in 1..N : Upwards(T)[k] = i
    BY <1>3, <2>1, PickedFacts
  <2>3. DOMAIN Picked(found, T) = 1..N /\ \A k \in 1..N : Upwards(T)[k] \in T
    BY <2>2
  <2>4. ASSUME \A i \in 1..N : ~Blocks(Picked(found, T)[i]), NEW i \in 1..Len(found),
               found[i].phase = p
        PROVE  ~Blocks(found[i])
    <3>1. PICK k \in 1..N : Upwards(T)[k] = i
      BY <2>1, <2>2, <2>4
    <3>2. Picked(found, T)[k] = found[i]
      BY <2>2, <3>1
    <3> QED
      BY <2>4, <3>2
  <2>5. ASSUME \A i \in 1..Len(found) : found[i].phase = p => ~Blocks(found[i]), NEW k \in 1..N
        PROVE  ~Blocks(Picked(found, T)[k])
    <3>1. Upwards(T)[k] \in 1..Len(found) /\ found[Upwards(T)[k]].phase = p
      BY <2>1, <2>3
    <3>2. ~Blocks(found[Upwards(T)[k]])
      BY <2>5, <3>1
    <3> QED
      BY <2>2, <3>2
  <2> QED
    BY <2>1, <2>2, <2>4, <2>5
<1>5. (\A p \in Phases : \A i \in 1..Len(Of(found, p)) : ~Blocks(Of(found, p)[i]))
        <=> \A i \in 1..Len(found) : ~Blocks(found[i])
  BY <1>2, <1>4
<1> QED
  BY <1>1, <1>5 DEF found

(* On a site without a [strict] policy the loop and the pipeline report    *)
(* the same findings of every phase and give the same verdict, and either  *)
(* fails where the other does.                                             *)
THEOREM RunnersAgreeCorrect == RunnerSpec => []RunnersAgree
<1>1. RunnerInv => RunnersAgree
  <2> SUFFICES ASSUME RunnerInv, policy = [promote |-> {}, exempt |-> {}] PROVE RunnersAgree
    BY DEF RunnersAgree
  <2> DEFINE flat == reports["flat"]  pipe == reports["pipeline"]
  <2>1. policy.promote = {} /\ policy.exempt = {}
    OBVIOUS
  <2>2. Ended("flat") => FlatAt(flat, <<>>, KeptOf, site)
    BY RunnerNow DEF Ended
  <2>3. Ended("pipeline") => PipeAt(3, pipe.findings, pipe.ran, <<>>, site)
    BY RunnerNow DEF Ended
  <2> HIDE DEF flat, pipe
  <2>4. ASSUME Ended("flat")
        PROVE  \A p \in Phases : site[p] # Err /\ Of(flat.findings, p) = KeptOf[p]
    BY <2>2, <2>4, Nothing DEF FlatAt, Reported, Has
  <2>5. ASSUME Ended("pipeline")
        PROVE  \A p \in Phases : site[p] # Err /\ Of(pipe.findings, p) = site[p]
    <3>1. \A p \in Phases : Rank(p) <= 3
      BY RankFacts
    <3> QED
      BY <2>3, <2>5, <3>1, Nothing DEF PipeAt, Reported, Has
  <2>6. ASSUME Ended("flat"), Ended("pipeline")
        PROVE  /\ \A p \in Phases : Findings(flat, p) = Findings(pipe, p)
               /\ Passed(flat) = Passed(pipe)
    <3>1. \A p \in Phases : Of(flat.findings, p) = Of(pipe.findings, p)
      <4> SUFFICES ASSUME NEW p \in Phases PROVE KeptOf[p] = site[p]
        BY <2>4, <2>5, <2>6
      <4>1. site[p] # Err
        BY <2>4, <2>6
      <4>2. /\ site[p] \in Seq(Finding) /\ \A i \in DOMAIN site[p] : site[p][i].phase = p
            /\ KeptOf[p] = Kept(site[p])
        BY <4>1, SiteFacts DEF RunnerInv
      <4> QED
        BY <2>1, <4>2, KeptFacts
    <3>2. flat.findings \in Seq(Finding) /\ pipe.findings \in Seq(Finding)
      BY <2>2, <2>3, <2>6 DEF FlatAt, PipeAt, Reported
    <3>3. Passed(flat) <=> Passed(pipe)
      BY <3>1, <3>2, PassedByPhase
    <3>4. Passed(flat) \in BOOLEAN /\ Passed(pipe) \in BOOLEAN
      BY DEF Passed
    <3> QED
      BY <3>1, <3>3, <3>4 DEF Findings, Of
  <2>7. ASSUME run.runner = "none", Err \in {reports[r] : r \in Runners}
        PROVE  \A r \in Runners : reports[r] \in {NoReport, Err}
    <3>1. \E p \in Phases : site[p] = Err
      BY <2>7, RunnerNow
    <3>2. ~Ended("flat") /\ ~Ended("pipeline")
      BY <2>4, <2>5, <3>1
    <3> QED
      BY <2>7, <3>2 DEF Ended, Runners
  <2> QED
    BY <2>6, <2>7 DEF RunnersAgree, flat, pipe
<1> QED
  BY <1>1, RunnerInvAlways, PTL

(* The tally by phase has a row for every strict finding: the positions of *)
(* the strict findings and the rows of the phases are as many.             *)
LEMMA TallyAddsUp ==
  ASSUME NEW rep, rep.findings \in Seq(Finding)
  PROVE  LET tally == Tally(rep)
         IN  Cardinality(WithSeverity(rep.findings, "strict")) =
               Cardinality(UNION {{p} \X (1..tally[p].strict_count) : p \in DOMAIN tally})
<1> DEFINE found == rep.findings  tally == Tally(rep)
           N == Len(found)
           All == WithSeverity(found, "strict")
           Mine(p) == {i \in DOMAIN found : found[i].phase = p} \intersect All
           Named == {found[i].phase : i \in DOMAIN found}
           Rows == UNION {{p} \X (1..tally[p].strict_count) : p \in DOMAIN tally}
<1>1. found \in Seq(Finding) /\ N \in Nat /\ DOMAIN found = 1..N
  OBVIOUS
<1>2. /\ DOMAIN tally = Named
      /\ \A p \in Named : tally[p].strict_count = Cardinality(Mine(p))
  BY DEF Tally
<1> HIDE DEF found, tally
<1>3. /\ All \in SUBSET (1..N)
      /\ \A p : Mine(p) \in SUBSET (1..N)
      /\ \A p : \A i \in 1..N : i \in Mine(p) <=> i \in All /\ found[i].phase = p
      /\ \A i \in 1..N : found[i].phase \in Named
  BY <1>1 DEF WithSeverity
<1> HIDE DEF All, Mine, Named, N
<1>4. \A p : /\ IsFiniteSet(Mine(p)) /\ Cardinality(Mine(p)) \in 0..N
             /\ Upwards(Mine(p)) \in [1..Cardinality(Mine(p)) -> Mine(p)]
             /\ \A i \in Mine(p) : \E k \in 1..Cardinality(Mine(p)) : Upwards(Mine(p))[k] = i
             /\ \A k, l \in 1..Cardinality(Mine(p)) :
                  k < l <=> Upwards(Mine(p))[k] < Upwards(Mine(p))[l]
  BY <1>1, <1>3, UpwardsFacts
<1> DEFINE Card(p) == Cardinality(Mine(p))  Up(p) == Upwards(Mine(p))
           f == [x \in Rows |-> Up(x[1])[x[2]]]
<1>5. \A p \in Named : Card(p) \in Nat /\ tally[p].strict_count = Card(p)
  BY <1>1, <1>2, <1>4
<1>6. \A x : x \in Rows <=> \E p \in Named : \E k \in 1..Card(p) : x = <<p, k>>
  BY <1>2, <1>5
<1>7. \A p : \A k \in 1..Card(p) : Up(p)[k] \in Mine(p)
  BY <1>4
<1>8. \A p : \A i \in Mine(p) : \E k \in 1..Card(p) : Up(p)[k] = i
  BY <1>4
<1>9. \A p : \A k, l \in 1..Card(p) : Up(p)[k] = Up(p)[l] => k = l
  <2> SUFFICES ASSUME NEW p, NEW k \in 1..Card(p), NEW l \in 1..Card(p), Up(p)[k] = Up(p)[l]
               PROVE  k = l
    OBVIOUS
  <2>1. Up(p)[k] \in Nat /\ Up(p)[l] \in Nat /\ Card(p) \in Nat
    BY <1>1, <1>3, <1>4, <1>7
  <2>2. (k < l <=> Up(p)[k] < Up(p)[l]) /\ (l < k <=> Up(p)[l] < Up(p)[k])
    BY <1>4
  <2> QED
    BY <2>1, <2>2
<1> HIDE DEF Card, Up, Rows, f
<1>10. \A p \in Named : \A k \in 1..Card(p) : <<p, k>> \in Rows /\ f[<<p, k>>] = Up(p)[k]
  BY <1>6 DEF f
<1>11. \A x \in Rows : f[x] \in All
  BY <1>3, <1>6, <1>7, <1>10
<1>12. f \in [Rows -> All]
  BY <1>11 DEF f
<1>13. ASSUME NEW x \in Rows, NEW y \in Rows, f[x] = f[y] PROVE x = y
  <2>1. PICK p \in Named : \E k \in 1..Card(p) : x = <<p, k>>
    BY <1>6
  <2>5. PICK k \in 1..Card(p) : x = <<p, k>>
    BY <2>1
  <2>6. PICK q \in Named : \E l \in 1..Card(q) : y = <<q, l>>
    BY <1>6
  <2>2. PICK l \in 1..Card(q) : y = <<q, l>>
    BY <2>6
  <2>3. Up(p)[k] = Up(q)[l] /\ Up(p)[k] \in Mine(p) /\ Up(q)[l] \in Mine(q)
    BY <1>7, <1>10, <1>13, <2>5, <2>2
  <2>4. p = q
    BY <1>3, <2>3
  <2> QED
    BY <1>9, <2>2, <2>3, <2>4, <2>5
<1>14. ASSUME NEW i \in All PROVE \E x \in Rows : f[x] = i
  <2>1. i \in 1..N /\ found[i].phase \in Named /\ i \in Mine(found[i].phase)
    BY <1>3
  <2>2. PICK k \in 1..Card(found[i].phase) : Up(found[i].phase)[k] = i
    BY <1>8, <2>1
  <2> QED
    BY <1>10, <2>1, <2>2
<1>15. f \in Bijection(Rows, All)
  BY <1>12, <1>13, <1>14, Fun_IsBij
<1>16. ExistsBijection(All, Rows)
  BY <1>15, Fun_ExistsBijSymmetric DEF ExistsBijection
<1>17. IsFiniteSet(All)
  BY <1>1, <1>3, UpwardsFacts
<1>18. Cardinality(Rows) = Cardinality(All)
  BY <1>16, <1>17, FS_Bijection
<1> QED
  BY <1>18 DEF All, Rows, found, tally

(* A finding counts as strict or as a warning.                             *)
LEMMA SeveritiesAddUp ==
  ASSUME NEW found \in Seq(Finding)
  PROVE  Cardinality(WithSeverity(found, "strict")) + Cardinality(WithSeverity(found, "warn"))
           = Len(found)
<1> DEFINE A == WithSeverity(found, "strict")  B == WithSeverity(found, "warn")
<1>1. \A i \in 1..Len(found) : found[i] \in Finding
  OBVIOUS
<1>2. \A i \in 1..Len(found) : found[i].severity \in {"strict", "warn"}
  BY <1>1 DEF Finding
<1>3. A \union B = 1..Len(found) /\ \A i \in A : i \notin B
  BY <1>2 DEF WithSeverity
<1> HIDE DEF A, B
<1>4. IsFiniteSet(1..Len(found)) /\ Cardinality(1..Len(found)) = Len(found)
  <2>1. Len(found) \in Nat
    OBVIOUS
  <2>2. \A n \in Nat : IsFiniteSet(1..n) /\ Cardinality(1..n) = n
    BY FS_Interval
  <2> QED
    BY <2>1, <2>2
<1>5. Cardinality(A \union B) = Cardinality(A) + Cardinality(B)
  BY <1>3, <1>4, SplitInTwo
<1> QED
  BY <1>3, <1>4, <1>5 DEF A, B

(* What the flat loop reports of a phase is what the phase found, without  *)
(* what is exempt, and strict where the phase is promoted and no exemption *)
(* is set; the counters and the tally account for every finding.           *)
THEOREM PolicyIsAppliedCorrect == RunnerSpec => []PolicyIsApplied
<1>1. RunnerInv => PolicyIsApplied
  <2> SUFFICES ASSUME RunnerInv, Ended("flat") PROVE PolicyIsApplied
    BY DEF PolicyIsApplied
  <2> DEFINE rep == reports["flat"]
  <2>1. FlatAt(rep, <<>>, KeptOf, site)
    BY RunnerNow DEF Ended
  <2> HIDE DEF rep
  <2>2. rep \in Report /\ rep.findings \in Seq(Finding)
    BY <2>1 DEF FlatAt, Report
  <2>3. \A p \in Phases : site[p] # Err /\ Findings(rep, p) = KeptOf[p]
    BY <2>1, Nothing DEF FlatAt, Reported, Has, Findings, Of
  <2>4. ASSUME NEW p \in Phases
        PROVE  /\ Len(Findings(rep, p)) =
                    Cardinality({i \in DOMAIN site[p] : <<p, site[p][i].rule>> \notin policy.exempt})
               /\ policy.exempt = {} /\ p \in policy.promote =>
                    \A i \in DOMAIN Findings(rep, p) : Findings(rep, p)[i].severity = "strict"
    <3>1. /\ site[p] \in Seq(Finding) /\ \A i \in DOMAIN site[p] : site[p][i].phase = p
          /\ KeptOf[p] = Kept(site[p])
      BY <2>3, SiteFacts DEF RunnerInv
    <3>2. policy.exempt = {} /\ p \in policy.promote => Promoted(p)
      BY DEF Promoted
    <3>3. Findings(rep, p) = Kept(site[p])
      BY <2>3, <3>1
    <3>4. /\ Len(Kept(site[p])) = Cardinality({i \in DOMAIN site[p] : <<p, site[p][i].rule>> \notin policy.exempt})
          /\ Promoted(p) => \A i \in DOMAIN Kept(site[p]) : Kept(site[p])[i].severity = "strict"
      BY <3>1, KeptFacts
    <3> QED
      BY <3>2, <3>3, <3>4
  <2>5. rep.strict_count + rep.warn_count = Len(rep.findings)
    BY <2>1, <2>2, SeveritiesAddUp DEF FlatAt
  <2>6. LET tally == Tally(rep)
        IN  rep.strict_count =
              Cardinality(UNION {{p} \X (1..tally[p].strict_count) : p \in DOMAIN tally})
    <3>1. rep.strict_count = Cardinality(WithSeverity(rep.findings, "strict"))
      BY <2>1 DEF FlatAt
    <3> QED
      BY <2>2, <3>1, TallyAddsUp
  <2> QED
    BY <2>4, <2>5, <2>6 DEF PolicyIsApplied, rep
<1> QED
  BY <1>1, RunnerInvAlways, PTL

-----------------------------------------------------------------------------
(* MCMachines.                                                             *)

(* The fields a step of one part leaves alone are all of the others'.      *)
LEMMA OnlyOnePartSteps ==
  ASSUME [MachinesNext]_machineVars
  PROVE  /\ [Next]_vars /\ [CacheNext]_ctxVars /\ [LogNext]_logVars /\ [FailOver]_drVars
         /\ [AiNext]_aiVars /\ [PayNext]_payVars /\ [HostNext]_hostVars /\ [BriefNext]_briefVars
         /\ [IdNext]_idVars /\ [RunnerNext]_runnerVars /\ [FilesNext]_filesVars
  BY DEF MachinesNext, machineVars, Only

(* The run of MCMachines is a run of each part: what is proved of a part   *)
(* holds of the states TLC visits, and the parts leave each other alone.   *)
THEOREM MachinesRunTheirParts ==
  MachinesSpec => /\ Spec /\ CacheSpec /\ LogSpec /\ RecoverySpec /\ AiSpec /\ PaySpec
                  /\ HostSpec /\ BriefSpec /\ IdSpec /\ RunnerSpec /\ FilesSpec
<1>1. MachinesInit => /\ Init /\ CacheInit /\ LogInit /\ RecoveryInit /\ AiInit /\ PayInit
                      /\ HostInit /\ BriefInit /\ IdInit /\ RunnerInit /\ FilesInit
  BY DEF MachinesInit
<1>2. [MachinesNext]_machineVars =>
        /\ [Next]_vars /\ [CacheNext]_ctxVars /\ [LogNext]_logVars /\ [FailOver]_drVars
        /\ [AiNext]_aiVars /\ [PayNext]_payVars /\ [HostNext]_hostVars /\ [BriefNext]_briefVars
        /\ [IdNext]_idVars /\ [RunnerNext]_runnerVars /\ [FilesNext]_filesVars
  BY OnlyOnePartSteps
<1> QED
  BY <1>1, <1>2, PTL DEF MachinesSpec, Spec, CacheSpec, LogSpec, RecoverySpec, AiSpec, PaySpec,
     HostSpec, BriefSpec, IdSpec, RunnerSpec, FilesSpec

(* The state of every part has its type, whichever of them runs.           *)
THEOREM PartsTypeCorrect == MachinesSpec => []PartsTypeOK
<1>1. CacheSpec => []CacheTypeOK
  BY CacheTypeCorrect, PartsAssumption
<1>2. CacheTypeOK /\ LogTypeOK /\ RecoveryTypeOK /\ AiTypeOK /\ PayTypeOK /\ HostTypeOK
        /\ BriefTypeOK /\ IdTypeOK /\ RunnerTypeOK /\ FilesTypeOK => PartsTypeOK
  BY DEF PartsTypeOK
<1> QED
  BY <1>1, <1>2, MachinesRunTheirParts, LogTypeCorrect, RecoveryTypeCorrect, AiTypeCorrect,
     PayTypeCorrect, HostTypeCorrect, BriefTypeCorrect, IdTypeCorrect, RunnerTypeCorrect,
     FilesTypeCorrect, PTL
=============================================================================
