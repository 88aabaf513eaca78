-------------------------- MODULE Retrieval_proofs --------------------------
(***************************************************************************)
(* Retrieval, for any documents, words and numbers of hits: the orders of  *)
(* hits lose and repeat nothing, whatever ranking a language model gives,  *)
(* so what an answer names as its sources is what was found.               *)
(***************************************************************************)
EXTENDS Retrieval, SequenceTheorems, FiniteSetTheorems, FunctionTheorems,
        WellFoundedInduction, TLAPS

-----------------------------------------------------------------------------
(* Orders.                                                                 *)

(* A nonempty set of numbers has a least one.                              *)
LEMMA LeastNumber ==
  ASSUME NEW T \in SUBSET Nat, T # {}
  PROVE  \E x \in T : \A y \in T : x <= y
<1>1. PICK x \in T : \A y \in T : ~(<<y, x>> \in OpToRel(<, Nat))
  BY NatLessThanWellFounded, WFMin
<1>2. ASSUME NEW y \in T, y < x
      PROVE  FALSE
  <2>1. <<y, x>> \in Nat \X Nat /\ <<y, x>>[1] < <<y, x>>[2]
    BY <1>2
  <2>2. <<y, x>> \in OpToRel(<, Nat)
    BY <2>1 DEF OpToRel
  <2> QED
    BY <1>1, <2>2
<1> QED
  BY <1>2

\* The keys of one order: sequences of numbers, all of the same length.
Keys(m) == [1..m -> Int]

(* Of two different keys one precedes the other.                           *)
LEMMA KeysCompare ==
  ASSUME NEW m \in Nat, NEW k \in Keys(m), NEW l \in Keys(m), k # l
  PROVE  Precedes(k, l) \/ Precedes(l, k)
<1> DEFINE D == {i \in 1..m : k[i] # l[i]}
<1>1. DOMAIN k = 1..m /\ DOMAIN l = 1..m /\ \A i \in 1..m : k[i] \in Int /\ l[i] \in Int
  BY DEF Keys
<1>2. D # {}
  BY DEF Keys
<1>3. PICK i \in D : \A j \in D : i <= j
  <2>1. D \in SUBSET Nat
    OBVIOUS
  <2> HIDE DEF D
  <2> QED
    BY <1>2, <2>1, LeastNumber
<1>4. i \in 1..m /\ k[i] # l[i]
  OBVIOUS
<1>5. ASSUME NEW j \in 1..i - 1
      PROVE  k[j] = l[j]
  <2>1. j \in 1..m /\ ~(i <= j)
    BY <1>4
  <2> QED
    BY <1>3, <2>1
<1>6. k[i] < l[i] \/ l[i] < k[i]
  BY <1>1, <1>4
<1> QED
  BY <1>1, <1>4, <1>5, <1>6 DEF Precedes

(* No key precedes itself, and to precede is transitive.                   *)
LEMMA KeysOrdered ==
  ASSUME NEW m \in Nat, NEW k \in Keys(m), NEW l \in Keys(m), NEW o \in Keys(m)
  PROVE  /\ ~Precedes(k, k)
         /\ Precedes(k, l) /\ Precedes(l, o) => Precedes(k, o)
<1>1. /\ DOMAIN k = 1..m /\ DOMAIN l = 1..m /\ DOMAIN o = 1..m
      /\ \A i \in 1..m : k[i] \in Int /\ l[i] \in Int /\ o[i] \in Int
  BY DEF Keys
<1>2. ~Precedes(k, k)
  BY <1>1 DEF Precedes
<1>3. ASSUME Precedes(k, l), Precedes(l, o)
      PROVE  Precedes(k, o)
  <2>1. PICK i \in 1..m : k[i] < l[i] /\ \A x \in 1..i - 1 : k[x] = l[x]
    BY <1>1, <1>3 DEF Precedes
  <2>2. PICK j \in 1..m : l[j] < o[j] /\ \A x \in 1..j - 1 : l[x] = o[x]
    BY <1>1, <1>3 DEF Precedes
  <2>3. CASE i < j
    <3>1. i \in 1..j - 1 /\ \A x \in 1..i - 1 : x \in 1..j - 1
      BY <2>3
    <3>2. k[i] < o[i] /\ \A x \in 1..i - 1 : k[x] = o[x]
      BY <2>1, <2>2, <3>1
    <3> QED
      BY <1>1, <3>2 DEF Precedes
  <2>4. CASE i = j
    <3>1. k[i] < o[i]
      BY <1>1, <2>1, <2>2, <2>4
    <3>2. \A x \in 1..i - 1 : k[x] = o[x]
      BY <2>1, <2>2, <2>4
    <3> QED
      BY <1>1, <3>1, <3>2 DEF Precedes
  <2>5. CASE j < i
    <3>1. j \in 1..i - 1 /\ \A x \in 1..j - 1 : x \in 1..i - 1
      BY <2>5
    <3>2. k[j] < o[j] /\ \A x \in 1..j - 1 : k[x] = o[x]
      BY <2>1, <2>2, <3>1
    <3> QED
      BY <1>1, <3>2 DEF Precedes
  <2> QED
    BY <2>3, <2>4, <2>5
<1> QED
  BY <1>2, <1>3

\* Every element of I has exactly one place.
Enumerates(at, I) ==
  /\ Cardinality(I) \in Nat
  /\ at \in [1..Cardinality(I) -> I]
  /\ \A n, k \in 1..Cardinality(I) : n # k => at[n] # at[k]
  /\ \A i \in I : \E n \in 1..Cardinality(I) : at[n] = i

(***************************************************************************)
(* A set in the order of different keys has every element at one place:    *)
(* what precedes an element are fewer than precede a later one.            *)
(***************************************************************************)
LEMMA InOrderIs ==
  ASSUME NEW I, IsFiniteSet(I), NEW m \in Nat, NEW key \in [I -> Keys(m)],
         \A i, j \in I : i # j => key[i] # key[j]
  PROVE  Enumerates(InOrder(I, key), I)
<1> DEFINE n == Cardinality(I)
           below(i) == {j \in I : Precedes(key[j], key[i])}
           rank == [i \in I |-> Cardinality(below(i))]
           at == InOrder(I, key)
<1>1. n \in Nat
  BY FS_CardinalityType
<1>2. \A i \in I : key[i] \in Keys(m)
  OBVIOUS
<1>3. ASSUME NEW i \in I
      PROVE  rank[i] \in 0..n - 1
  <2>1. below(i) \subseteq I /\ i \notin below(i)
    BY <1>2, KeysOrdered
  <2>2. IsFiniteSet(below(i)) /\ Cardinality(below(i)) <= n
        /\ (Cardinality(below(i)) = n => below(i) = I)
    BY <2>1, FS_Subset
  <2>3. Cardinality(below(i)) \in Nat
    BY <2>2, FS_CardinalityType
  <2>4. Cardinality(below(i)) # n
    BY <2>1, <2>2
  <2> QED
    BY <1>1, <2>2, <2>3, <2>4
<1>4. ASSUME NEW i \in I, NEW j \in I, Precedes(key[i], key[j])
      PROVE  rank[i] # rank[j]
  <2>1. below(i) \subseteq below(j)
    BY <1>2, <1>4, KeysOrdered
  <2>2. i \in below(j) /\ i \notin below(i)
    BY <1>2, <1>4, KeysOrdered
  <2>3. IsFiniteSet(below(j))
    BY FS_Subset
  <2>4. Cardinality(below(i)) = Cardinality(below(j)) => below(i) = below(j)
    BY <2>1, <2>3, FS_Subset
  <2> QED
    BY <2>2, <2>4
<1>5. \A i, j \in I : rank[i] = rank[j] => i = j
  <2> SUFFICES ASSUME NEW i \in I, NEW j \in I, i # j
               PROVE  rank[i] # rank[j]
    OBVIOUS
  <2>1. Precedes(key[i], key[j]) \/ Precedes(key[j], key[i])
    BY <1>2, KeysCompare
  <2> QED
    BY <1>4, <2>1
<1>6. rank \in Injection(I, 0..n - 1)
  BY <1>3, <1>5 DEF Injection, IsInjective
<1>7. IsFiniteSet(0..n - 1) /\ Cardinality(0..n - 1) = n
  <2> DEFINE top == n - 1
  <2>1. 0 \in Int /\ top \in Int
    BY <1>1
  <2> HIDE DEF top
  <2>2. IsFiniteSet(0..top) /\ Cardinality(0..top) = IF 0 > top THEN 0 ELSE top - 0 + 1
    BY ONLY <2>1, FS_Interval
  <2>3. top = n - 1
    BY DEF top
  <2> HIDE DEF n
  <2>4. Cardinality(0..top) = n
    BY ONLY <1>1, <2>2, <2>3
  <2> QED
    BY ONLY <2>2, <2>3, <2>4
<1>8. rank \in Surjection(I, 0..n - 1)
  BY <1>6, <1>7, FS_Injection
<1>9. \A k \in 1..n : \E i \in I : rank[i] = k - 1
  <2> HIDE DEF rank
  <2>1. \A y \in 0..n - 1 : \E i \in I : rank[i] = y
    BY <1>8 DEF Surjection
  <2>2. \A k \in 1..n : k - 1 \in 0..n - 1
    BY <1>1
  <2> QED
    BY <2>1, <2>2
<1>10. ASSUME NEW k \in 1..n
       PROVE  at[k] \in I /\ rank[at[k]] = k - 1
  <2>1. at[k] = CHOOSE i \in I : rank[i] = k - 1
    BY DEF InOrder
  <2> QED
    BY <2>1, <1>9
<1>11. at \in [1..n -> I]
  BY <1>10 DEF InOrder
<1>12. ASSUME NEW k \in 1..n, NEW l \in 1..n, k # l
       PROVE  at[k] # at[l]
  <2>1. k - 1 # l - 1
    BY <1>1, <1>12
  <2>2. rank[at[k]] = k - 1 /\ rank[at[l]] = l - 1
    BY <1>10
  <2> HIDE DEF at, rank
  <2> QED
    BY <2>1, <2>2
<1>13. ASSUME NEW i \in I
       PROVE  \E k \in 1..n : at[k] = i
  <2>1. rank[i] + 1 \in 1..n /\ (rank[i] + 1) - 1 = rank[i]
    BY <1>1, <1>3
  <2>2. at[rank[i] + 1] \in I /\ rank[at[rank[i] + 1]] = rank[i]
    BY <1>10, <2>1
  <2> QED
    BY <1>5, <2>1, <2>2
<1> QED
  BY <1>1, <1>11, <1>12, <1>13 DEF Enumerates

-----------------------------------------------------------------------------
(* Sequences in an order.                                                  *)

\* Finitely many numbers: places of a sequence.
Places(I) == IsFiniteSet(I) /\ I \in SUBSET Nat

\* Some of the numbers of a sequence are places.
LEMMA SomePlaces ==
  ASSUME NEW n \in Nat, NEW I \in SUBSET (1..n)
  PROVE  Places(I)
<1>1. 1 \in Int /\ n \in Int
  OBVIOUS
<1>2. IsFiniteSet(1..n)
  BY <1>1, FS_Interval
<1>3. IsFiniteSet(I)
  BY <1>2, FS_Subset
<1> QED
  BY <1>3 DEF Places

\* Places in the order of their numbers.
LEMMA PlacesAre ==
  ASSUME NEW I, Places(I)
  PROVE  Enumerates(InOrder(I, [i \in I |-> <<i>>]), I)
<1> DEFINE key == [i \in I |-> <<i>>]
<1>1. IsFiniteSet(I) /\ I \in SUBSET Nat
  BY DEF Places
<1>2. ASSUME NEW i \in I
      PROVE  key[i] \in Keys(1) /\ key[i][1] = i
  <2>1. i \in Int /\ key[i] = <<i>>
    BY <1>1
  <2>2. <<i>> \in [1..1 -> Int] /\ <<i>>[1] = i
    BY <2>1
  <2> QED
    BY <2>1, <2>2 DEF Keys
<1>3. DOMAIN key = I /\ key = [i \in I |-> key[i]]
  OBVIOUS
<1>4. 1 \in Nat
  OBVIOUS
<1>5. Enumerates(InOrder(I, key), I)
  <2> HIDE DEF key
  <2>1. key \in [I -> Keys(1)]
    BY <1>2, <1>3
  <2>2. \A i, j \in I : i # j => key[i] # key[j]
    BY <1>2
  <2> QED
    BY <1>1, <1>4, <2>1, <2>2, InOrderIs
<1> QED
  BY <1>5

\* What is picked of a sequence: the elements at the places given, each once.
PickOf(r, s, I) == \E at : Enumerates(at, I) /\ r = [k \in 1..Cardinality(I) |-> s[at[k]]]

\* What is picked is that.
LEMMA PickedIs ==
  ASSUME NEW s, NEW I, Places(I)
  PROVE  PickOf(Picked(s, I), s, I)
<1> DEFINE at == InOrder(I, [i \in I |-> <<i>>])
<1>1. Enumerates(at, I)
  BY PlacesAre
<1>2. Picked(s, I) = [k \in DOMAIN at |-> s[at[k]]]
  BY DEF Picked, At
<1> HIDE DEF at
<1>3. DOMAIN at = 1..Cardinality(I)
  BY <1>1 DEF Enumerates
<1> QED
  BY <1>1, <1>2, <1>3 DEF PickOf

\* If all of it is of some set, what is picked is a sequence over it.
LEMMA PickedType ==
  ASSUME NEW s, NEW I, Places(I), NEW S, \A i \in I : s[i] \in S
  PROVE  Picked(s, I) \in Seq(S)
<1>1. PickOf(Picked(s, I), s, I)
  BY PickedIs
<1>2. PICK at : Enumerates(at, I) /\ Picked(s, I) = [k \in 1..Cardinality(I) |-> s[at[k]]]
  BY <1>1 DEF PickOf
<1>3. Cardinality(I) \in Nat /\ \A k \in 1..Cardinality(I) : at[k] \in I
  BY <1>2 DEF Enumerates
<1>4. \A k \in 1..Cardinality(I) : s[at[k]] \in S
  BY <1>3
<1>5. [k \in 1..Cardinality(I) |-> s[at[k]]] \in Seq(S)
  BY <1>3, <1>4
<1> QED
  BY <1>2, <1>5

(***************************************************************************)
(* Sorting by keys, and ordering by different keys, keeps what is there.   *)
(***************************************************************************)
LEMMA OrderedIs ==
  ASSUME NEW S, NEW s \in Seq(S), NEW at, Enumerates(at, DOMAIN s)
  PROVE  At(s, at) \in Seq(S) /\ Len(At(s, at)) = Len(s) /\ Range(At(s, at)) = Range(s)
<1> DEFINE n == Len(s)
           r == At(s, at)
<1>1. n \in Nat /\ DOMAIN s = 1..n
  OBVIOUS
<1>2. Cardinality(1..n) = n
  <2>1. 1 \in Int /\ n \in Int
    BY <1>1
  <2>2. Cardinality(1..n) = IF 1 > n THEN 0 ELSE n - 1 + 1
    BY <2>1, FS_Interval
  <2> QED
    BY <1>1, <2>2
<1>3. at \in [1..n -> 1..n] /\ \A i \in 1..n : \E k \in 1..n : at[k] = i
  BY <1>1, <1>2 DEF Enumerates
<1>4. r = [k \in 1..n |-> s[at[k]]]
  BY <1>3 DEF At
<1>5. ASSUME NEW k \in 1..n
      PROVE  s[at[k]] \in S
  <2>1. at[k] \in 1..n
    BY ONLY <1>3
  <2>2. s \in [1..n -> S]
    BY <1>1
  <2> QED
    BY ONLY <2>1, <2>2
<1>6. r \in Seq(S) /\ Len(r) = n
  BY <1>1, <1>4, <1>5
<1>7. DOMAIN r = 1..n
  BY <1>4
<1>8. Range(r) = Range(s)
  <2>1. \A k \in 1..n : at[k] \in 1..n /\ r[k] = s[at[k]]
    BY <1>3, <1>4
  <2> HIDE DEF r
  <2>2. \A k \in DOMAIN r : r[k] \in Range(s)
    BY <1>1, <1>7, <2>1 DEF Range
  <2>3. \A i \in DOMAIN s : s[i] \in Range(r)
    BY <1>1, <1>3, <1>7, <2>1 DEF Range
  <2> QED
    BY <2>2, <2>3 DEF Range
<1> QED
  BY <1>6, <1>8

\* A sorted sequence has as many elements as before, and the same ones.
LEMMA SortedIs ==
  ASSUME NEW S, NEW s \in Seq(S), NEW m \in Nat, NEW key \in [DOMAIN s -> Keys(m)]
  PROVE  Sorted(s, key) \in Seq(S) /\ Len(Sorted(s, key)) = Len(s)
         /\ Range(Sorted(s, key)) = Range(s)
<1> DEFINE I    == DOMAIN s
           full == [i \in I |-> Append(key[i], i)]
           at   == InOrder(I, full)
<1>1. I = 1..Len(s) /\ Len(s) \in Nat
  OBVIOUS
<1>2. IsFiniteSet(I)
  <2>1. 1 \in Int /\ Len(s) \in Int
    BY <1>1
  <2>2. IsFiniteSet(1..Len(s))
    BY <2>1, FS_Interval
  <2> QED
    BY <1>1, <2>2
<1>3. ASSUME NEW i \in I
      PROVE  full[i] \in Keys(m + 1) /\ full[i][m + 1] = i
  <2>1. key[i] \in Keys(m)
    OBVIOUS
  <2>2. key[i] \in Seq(Int) /\ Len(key[i]) = m
    BY <2>1 DEF Keys
  <2>3. i \in Int
    BY <1>1
  <2>4. /\ Append(key[i], i) \in Seq(Int) /\ Len(Append(key[i], i)) = m + 1
        /\ Append(key[i], i)[m + 1] = i
    BY <2>2, <2>3, AppendProperties
  <2>5. Append(key[i], i) \in [1..m + 1 -> Int]
    BY <2>4, LenProperties
  <2> QED
    BY <2>4, <2>5 DEF Keys
<1>4. full \in [I -> Keys(m + 1)]
  BY <1>3
<1>5. \A i, j \in I : i # j => full[i] # full[j]
  BY <1>3
<1>6. m + 1 \in Nat
  OBVIOUS
<1>7. Sorted(s, key) = At(s, at)
  BY DEF Sorted
<1> HIDE DEF full
<1>8. Enumerates(at, I)
  BY <1>2, <1>4, <1>5, <1>6, InOrderIs
<1> HIDE DEF at
<1> QED
  BY <1>7, <1>8, OrderedIs

\* Of the first few there are no more than asked for.
LEMMA FirstFewIs ==
  ASSUME NEW S, NEW s \in Seq(S), NEW n \in Nat
  PROVE  FirstFew(s, n) \in Seq(S) /\ Len(FirstFew(s, n)) <= n
<1>1. Len(s) \in Nat
  OBVIOUS
<1>2. Min({n, Len(s)}) \in 0..Len(s) /\ Min({n, Len(s)}) <= n
  BY <1>1 DEF Min
<1> DEFINE m == Min({n, Len(s)})
<1>3. FirstFew(s, n) = SubSeq(s, 1, m)
  BY DEF FirstFew
<1> HIDE DEF m
<1>4. m \in 0..Len(s)
  BY <1>2 DEF m
<1>5. SubSeq(s, 1, m) \in Seq(S) /\ Len(SubSeq(s, 1, m)) = m
  <2>1. 1 \in 1..Len(s) + 1 /\ \A i \in 1..m : i \in 1..Len(s)
    BY <1>1, <1>4
  <2>2. SubSeq(s, 1, m) = [i \in 1..m |-> s[i]]
    BY <1>1, <1>4
  <2>3. \A i \in 1..m : s[i] \in S
    BY <2>1
  <2> QED
    BY <1>1, <1>4, <2>2, <2>3
<1> QED
  BY <1>2, <1>3, <1>5 DEF m

\* A sequence with one element of another for each of its keys.
OneOfEach(r, s, key) ==
  \E at \in [DOMAIN r -> DOMAIN s] :
    /\ \A k \in DOMAIN r : r[k] = s[at[k]]
    /\ \A k, l \in DOMAIN r : k # l => key[at[k]] # key[at[l]]
    /\ \A i \in DOMAIN s : \E k \in DOMAIN r : key[at[k]] = key[i]

\* Of the elements with one key the first is left, so every key is there, once.
LEMMA FirstOfIs ==
  ASSUME NEW S, NEW s \in Seq(S), NEW key
  PROVE  FirstOf(s, key) \in Seq(S) /\ OneOfEach(FirstOf(s, key), s, key)
<1> DEFINE r == FirstOf(s, key)
           I == {k \in DOMAIN s : \A j \in 1..k - 1 : key[j] # key[k]}
           n == Cardinality(I)
<1>1. Len(s) \in Nat /\ DOMAIN s = 1..Len(s) /\ I \in SUBSET (1..Len(s))
  OBVIOUS
<1>2. r = Picked(s, I)
  BY DEF FirstOf
<1>3. ASSUME NEW i \in 1..Len(s)
      PROVE  \E k \in I : key[k] = key[i]
  <2> DEFINE T == {j \in 1..Len(s) : key[j] = key[i]}
  <2>1. T \in SUBSET Nat /\ T # {}
    OBVIOUS
  <2>2. PICK k \in T : \A j \in T : k <= j
    BY <2>1, LeastNumber
  <2>3. ASSUME NEW j \in 1..k - 1
        PROVE  key[j] # key[k]
    <3>1. j \in 1..Len(s) /\ ~(k <= j)
      BY <1>1
    <3> QED
      BY <2>2, <3>1
  <2> QED
    BY <1>1, <2>3
<1>4. ASSUME NEW i \in I, NEW j \in I, i # j
      PROVE  key[i] # key[j]
  <2>1. i \in 1..Len(s) /\ j \in 1..Len(s)
    BY <1>1
  <2>2. i \in 1..j - 1 \/ j \in 1..i - 1
    BY <1>4, <2>1
  <2> QED
    BY <2>2
<1> HIDE DEF I, r
<1>5. Places(I)
  BY <1>1, SomePlaces
<1>6. PICK at : Enumerates(at, I) /\ Picked(s, I) = [k \in 1..n |-> s[at[k]]]
  <2>1. PickOf(Picked(s, I), s, I)
    BY <1>5, PickedIs
  <2> QED
    BY <2>1 DEF PickOf
<1>7. /\ n \in Nat /\ at \in [1..n -> I]
      /\ \A k, l \in 1..n : k # l => at[k] # at[l]
      /\ \A i \in I : \E k \in 1..n : at[k] = i
  BY <1>6 DEF Enumerates
<1>8. DOMAIN r = 1..n /\ \A k \in 1..n : r[k] = s[at[k]]
  BY <1>2, <1>6
<1>9. r \in Seq(S)
  <2>1. \A i \in I : s[i] \in S
    BY <1>1
  <2> QED
    BY <1>5, <1>2, <2>1, PickedType
<1>10. at \in [DOMAIN r -> DOMAIN s]
  BY <1>1, <1>7, <1>8
<1>11. \A k, l \in DOMAIN r : k # l => key[at[k]] # key[at[l]]
  BY <1>4, <1>7, <1>8
<1>12. ASSUME NEW i \in DOMAIN s
       PROVE  \E k \in DOMAIN r : key[at[k]] = key[i]
  <2>1. i \in 1..Len(s)
    BY <1>1
  <2>2. PICK j \in I : key[j] = key[i]
    BY <1>3, <2>1
  <2>3. PICK k \in 1..n : at[k] = j
    BY <1>7
  <2> QED
    BY <1>8, <2>2, <2>3
<1> QED
  BY <1>8, <1>9, <1>10, <1>11, <1>12 DEF r, OneOfEach

\* A language model can only reorder: whatever it names, as many hits come
\* back, and the same ones.
LEMMA RerankedIs ==
  ASSUME NEW S, NEW hs \in Seq(S), NEW n \in Nat, NEW ranking \in [1..n -> Nat]
  PROVE  /\ Reranked(hs, ranking) \in Seq(S)
         /\ Len(Reranked(hs, ranking)) = Len(hs)
         /\ Range(Reranked(hs, ranking)) = Range(hs)
<1> DEFINE I   == DOMAIN hs
           named == Named(hs, ranking)
           key == [k \in I |-> IF k \in named THEN <<0, Min(Mentions(ranking, k))>>
                               ELSE <<1, k>>]
           at  == InOrder(I, key)
<1>1. I = 1..Len(hs) /\ Len(hs) \in Nat
  OBVIOUS
<1>2. IsFiniteSet(I)
  <2>1. 1 \in Int /\ Len(hs) \in Int
    BY <1>1
  <2>2. IsFiniteSet(1..Len(hs))
    BY <2>1, FS_Interval
  <2> QED
    BY <1>1, <2>2
<1>3. ASSUME NEW k \in named
      PROVE  Min(Mentions(ranking, k)) \in 1..n /\ ranking[Min(Mentions(ranking, k))] = k
  <2> DEFINE T == Mentions(ranking, k)
  <2>1. T \in SUBSET Nat /\ T # {} /\ \A j \in T : j \in 1..n /\ ranking[j] = k
    BY DEF Mentions, Named
  <2> HIDE DEF T
  <2>2. \E x \in T : \A y \in T : x <= y
    BY <2>1, LeastNumber
  <2>3. Min(T) \in T
    BY <2>2 DEF Min
  <2> QED
    BY <2>1, <2>3 DEF T
<1>4. ASSUME NEW k \in I
      PROVE  key[k] \in Keys(2)
  <2>1. CASE k \in named
    <3>1. key[k] = <<0, Min(Mentions(ranking, k))>>
      BY <2>1
    <3>2. Min(Mentions(ranking, k)) \in Int
      BY <1>3, <2>1
    <3> QED
      BY <3>1, <3>2 DEF Keys
  <2>2. CASE k \notin named
    <3>1. key[k] = <<1, k>> /\ k \in Int
      BY <1>1, <2>2
    <3> QED
      BY <3>1 DEF Keys
  <2> QED
    BY <2>1, <2>2
<1>5. ASSUME NEW k \in I, NEW l \in I, key[k] = key[l]
      PROVE  k = l
  <2>1. CASE k \in named /\ l \in named
    <3>1. Min(Mentions(ranking, k)) = Min(Mentions(ranking, l))
      BY <1>5, <2>1
    <3> QED
      BY <1>3, <2>1, <3>1
  <2>2. CASE k \notin named /\ l \notin named
    BY <1>5, <2>2
  <2>3. CASE k \in named /\ l \notin named
    BY <1>5, <2>3
  <2>4. CASE k \notin named /\ l \in named
    BY <1>5, <2>4
  <2> QED
    BY <2>1, <2>2, <2>3, <2>4
<1>6. key \in [I -> Keys(2)] /\ \A k, l \in I : k # l => key[k] # key[l]
  <2>1. key = [k \in I |-> key[k]]
    OBVIOUS
  <2> HIDE DEF key, I
  <2>2. key \in [I -> Keys(2)]
    BY <1>4, <2>1
  <2> QED
    BY <1>5, <2>2
<1>7. Reranked(hs, ranking) = At(hs, at)
  BY DEF Reranked
<1>8. Enumerates(at, I)
  <2> HIDE DEF key
  <2> QED
    BY <1>2, <1>6, InOrderIs
<1> HIDE DEF at
<1> QED
  BY <1>7, <1>8, OrderedIs

\* Every hit is a source, and is one once.
LEMMA SourcesAre ==
  ASSUME NEW S, NEW hs \in Seq(S)
  PROVE  /\ Sources(hs) \in Seq(S)
         /\ \A k \in DOMAIN Sources(hs) : Sources(hs)[k] \in Range(hs)
         /\ {SourceKey(s) : s \in Range(Sources(hs))} = {SourceKey(h) : h \in Range(hs)}
         /\ \A i, j \in DOMAIN Sources(hs) :
              i # j => SourceKey(Sources(hs)[i]) # SourceKey(Sources(hs)[j])
<1> DEFINE key == [k \in DOMAIN hs |-> SourceKey(hs[k])]
           r   == FirstOf(hs, key)
<1>1. Sources(hs) = r
  BY DEF Sources
<1>2. \A i \in DOMAIN hs : key[i] = SourceKey(hs[i])
  OBVIOUS
<1> HIDE DEF key
<1>3. r \in Seq(S) /\ OneOfEach(r, hs, key)
  BY FirstOfIs
<1> HIDE DEF r
<1>4. PICK at \in [DOMAIN r -> DOMAIN hs] :
        /\ \A k \in DOMAIN r : r[k] = hs[at[k]]
        /\ \A k, l \in DOMAIN r : k # l => key[at[k]] # key[at[l]]
        /\ \A i \in DOMAIN hs : \E k \in DOMAIN r : key[at[k]] = key[i]
  BY <1>3 DEF OneOfEach
<1>5. \A k \in DOMAIN r : at[k] \in DOMAIN hs /\ key[at[k]] = SourceKey(r[k])
  BY <1>2, <1>4
<1>6. \A k \in DOMAIN r : r[k] \in Range(hs)
  BY <1>4 DEF Range
<1>7. \A i, j \in DOMAIN r : i # j => SourceKey(r[i]) # SourceKey(r[j])
  BY <1>4, <1>5
<1>8. \A h \in Range(hs) : \E s \in Range(r) : SourceKey(s) = SourceKey(h)
  BY <1>2, <1>4, <1>5 DEF Range
<1>9. \A s \in Range(r) : s \in Range(hs)
  BY <1>6 DEF Range
<1>10. {SourceKey(s) : s \in Range(r)} = {SourceKey(h) : h \in Range(hs)}
  BY <1>8, <1>9
<1> QED
  BY <1>1, <1>3, <1>6, <1>7, <1>10

-----------------------------------------------------------------------------
(* Hits.                                                                   *)

Kinds == {"nxi", "product_information", "similar_report", "sop", "theory_basis"}

HitRecords == [passage : Nat, type : Kinds, source : Nat, path : Nat, place : Nat, text : Nat,
               score : Int, mode : {0, 1, 2}]

\* A hit says of its passage what the library does, and where it is if the
\* library knows.
HitOf(h, p) ==
  /\ h.type = p.type /\ h.source = p.source /\ h.path = p.path /\ h.text = p.text
  /\ p.place # 0 => h.place = p.place
HitsOf(lib) == {h \in HitRecords : h.passage \in DOMAIN lib /\ HitOf(h, lib[h.passage])}

\* The hits that may answer a query, and the passages they may be of.
Answers(lib, q) == {h \in HitsOf(lib) : q.types = {} \/ h.type \in q.types}
PassagesFor(lib, q) ==
  {p \in Passages : p.id \in DOMAIN lib /\ lib[p.id] = p /\ Wanted(q, p)}

\* A query has finitely many words and asks for a number of hits.
QueryOK(q) == IsFiniteSet(q.words) /\ q.topk \in Int

\* What the library holds.
LEMMA LibraryIs ==
  ASSUME NEW lib \in Libraries
  PROVE  /\ lib \in Seq(Passages) /\ Len(lib) \in Nat /\ DOMAIN lib = 1..Len(lib)
         /\ \A k \in DOMAIN lib : lib[k] \in Passages /\ lib[k].id = k
BY LibrariesAssumption

\* The larger and the smaller of two numbers.
LEMMA MaxMinOfTwo ==
  ASSUME NEW a \in Int, NEW b \in Int
  PROVE  /\ Max({a, b}) \in {a, b} /\ Max({a, b}) >= a /\ Max({a, b}) >= b
         /\ Min({a, b}) \in {a, b} /\ Min({a, b}) <= a /\ Min({a, b}) <= b
<1>1. \E x \in {a, b} : \A y \in {a, b} : x >= y
  OBVIOUS
<1>2. \E x \in {a, b} : \A y \in {a, b} : x <= y
  OBVIOUS
<1>3. Max({a, b}) \in {a, b} /\ \A y \in {a, b} : Max({a, b}) >= y
  BY <1>1 DEF Max
<1>4. Min({a, b}) \in {a, b} /\ \A y \in {a, b} : Min({a, b}) <= y
  BY <1>2 DEF Min
<1> QED
  BY <1>3, <1>4

\* Kinds of document and scores are numbers in the orders of hits.
LEMMA RankIs ==
  ASSUME NEW t \in Kinds
  PROVE  TypeRank(t) \in Int
<1>1. DOMAIN DocTypes = 1..5
  BY DEF DocTypes
<1>2. \E k \in 1..5 : DocTypes[k] = t
  BY DEF Kinds, DocTypes
<1> HIDE DEF DocTypes
<1>3. TypeRank(t) \in 1..5
  BY <1>1, <1>2 DEF TypeRank
<1> QED
  BY <1>3

\* A passage has a score for words and for nearness.
LEMMA ScoreIs ==
  ASSUME NEW p \in Passages, NEW words, IsFiniteSet(words)
  PROVE  WordScore(p, words) \in Int /\ NearScore(p) \in Int /\ NearBonus(p.type) \in Int
<1>1. p.type \in Kinds /\ p.near \in Int
  BY DEF Passages, Kinds
<1>2. WordBonus(p.type) \in Int /\ NearBonus(p.type) \in Int
  BY <1>1 DEF WordBonus, NearBonus, Kinds
<1>3. ASSUME words \intersect p.words # {}
      PROVE  (1000 * Cardinality(words \intersect p.words)) \div Cardinality(words) \in Int
  <2>1. IsFiniteSet(words \intersect p.words)
    BY FS_Subset
  <2>2. Cardinality(words) \in Nat /\ Cardinality(words \intersect p.words) \in Nat
    BY <2>1, FS_CardinalityType
  <2>3. Cardinality(words) # 0
    BY <1>3, FS_EmptySet
  <2> QED
    BY <2>2, <2>3
<1>4. WordScore(p, words) \in Int
  <2>1. CASE words \intersect p.words = {}
    BY <2>1 DEF WordScore
  <2>2. CASE words \intersect p.words # {}
    BY <1>2, <1>3, <2>2 DEF WordScore
  <2> QED
    BY <2>1, <2>2
<1>5. NearScore(p) \in Int
  <2>0. 0 \in Int /\ p.near \in Int
    BY <1>1
  <2>1. Max({0, p.near}) \in {0, p.near}
    BY <2>0, MaxMinOfTwo
  <2> QED
    BY <2>0, <2>1 DEF NearScore
<1> QED
  BY <1>2, <1>4, <1>5

\* A hit of a passage that may answer may answer.
LEMMA HitIs ==
  ASSUME NEW lib \in Libraries, NEW q, NEW p \in PassagesFor(lib, q), NEW place \in Nat,
         p.place # 0 => place = p.place, NEW score \in Int, NEW mode \in {0, 1, 2}
  PROVE  Hit(p, place, score, mode) \in Answers(lib, q)
<1> DEFINE h == Hit(p, place, score, mode)
<1>1. p \in Passages /\ p.id \in DOMAIN lib /\ lib[p.id] = p /\ (q.types = {} \/ p.type \in q.types)
  BY DEF PassagesFor, Wanted
<1>2. /\ p.id \in Nat /\ p.type \in Kinds /\ p.source \in Nat /\ p.path \in Nat /\ p.text \in Nat
  BY <1>1 DEF Passages, Kinds
<1>3. /\ h.passage = p.id /\ h.type = p.type /\ h.source = p.source /\ h.path = p.path
      /\ h.place = place /\ h.text = p.text
  BY DEF Hit
<1>4. h \in HitRecords
  BY <1>2 DEF Hit, HitRecords
<1> HIDE DEF h
<1>5. HitOf(h, lib[h.passage])
  BY <1>1, <1>3 DEF HitOf
<1>6. h \in HitsOf(lib)
  BY <1>1, <1>3, <1>4, <1>5 DEF HitsOf
<1> QED
  BY <1>1, <1>3, <1>6 DEF Answers, h

\* The numbers an order looks at.
LEMMA HitFields ==
  ASSUME NEW lib, NEW q, NEW h \in Answers(lib, q)
  PROVE  /\ -h.score \in Int /\ TypeRank(h.type) \in Int /\ h.path \in Int /\ h.place \in Int
         /\ h.source \in Int /\ h.mode \in Int
<1>1. h \in HitRecords
  BY DEF Answers, HitsOf
<1>2. h.type \in Kinds /\ h.score \in Int /\ h.path \in Nat /\ h.place \in Nat /\ h.source \in Nat
      /\ h.mode \in {0, 1, 2}
  BY <1>1 DEF HitRecords
<1> QED
  BY <1>2, RankIs

\* Keys of four and of five numbers.
LEMMA KeysAre ==
  ASSUME NEW a \in Int, NEW b \in Int, NEW c \in Int, NEW d \in Int, NEW e \in Int
  PROVE  <<a, b, c, d>> \in Keys(4) /\ <<a, b, c, d, e>> \in Keys(5)
BY DEF Keys

\* How many hits are wanted.
LEMMA LimitIs ==
  ASSUME NEW q, q.topk \in Int
  PROVE  Limit(q) \in Nat
<1>1. Max({1, q.topk}) \in {1, q.topk} /\ Max({1, q.topk}) >= 1
  BY MaxMinOfTwo
<1>2. DefaultTopK \in Nat
  BY SearchAssumption
<1> QED
  BY <1>1, <1>2 DEF Limit

-----------------------------------------------------------------------------
(* What a search finds may answer its query, and is no more than it wants. *)

\* Some of the passages that may answer, in their order.
LEMMA PassagesPicked ==
  ASSUME library \in Libraries, NEW q, NEW I \in SUBSET (DOMAIN library),
         \A k \in I : Wanted(q, library[k])
  PROVE  Picked(library, I) \in Seq(PassagesFor(library, q))
<1>1. /\ Len(library) \in Nat /\ DOMAIN library = 1..Len(library)
      /\ \A k \in DOMAIN library : library[k] \in Passages /\ library[k].id = k
  BY LibraryIs
<1>2. Places(I)
  BY <1>1, SomePlaces
<1>3. \A k \in I : library[k] \in PassagesFor(library, q)
  BY <1>1 DEF PassagesFor
<1> QED
  BY <1>2, <1>3, PickedType

\* Passages of files that are found may answer the query.
LEMMA FileCandidatesAre ==
  ASSUME library \in Libraries, NEW q, QueryOK(q)
  PROVE  FileCandidates(q) \in Seq(Answers(library, q))
<1> DEFINE I == {k \in DOMAIN library : /\ Wanted(q, library[k]) /\ library[k].store = "file"
                                        /\ WordScore(library[k], q.words) > 0}
           pieces == Picked(library, I)
           hs == [k \in DOMAIN pieces |->
                    Hit(pieces[k], pieces[k].place, WordScore(pieces[k], q.words), 2)]
<1>1. FileCandidates(q) = hs
  BY DEF FileCandidates
<1>2. I \in SUBSET (DOMAIN library) /\ \A k \in I : Wanted(q, library[k])
  OBVIOUS
<1> HIDE DEF I
<1>3. pieces \in Seq(PassagesFor(library, q))
  BY <1>2, PassagesPicked
<1> HIDE DEF pieces
<1>4. ASSUME NEW k \in DOMAIN pieces
      PROVE  hs[k] \in Answers(library, q)
  <2> DEFINE p == pieces[k]
             score == WordScore(p, q.words)
  <2>1. p \in PassagesFor(library, q)
    BY <1>3
  <2>2. p \in Passages
    BY <2>1 DEF PassagesFor
  <2>3. p.place \in Nat
    BY <2>2 DEF Passages
  <2>4. score \in Int /\ 2 \in {0, 1, 2}
    BY <2>2, ScoreIs DEF QueryOK
  <2>5. hs[k] = Hit(p, p.place, score, 2)
    OBVIOUS
  <2> HIDE DEF p, score, hs
  <2> QED
    BY <2>1, <2>3, <2>4, <2>5, HitIs
<1>5. DOMAIN pieces = 1..Len(pieces) /\ Len(pieces) \in Nat
  BY <1>3
<1>6. hs = [k \in 1..Len(pieces) |-> hs[k]]
  BY <1>5
<1> HIDE DEF hs
<1>7. hs \in Seq(Answers(library, q))
  BY <1>4, <1>5, <1>6
<1> QED
  BY <1>1, <1>7

\* The hits of a sequence, sorted by four numbers and cut.
LEMMA SortedHits ==
  ASSUME NEW S, NEW hs \in Seq(S), NEW m \in Nat, NEW key \in [DOMAIN hs -> Keys(m)],
         NEW n \in Nat
  PROVE  FirstFew(Sorted(hs, key), n) \in Seq(S) /\ Len(FirstFew(Sorted(hs, key), n)) <= n
<1>1. Sorted(hs, key) \in Seq(S)
  BY SortedIs
<1> QED
  BY <1>1, FirstFewIs

\* So may the best of them.
LEMMA FileHitsAre ==
  ASSUME library \in Libraries, NEW q, QueryOK(q)
  PROVE  FileHits(q) \in Seq(Answers(library, q))
<1> DEFINE hs == FileCandidates(q)
           key == [k \in DOMAIN hs |-> FileOrder(hs[k])]
<1>1. FileHits(q) = FirstFew(Sorted(hs, key), Limit(q))
  BY DEF FileHits, InFileOrder
<1>2. hs \in Seq(Answers(library, q))
  BY FileCandidatesAre
<1> HIDE DEF hs
<1>3. ASSUME NEW k \in DOMAIN hs
      PROVE  FileOrder(hs[k]) \in Keys(4)
  <2>1. hs[k] \in Answers(library, q)
    BY <1>2
  <2>2. /\ -hs[k].score \in Int /\ TypeRank(hs[k].type) \in Int /\ hs[k].path \in Int
        /\ hs[k].place \in Int
    BY <2>1, HitFields
  <2> QED
    BY <2>2, KeysAre DEF FileOrder
<1>4. key \in [DOMAIN hs -> Keys(4)]
  BY <1>3
<1>5. Limit(q) \in Nat /\ 4 \in Nat
  BY LimitIs DEF QueryOK
<1> HIDE DEF key
<1> QED
  BY <1>1, <1>2, <1>4, <1>5, SortedHits

\* What a passage of the store becomes, found by a word or in the queue.
LEMMA StoreHitIs ==
  ASSUME library \in Libraries, NEW q, QueryOK(q), NEW p \in PassagesFor(library, q)
  PROVE  IndexHit(q, p) \in Answers(library, q) /\ QueueHit(q, p) \in Answers(library, q)
<1> DEFINE score  == WordScore(p, q.words)
           capped == Min({score, 1000})
           both   == NearScore(p) + capped \div 5
           more   == both + NearBonus(p.type)
<1>1. p \in Passages
  BY DEF PassagesFor
<1>2. p.id \in Nat /\ p.place \in Nat
  BY <1>1 DEF Passages
<1>3. score \in Int /\ NearScore(p) \in Int /\ NearBonus(p.type) \in Int
  BY <1>1, ScoreIs DEF QueryOK
<1>4. capped \in Int
  <2>1. 1000 \in Int
    OBVIOUS
  <2>3. score \in Int
    BY <1>3
  <2> HIDE DEF score
  <2>2. Min({score, 1000}) \in {score, 1000}
    BY ONLY <2>1, <2>3, MaxMinOfTwo
  <2> QED
    BY <1>3, <2>1, <2>2
<1>5. both \in Int /\ more \in Int
  <2> HIDE DEF capped
  <2> QED
    BY <1>3, <1>4
<1>6. IndexPlace(p) \in Nat /\ (p.place # 0 => IndexPlace(p) = p.place)
  BY <1>2 DEF IndexPlace
<1>7. QueuePlace(p) \in Nat /\ (p.place # 0 => QueuePlace(p) = p.place)
  BY <1>2 DEF QueuePlace
<1>8. QueueHit(q, p) = Hit(p, QueuePlace(p), both, 0)
  BY DEF QueueHit
<1>9. \/ IndexHit(q, p) = Hit(p, IndexPlace(p), more, 0)
      \/ IndexHit(q, p) = Hit(p, IndexPlace(p), score, 1)
  BY DEF IndexHit
<1>10. 0 \in {0, 1, 2} /\ 1 \in {0, 1, 2}
  OBVIOUS
<1> HIDE DEF score, both, more
<1>11. QueueHit(q, p) \in Answers(library, q)
  BY <1>5, <1>7, <1>8, <1>10, HitIs
<1>12. /\ Hit(p, IndexPlace(p), more, 0) \in Answers(library, q)
       /\ Hit(p, IndexPlace(p), score, 1) \in Answers(library, q)
  BY <1>3, <1>5, <1>6, <1>10, HitIs
<1> QED
  BY <1>9, <1>11, <1>12

\* Passages of the store that are found may answer the query.
LEMMA StoreCandidatesAre ==
  ASSUME library \in Libraries, NEW q, QueryOK(q)
  PROVE  StoreCandidates(q) \in Seq(Answers(library, q))
<1> DEFINE A      == Answers(library, q)
           byWord == ByWord(q)
           queue  == Queue(q)
           first  == [k \in DOMAIN byWord |-> IndexHit(q, byWord[k])]
           second == [k \in DOMAIN queue |-> QueueHit(q, queue[k])]
           hs     == first \o second
           key    == [k \in DOMAIN hs |-> <<hs[k].type, hs[k].source, hs[k].place, hs[k].text>>]
<1>1. StoreCandidates(q) = FirstOf(hs, key)
  BY DEF StoreCandidates, FirstPassages
<1>2. byWord \in Seq(PassagesFor(library, q))
  <2> DEFINE I == {k \in DOMAIN library :
                     /\ Wanted(q, library[k])
                     /\ \E w \in q.words :
                          /\ k \in Indexed(w)
                          /\ Cardinality({j \in Indexed(w) : j <= k}) <= RowsRead(q)}
  <2>1. I \in SUBSET (DOMAIN library) /\ \A k \in I : Wanted(q, library[k])
    OBVIOUS
  <2>2. byWord = Picked(library, I)
    BY DEF ByWord
  <2> HIDE DEF I, byWord
  <2> QED
    BY <2>1, <2>2, PassagesPicked
<1>3. queue \in Seq(PassagesFor(library, q))
  <2> DEFINE I == {k \in DOMAIN library : /\ q.vector /\ Wanted(q, library[k])
                                          /\ library[k].store = "db" /\ library[k].queued}
  <2>1. I \in SUBSET (DOMAIN library) /\ \A k \in I : Wanted(q, library[k])
    OBVIOUS
  <2>2. queue = Picked(library, I)
    BY DEF Queue
  <2> HIDE DEF I, queue
  <2> QED
    BY <2>1, <2>2, PassagesPicked
<1> HIDE DEF byWord, queue, A
<1>4. first \in Seq(A)
  <2>1. DOMAIN byWord = 1..Len(byWord) /\ Len(byWord) \in Nat
    BY <1>2
  <2>2. \A k \in DOMAIN byWord : byWord[k] \in PassagesFor(library, q)
    BY <1>2
  <2>3. \A k \in DOMAIN byWord : IndexHit(q, byWord[k]) \in A
    BY <2>2, StoreHitIs DEF A
  <2> QED
    BY <2>1, <2>3
<1>5. second \in Seq(A)
  <2>1. DOMAIN queue = 1..Len(queue) /\ Len(queue) \in Nat
    BY <1>3
  <2>2. \A k \in DOMAIN queue : queue[k] \in PassagesFor(library, q)
    BY <1>3
  <2>3. \A k \in DOMAIN queue : QueueHit(q, queue[k]) \in A
    BY <2>2, StoreHitIs DEF A
  <2> QED
    BY <2>1, <2>3
<1> HIDE DEF first, second
<1>6. hs \in Seq(A)
  BY <1>4, <1>5, ConcatProperties
<1> HIDE DEF hs, key
<1>7. FirstOf(hs, key) \in Seq(A)
  BY <1>6, FirstOfIs
<1> QED
  BY <1>1, <1>7 DEF A

\* So may the best of them.
LEMMA StoreHitsAre ==
  ASSUME library \in Libraries, NEW q, QueryOK(q)
  PROVE  StoreHits(q) \in Seq(Answers(library, q))
<1> DEFINE hs == StoreCandidates(q)
           key == [k \in DOMAIN hs |-> StoreOrder(hs[k])]
<1>1. StoreHits(q) = FirstFew(Sorted(hs, key), Limit(q))
  BY DEF StoreHits, InStoreOrder
<1>2. hs \in Seq(Answers(library, q))
  BY StoreCandidatesAre
<1> HIDE DEF hs
<1>3. ASSUME NEW k \in DOMAIN hs
      PROVE  StoreOrder(hs[k]) \in Keys(4)
  <2>1. hs[k] \in Answers(library, q)
    BY <1>2
  <2>2. /\ -hs[k].score \in Int /\ TypeRank(hs[k].type) \in Int /\ hs[k].source \in Int
        /\ hs[k].place \in Int
    BY <2>1, HitFields
  <2> QED
    BY <2>2, KeysAre DEF StoreOrder
<1>4. key \in [DOMAIN hs -> Keys(4)]
  BY <1>3
<1>5. Limit(q) \in Nat /\ 4 \in Nat
  BY LimitIs DEF QueryOK
<1> HIDE DEF key
<1> QED
  BY <1>1, <1>2, <1>4, <1>5, SortedHits

\* What the product and the analysis add changes no more than the score.
LEMMA PromotedIs ==
  ASSUME library \in Libraries, NEW q, NEW h \in Answers(library, q)
  PROVE  Promoted(q, h) \in Answers(library, q)
<1>1. /\ h \in HitRecords /\ h.passage \in DOMAIN library /\ HitOf(h, library[h.passage])
      /\ q.types = {} \/ h.type \in q.types
  BY DEF Answers, HitsOf
<1>2. CASE ~q.product
  BY <1>2 DEF Promoted
<1>3. CASE q.product
  <2> DEFINE p == library[h.passage]
             g == [h EXCEPT !.score = @ + p.boost]
  <2>1. p \in Passages
    BY <1>1, LibraryIs
  <2>2. p.boost \in Int
    BY <2>1 DEF Passages
  <2>3. h.score \in Int
    BY <1>1 DEF HitRecords
  <2>4. h.score + p.boost \in Int
    BY <2>2, <2>3
  <2>5. Promoted(q, h) = g
    BY <1>3 DEF Promoted
  <2> HIDE DEF p
  <2>6. g \in HitRecords
    BY <1>1, <2>4 DEF HitRecords
  <2>7. /\ g.passage = h.passage /\ g.type = h.type /\ g.source = h.source /\ g.path = h.path
        /\ g.place = h.place /\ g.text = h.text
    BY <1>1 DEF HitRecords
  <2> HIDE DEF g
  <2>8. HitOf(g, library[g.passage])
    BY <1>1, <2>7 DEF HitOf
  <2> QED
    BY <1>1, <2>5, <2>6, <2>7, <2>8 DEF Answers, HitsOf
<1> QED
  BY <1>2, <1>3

\* A search finds what may answer its query, no more than is asked for.
LEMMA SearchedIs ==
  ASSUME library \in Libraries, NEW q, QueryOK(q)
  PROVE  Searched(q) \in Seq(Answers(library, q)) /\ Len(Searched(q)) <= Limit(q)
<1> DEFINE A    == Answers(library, q)
           both == StoreHits(q) \o FileHits(q)
           hs   == [k \in DOMAIN both |-> Promoted(q, both[k])]
           key  == [k \in DOMAIN hs |-> SearchOrder(hs[k])]
<1>1. Searched(q) = FirstFew(Sorted(hs, key), Limit(q))
  BY DEF Searched, AllPromoted, InSearchOrder
<1>2. StoreHits(q) \in Seq(A) /\ FileHits(q) \in Seq(A)
  BY StoreHitsAre, FileHitsAre
<1>3. both \in Seq(A)
  <2> HIDE DEF A
  <2> QED
    BY <1>2, ConcatProperties
<1> HIDE DEF both
<1>4. DOMAIN both = 1..Len(both) /\ Len(both) \in Nat /\ \A k \in DOMAIN both : both[k] \in A
  BY <1>3
<1>5. \A k \in DOMAIN both : Promoted(q, both[k]) \in A
  BY <1>4, PromotedIs
<1>6. hs \in Seq(A)
  <2> HIDE DEF A
  <2> QED
    BY <1>4, <1>5
<1> HIDE DEF hs
<1>7. ASSUME NEW k \in DOMAIN hs
      PROVE  SearchOrder(hs[k]) \in Keys(5)
  <2>1. hs[k] \in A
    BY <1>6
  <2>2. /\ -hs[k].score \in Int /\ TypeRank(hs[k].type) \in Int /\ hs[k].source \in Int
        /\ hs[k].place \in Int /\ hs[k].mode \in Int
    BY <2>1, HitFields
  <2> QED
    BY <2>2, KeysAre DEF SearchOrder
<1>8. key \in [DOMAIN hs -> Keys(5)]
  BY <1>7
<1>9. Limit(q) \in Nat /\ 5 \in Nat
  BY LimitIs DEF QueryOK
<1> HIDE DEF key
<1> QED
  BY <1>1, <1>6, <1>8, <1>9, SortedHits

-----------------------------------------------------------------------------
(* The steps of a call.                                                    *)

\* What the steps keep: hits are of the library, those in order are those
\* found, and an answer is made of them.
SearchInvariant ==
  /\ library \in Libraries /\ asked \in Calls \union {ReviewCall}
  /\ stage \in Stages /\ modelCalls \in 0..2
  /\ found \in Seq(Answers(library, Query)) /\ Len(found) <= Limit(Query)
  /\ hits \in Seq(HitsOf(library)) /\ Range(hits) = Range(found)
  /\ answer \in [sources : Seq(HitsOf(library)), confidence : {"low", "medium", "high"}]
  /\ cited \in Seq(HitsOf(library))
  /\ stage = "answered" /\ asked.kind # "current_input" =>
       answer = [sources |-> Sources(hits), confidence |-> Confidence(asked.kind, Sources(hits))]

\* The queries of a call are such that its searches are defined.
LEMMA QueriesAre ==
  ASSUME asked \in Calls \union {ReviewCall}
  PROVE  /\ QueryOK(QuestionQuery) /\ QueryOK(ReviewQuery) /\ QueryOK(Query)
         /\ \A k \in 1..3 : QueryOK(ContextQuery(k))
         /\ Query.types # {}
<1>1. /\ IsFiniteSet(QuestionWords) /\ IsFiniteSet(RequestWords)
      /\ DefaultTopK \in Int /\ ReviewTopK \in Int /\ TopKs \subseteq Int
  BY SearchAssumption
<1>2. IsFiniteSet(QuestionWords \union RequestWords)
  BY <1>1, FS_Union
<1>3. asked.topk \in Int
  <2>1. ASSUME asked \in Calls
        PROVE  asked.topk \in Int
    <3>1. asked.topk \in TopKs
      BY <2>1 DEF Calls
    <3> QED
      BY <1>1, <3>1
  <2>2. ASSUME asked = ReviewCall
        PROVE  asked.topk \in Int
    BY <1>1, <2>2 DEF ReviewCall
  <2> QED
    BY <2>1, <2>2
<1>4. QueryOK(QuestionQuery)
  BY <1>2, <1>3 DEF QueryOK, QuestionQuery
<1>5. QueryOK(ReviewQuery)
  BY <1>1 DEF QueryOK, ReviewQuery
<1>6. QueryOK(Query)
  BY <1>4, <1>5 DEF Query
<1>7. \A k \in 1..3 : QueryOK(ContextQuery(k))
  BY <1>1 DEF QueryOK, ContextQuery
<1>8. Query.types # {}
  <2>1. "sop" \in Range(DocTypes)
    <3>1. DocTypes[4] = "sop" /\ 4 \in DOMAIN DocTypes
      BY DEF DocTypes
    <3> QED
      BY <3>1 DEF Range
  <2>2. "sop" \in Inferred(asked.kind)
    BY <2>1 DEF Inferred
  <2>3. QuestionQuery.types # {}
    BY <2>2 DEF QuestionQuery
  <2>4. ReviewQuery.types # {}
    BY DEF ReviewQuery
  <2> QED
    BY <2>3, <2>4 DEF Query
<1> QED
  BY <1>4, <1>5, <1>6, <1>7, <1>8

\* Answers are hits of the library.
LEMMA AnswersAreHits ==
  ASSUME NEW lib, NEW q, NEW s \in Seq(Answers(lib, q))
  PROVE  s \in Seq(HitsOf(lib))
<1>1. Len(s) \in Nat /\ DOMAIN s = 1..Len(s) /\ \A k \in 1..Len(s) : s[k] \in Answers(lib, q)
  OBVIOUS
<1>2. \A k \in 1..Len(s) : s[k] \in HitsOf(lib)
  BY <1>1 DEF Answers
<1>3. s = [k \in 1..Len(s) |-> s[k]]
  BY <1>1
<1> QED
  BY <1>1, <1>2, <1>3

\* The evidence and the warnings are hits of the library.
LEMMA CitedAre ==
  ASSUME library \in Libraries, asked \in Calls \union {ReviewCall},
         NEW sources \in Seq(HitsOf(library))
  PROVE  Evidence(sources) \in Seq(HitsOf(library)) /\ Warnings(sources) \in Seq(HitsOf(library))
<1> DEFINE A   == HitsOf(library)
           one == Searched(ContextQuery(1))
           two == Searched(ContextQuery(2))
           three == Searched(ContextQuery(3))
           hs  == sources \o one \o two \o three
           key == [k \in DOMAIN hs |-> <<hs[k].path, hs[k].place>>]
           few == FirstOf(hs, key)
           places == [k \in DOMAIN sources |-> <<sources[k].source, sources[k].place>>]
<1>1. QueryOK(ContextQuery(1)) /\ QueryOK(ContextQuery(2)) /\ QueryOK(ContextQuery(3))
  BY QueriesAre
<1>2. one \in Seq(A) /\ two \in Seq(A) /\ three \in Seq(A)
  <2>1. one \in Seq(Answers(library, ContextQuery(1)))
    BY <1>1, SearchedIs
  <2>2. two \in Seq(Answers(library, ContextQuery(2)))
    BY <1>1, SearchedIs
  <2>3. three \in Seq(Answers(library, ContextQuery(3)))
    BY <1>1, SearchedIs
  <2> QED
    BY <2>1, <2>2, <2>3, AnswersAreHits
<1>3. sources \in Seq(A)
  OBVIOUS
<1>4. Evidence(sources) = FirstFew(few, EvidenceLimit)
  BY DEF Evidence, FirstPlaces
<1>5. Warnings(sources) = FirstOf(sources, places)
  BY DEF Warnings
<1> HIDE DEF A, one, two, three, places
<1>6. hs \in Seq(A)
  <2>1. sources \o one \in Seq(A)
    BY <1>2, <1>3, ConcatProperties
  <2>2. (sources \o one) \o two \in Seq(A)
    BY <1>2, <2>1, ConcatProperties
  <2> QED
    BY <1>2, <2>2, ConcatProperties
<1> HIDE DEF hs, key
<1>7. few \in Seq(A)
  BY <1>6, FirstOfIs
<1>8. EvidenceLimit \in Nat
  BY SearchAssumption
<1> HIDE DEF few
<1>9. FirstFew(few, EvidenceLimit) \in Seq(A)
  BY <1>7, <1>8, FirstFewIs
<1>10. FirstOf(sources, places) \in Seq(A)
  BY <1>3, FirstOfIs
<1> QED
  BY <1>4, <1>5, <1>9, <1>10 DEF A

\* A call begins with nothing found.
LEMMA SearchInvariantInit == RetrievalInit => SearchInvariant
<1> SUFFICES ASSUME RetrievalInit
             PROVE  SearchInvariant
  OBVIOUS
<1>1. /\ library \in Libraries /\ asked \in Calls \union {ReviewCall}
      /\ stage = "asked" /\ modelCalls = 0
      /\ found = <<>> /\ hits = <<>> /\ answer = NoAnswer /\ cited = <<>>
  BY DEF RetrievalInit
<1>2. found \in Seq(Answers(library, Query)) /\ Len(found) = 0
  BY <1>1
<1>3. Limit(Query) \in Nat
  BY <1>1, QueriesAre, LimitIs DEF QueryOK
<1>4. hits \in Seq(HitsOf(library)) /\ Range(hits) = Range(found) /\ cited \in Seq(HitsOf(library))
  BY <1>1
<1>5. answer \in [sources : Seq(HitsOf(library)), confidence : {"low", "medium", "high"}]
  BY <1>1 DEF NoAnswer
<1>6. stage \in Stages /\ stage # "answered" /\ modelCalls \in 0..2
  BY <1>1 DEF Stages
<1> QED
  BY <1>1, <1>2, <1>3, <1>4, <1>5, <1>6 DEF SearchInvariant

\* How sure an answer is.
LEMMA ConfidenceIs ==
  ASSUME NEW kind, NEW S, NEW sources \in Seq(S)
  PROVE  /\ Confidence(kind, sources) \in {"low", "medium", "high"}
         /\ Confidence(kind, sources) = "high" <=>
              kind = "policy" /\ {"sop", "nxi"} \subseteq {s.type : s \in Range(sources)}
<1> DEFINE T == {s.type : s \in Range(sources)}
           rules == T \intersect {"sop", "nxi"}
<1>1. Confidence(kind, sources) =
        IF kind = "policy"
        THEN CASE rules = {} -> "low" [] Cardinality(rules) = 1 -> "medium" [] OTHER -> "high"
        ELSE IF Len(sources) >= 2 THEN "medium" ELSE "low"
  BY DEF Confidence
<1> HIDE DEF T
<1>2. CASE kind # "policy"
  BY <1>1, <1>2
<1>3. CASE kind = "policy"
  <2>1. CASE rules = {}
    <3>1. Confidence(kind, sources) = "low"
      <4>1. Cardinality(rules) = 0
        BY <2>1, FS_EmptySet
      <4> HIDE DEF rules
      <4> QED
        BY <1>1, <1>3, <2>1, <4>1
    <3>2. ~({"sop", "nxi"} \subseteq T)
      BY <2>1
    <3> QED
      BY <3>1, <3>2 DEF T
  <2>2. CASE rules # {} /\ Cardinality(rules) = 1
    <3>1. Confidence(kind, sources) = "medium"
      BY <1>1, <1>3, <2>2
    <3>2. ASSUME {"sop", "nxi"} \subseteq T
          PROVE  FALSE
      <4>1. rules = {"sop", "nxi"}
        BY <3>2
      <4>2. Cardinality({"sop", "nxi"}) = 2
        <5>1. IsFiniteSet({"sop"}) /\ Cardinality({"sop"}) = 1
          BY FS_Singleton
        <5>2. Cardinality({"sop"} \union {"nxi"}) = Cardinality({"sop"}) + 1
          BY <5>1, FS_AddElement
        <5>3. {"sop"} \union {"nxi"} = {"sop", "nxi"}
          OBVIOUS
        <5> QED
          BY <5>1, <5>2, <5>3
      <4> QED
        <5>1. Cardinality(rules) = 1 /\ Cardinality(rules) = 2
          BY <2>2, <4>1, <4>2
        <5> HIDE DEF rules
        <5> QED
          BY <5>1
    <3> QED
      BY <3>1, <3>2 DEF T
  <2>3. CASE rules # {} /\ Cardinality(rules) # 1
    <3>1. Confidence(kind, sources) = "high"
      BY <1>1, <1>3, <2>3
    <3>2. ASSUME ~({"sop", "nxi"} \subseteq T)
          PROVE  FALSE
      <4>1. \E x : rules = {x}
        BY <2>3, <3>2
      <4> QED
        BY <2>3, <4>1, FS_Singleton
    <3> QED
      BY <1>3, <3>1, <3>2 DEF T
  <2> QED
    BY <2>1, <2>2, <2>3
<1> QED
  BY <1>2, <1>3

\* A step changes neither the library nor the call, so what it leaves is hits
\* of the same library, found for the same query.
Kept(s, m, f, h, a, c) ==
  /\ s \in Stages /\ m \in 0..2
  /\ f \in Seq(Answers(library, Query)) /\ Len(f) <= Limit(Query)
  /\ h \in Seq(HitsOf(library)) /\ Range(h) = Range(f)
  /\ a \in [sources : Seq(HitsOf(library)), confidence : {"low", "medium", "high"}]
  /\ c \in Seq(HitsOf(library))
  /\ s = "answered" /\ asked.kind # "current_input" =>
       a = [sources |-> Sources(h), confidence |-> Confidence(asked.kind, Sources(h))]

\* What is kept of the values after a step is the invariant after it.
LEMMA StepKeeps ==
  ASSUME SearchInvariant, UNCHANGED <<library, asked>>,
         Kept(stage', modelCalls', found', hits', answer', cited')
  PROVE  SearchInvariant'
<1>1. library' = library /\ asked' = asked
  OBVIOUS
<1>2. QuestionQuery' = QuestionQuery /\ ReviewQuery' = ReviewQuery
  BY <1>1 DEF QuestionQuery, ReviewQuery
<1>3. Query' = Query
  BY <1>1, <1>2 DEF Query
<1>4. library' \in Libraries /\ asked' \in Calls \union {ReviewCall}
  BY <1>1 DEF SearchInvariant
<1>5. /\ stage' \in Stages /\ modelCalls' \in 0..2
      /\ found' \in Seq(Answers(library', Query')) /\ Len(found') <= Limit(Query')
      /\ hits' \in Seq(HitsOf(library')) /\ Range(hits') = Range(found')
      /\ answer' \in [sources : Seq(HitsOf(library')), confidence : {"low", "medium", "high"}]
      /\ cited' \in Seq(HitsOf(library'))
  BY <1>1, <1>3 DEF Kept
<1>6. stage' = "answered" /\ asked'.kind # "current_input" =>
        answer' = [sources |-> Sources(hits'),
                   confidence |-> Confidence(asked'.kind, Sources(hits'))]
  BY <1>1 DEF Kept
<1> QED
  BY <1>4, <1>5, <1>6 DEF SearchInvariant

\* The invariant is what is kept of the values before a step.
LEMMA InvariantKept ==
  ASSUME SearchInvariant
  PROVE  Kept(stage, modelCalls, found, hits, answer, cited)
BY DEF SearchInvariant, Kept

\* What is declined ends without sources.
LEMMA DeclineKeeps == SearchInvariant /\ Decline => SearchInvariant'
<1> SUFFICES ASSUME SearchInvariant, Decline
             PROVE  SearchInvariant'
  OBVIOUS
<1>1. /\ stage' = "done" /\ answer' = NoAnswer
      /\ UNCHANGED <<library, asked>> /\ UNCHANGED <<modelCalls, found, hits, cited>>
  BY DEF Decline
<1>2. NoAnswer \in [sources : Seq(HitsOf(library)), confidence : {"low", "medium", "high"}]
  BY DEF NoAnswer
<1>3. "done" \in Stages
  BY DEF Stages
<1>4. Kept("done", modelCalls, found, hits, NoAnswer, cited)
  BY <1>2, <1>3, InvariantKept DEF Kept
<1> QED
  BY <1>1, <1>4, StepKeeps

\* An answer from the request has no sources and is no answer of a search.
LEMMA AnswerFromInputKeeps == SearchInvariant /\ AnswerFromInput => SearchInvariant'
<1> SUFFICES ASSUME SearchInvariant, AnswerFromInput
             PROVE  SearchInvariant'
  OBVIOUS
<1> DEFINE sure == [NoAnswer EXCEPT !.confidence = "high"]
<1>1. /\ stage' = "answered" /\ answer' = sure /\ asked.kind = "current_input"
      /\ UNCHANGED <<library, asked>> /\ UNCHANGED <<modelCalls, found, hits, cited>>
  BY DEF AnswerFromInput
<1>2. sure \in [sources : Seq(HitsOf(library)), confidence : {"low", "medium", "high"}]
  <2>1. sure = [sources |-> <<>>, confidence |-> "high"]
    BY DEF NoAnswer
  <2> HIDE DEF sure
  <2>2. <<>> \in Seq(HitsOf(library))
    OBVIOUS
  <2> QED
    BY <2>1, <2>2
<1>3. "answered" \in Stages
  BY DEF Stages
<1> HIDE DEF sure
<1>4. Kept("answered", modelCalls, found, hits, sure, cited)
  BY <1>1, <1>2, <1>3, InvariantKept DEF Kept
<1> QED
  BY <1>1, <1>4, StepKeeps

\* A question finds what may answer it, in the order of the search.
LEMMA SearchKeeps == SearchInvariant /\ Search => SearchInvariant'
<1> SUFFICES ASSUME SearchInvariant, Search
             PROVE  SearchInvariant'
  OBVIOUS
<1> DEFINE f == Searched(QuestionQuery)
<1>1. /\ stage' = "found" /\ found' = f /\ hits' = f /\ asked.use # "review"
      /\ UNCHANGED <<library, asked>> /\ UNCHANGED <<modelCalls, answer, cited>>
  BY DEF Search
<1>2. Query = QuestionQuery
  BY <1>1 DEF Query
<1>3. library \in Libraries /\ QueryOK(QuestionQuery)
  BY QueriesAre DEF SearchInvariant
<1>4. f \in Seq(Answers(library, Query)) /\ Len(f) <= Limit(Query)
  BY <1>2, <1>3, SearchedIs
<1> HIDE DEF f
<1>5. f \in Seq(HitsOf(library))
  BY <1>4, AnswersAreHits
<1>6. "found" \in Stages
  BY DEF Stages
<1>7. Kept("found", modelCalls, f, f, answer, cited)
  BY <1>4, <1>5, <1>6, InvariantKept DEF Kept
<1> QED
  BY <1>1, <1>7, StepKeeps

\* A search that fails finds nothing.
LEMMA SearchFailsKeeps == SearchInvariant /\ SearchFails => SearchInvariant'
<1> SUFFICES ASSUME SearchInvariant, SearchFails
             PROVE  SearchInvariant'
  OBVIOUS
<1>1. /\ stage' \in {"done", "failed"}
      /\ UNCHANGED <<library, asked>> /\ UNCHANGED <<modelCalls, found, hits, answer, cited>>
  BY DEF SearchFails
<1>2. stage' \in Stages /\ stage' # "answered"
  BY <1>1 DEF Stages
<1>3. Kept(stage', modelCalls, found, hits, answer, cited)
  BY <1>2, InvariantKept DEF Kept
<1> QED
  BY <1>1, <1>3, StepKeeps

\* Around the call of the model the hits stay as they are.
LEMMA WaitingKeeps ==
  SearchInvariant /\ (LeaveOrder \/ AskModel \/ AskOtherwise \/ ModelFails) => SearchInvariant'
<1> SUFFICES ASSUME SearchInvariant, LeaveOrder \/ AskModel \/ AskOtherwise \/ ModelFails
             PROVE  SearchInvariant'
  OBVIOUS
<1>1. /\ UNCHANGED <<library, asked>> /\ UNCHANGED <<found, hits, answer, cited>>
      /\ stage' \in {"ordered", "asking", stage} /\ modelCalls' \in {1, 2, modelCalls}
  BY DEF LeaveOrder, AskModel, AskOtherwise, ModelFails
<1>2. stage' \in Stages /\ modelCalls' \in 0..2
  BY <1>1 DEF SearchInvariant, Stages
<1>3. stage' = "answered" => stage = "answered"
  BY <1>1
<1>4. Kept(stage', modelCalls', found, hits, answer, cited)
  BY <1>2, <1>3, InvariantKept DEF Kept
<1> QED
  BY <1>1, <1>4, StepKeeps

\* The hits in order are still those found, whatever the model's ranking.
LEMMA ModelRanksKeeps ==
  ASSUME SearchInvariant, NEW n \in 0..RankingLimit, NEW ranking \in [1..n -> 0..Window],
         ModelRanks(ranking)
  PROVE  SearchInvariant'
<1> DEFINE h == Reranked(hits, ranking)
<1>1. /\ stage' = "ordered" /\ hits' = h
      /\ UNCHANGED <<library, asked>> /\ UNCHANGED <<modelCalls, found, answer, cited>>
  BY DEF ModelRanks
<1>2. n \in Nat /\ ranking \in [1..n -> Nat]
  BY SearchAssumption
<1>3. hits \in Seq(HitsOf(library)) /\ Range(hits) = Range(found)
  BY DEF SearchInvariant
<1>4. h \in Seq(HitsOf(library)) /\ Range(h) = Range(hits)
  BY <1>2, <1>3, RerankedIs
<1> HIDE DEF h
<1>5. "ordered" \in Stages
  BY DEF Stages
<1>6. Kept("ordered", modelCalls, found, h, answer, cited)
  BY <1>3, <1>4, <1>5, InvariantKept DEF Kept
<1> QED
  BY <1>1, <1>6, StepKeeps

\* An answer is made of the hits in their order.
LEMMA AnswerKeeps == SearchInvariant /\ Answer => SearchInvariant'
<1> SUFFICES ASSUME SearchInvariant, Answer
             PROVE  SearchInvariant'
  OBVIOUS
<1> DEFINE a == [sources |-> Sources(hits), confidence |-> Confidence(asked.kind, Sources(hits))]
<1>1. /\ stage' = "answered" /\ answer' = a
      /\ UNCHANGED <<library, asked>> /\ UNCHANGED <<modelCalls, found, hits, cited>>
  BY DEF Answer
<1>2. hits \in Seq(HitsOf(library))
  BY DEF SearchInvariant
<1>3. Sources(hits) \in Seq(HitsOf(library))
  BY <1>2, SourcesAre
<1>4. Confidence(asked.kind, Sources(hits)) \in {"low", "medium", "high"}
  BY <1>3, ConfidenceIs
<1>5. a \in [sources : Seq(HitsOf(library)), confidence : {"low", "medium", "high"}]
  BY <1>3, <1>4
<1>6. "answered" \in Stages
  BY DEF Stages
<1>7. Kept("answered", modelCalls, found, hits, a, cited)
  BY <1>5, <1>6, InvariantKept DEF Kept
<1> HIDE DEF a
<1> QED
  BY <1>1, <1>7, StepKeeps

\* The evidence of a draft is of the library.
LEMMA CiteKeeps == SearchInvariant /\ Cite => SearchInvariant'
<1> SUFFICES ASSUME SearchInvariant, Cite
             PROVE  SearchInvariant'
  OBVIOUS
<1>1. /\ stage' = "done" /\ cited' = Evidence(answer.sources)
      /\ UNCHANGED <<library, asked>> /\ UNCHANGED <<modelCalls, found, hits, answer>>
  BY DEF Cite
<1>2. /\ library \in Libraries /\ asked \in Calls \union {ReviewCall}
      /\ answer.sources \in Seq(HitsOf(library))
  BY DEF SearchInvariant
<1>3. Evidence(answer.sources) \in Seq(HitsOf(library))
  BY <1>2, CitedAre
<1>4. "done" \in Stages
  BY DEF Stages
<1>5. Kept("done", modelCalls, found, hits, answer, Evidence(answer.sources))
  BY <1>3, <1>4, InvariantKept DEF Kept
<1> QED
  BY <1>1, <1>5, StepKeeps

\* A review finds what may answer it, and its warnings are of the library.
LEMMA WarnKeeps == SearchInvariant /\ Warn => SearchInvariant'
<1> SUFFICES ASSUME SearchInvariant, Warn
             PROVE  SearchInvariant'
  OBVIOUS
<1> DEFINE f == Searched(ReviewQuery)
<1>1. /\ stage' = "done" /\ found' = f /\ hits' = f /\ cited' = Warnings(f)
      /\ asked.use = "review"
      /\ UNCHANGED <<library, asked>> /\ UNCHANGED <<modelCalls, answer>>
  BY DEF Warn
<1>2. Query = ReviewQuery
  BY <1>1 DEF Query
<1>3. library \in Libraries /\ QueryOK(ReviewQuery) /\ asked \in Calls \union {ReviewCall}
  BY QueriesAre DEF SearchInvariant
<1>4. f \in Seq(Answers(library, Query)) /\ Len(f) <= Limit(Query)
  BY <1>2, <1>3, SearchedIs
<1> HIDE DEF f
<1>5. f \in Seq(HitsOf(library))
  BY <1>4, AnswersAreHits
<1>6. Warnings(f) \in Seq(HitsOf(library))
  BY <1>3, <1>5, CitedAre
<1>7. "done" \in Stages
  BY DEF Stages
<1>8. Kept("done", modelCalls, f, f, answer, Warnings(f))
  BY <1>4, <1>5, <1>6, <1>7, InvariantKept DEF Kept
<1> QED
  BY <1>1, <1>8, StepKeeps

\* Every step keeps the invariant.
LEMMA SearchInvariantNext ==
  SearchInvariant /\ [RetrievalNext]_retrievalVars => SearchInvariant'
<1> SUFFICES ASSUME SearchInvariant, [RetrievalNext]_retrievalVars
             PROVE  SearchInvariant'
  OBVIOUS
<1>1. CASE Decline
  BY <1>1, DeclineKeeps
<1>2. CASE AnswerFromInput
  BY <1>2, AnswerFromInputKeeps
<1>3. CASE Search
  BY <1>3, SearchKeeps
<1>4. CASE SearchFails
  BY <1>4, SearchFailsKeeps
<1>5. CASE LeaveOrder \/ AskModel \/ AskOtherwise \/ ModelFails
  BY <1>5, WaitingKeeps
<1>6. CASE \E n \in 0..RankingLimit : \E ranking \in [1..n -> 0..Window] : ModelRanks(ranking)
  BY <1>6, ModelRanksKeeps
<1>7. CASE Answer
  BY <1>7, AnswerKeeps
<1>8. CASE Cite
  BY <1>8, CiteKeeps
<1>9. CASE Warn
  BY <1>9, WarnKeeps
<1>10. CASE UNCHANGED retrievalVars
  <2>1. /\ UNCHANGED <<library, asked>>
        /\ UNCHANGED <<stage, modelCalls, found, hits, answer, cited>>
    BY <1>10 DEF retrievalVars
  <2>2. Kept(stage', modelCalls', found', hits', answer', cited')
    BY <2>1, InvariantKept
  <2> QED
    BY <2>1, <2>2, StepKeeps
<1> QED
  BY <1>1, <1>2, <1>3, <1>4, <1>5, <1>6, <1>7, <1>8, <1>9, <1>10 DEF RetrievalNext

(***************************************************************************)
(* The steps of a call keep its hits those of the library, found for its   *)
(* query, and make its answer of all of them.                              *)
(***************************************************************************)
THEOREM SearchHolds == RetrievalSpec => []SearchInvariant
<1>1. RetrievalInit => SearchInvariant
  BY SearchInvariantInit
<1>2. SearchInvariant /\ [RetrievalNext]_retrievalVars => SearchInvariant'
  BY SearchInvariantNext
<1> QED
  BY <1>1, <1>2, PTL DEF RetrievalSpec

(***************************************************************************)
(* Never more hits than asked for, of no kind that was not, and each of a  *)
(* passage of the library and of its kind; the model is asked twice at     *)
(* most: in every call, for any library and query.                         *)
(***************************************************************************)
THEOREM SearchTypes == RetrievalSpec => []RetrievalTypeOK
<1>1. SearchInvariant => RetrievalTypeOK
  <2> SUFFICES ASSUME SearchInvariant
               PROVE  RetrievalTypeOK
    OBVIOUS
  <2>1. /\ library \in Libraries /\ asked \in Calls \union {ReviewCall}
        /\ stage \in Stages /\ modelCalls \in 0..2
        /\ found \in Seq(Answers(library, Query)) /\ Len(found) <= Limit(Query)
        /\ hits \in Seq(HitsOf(library)) /\ cited \in Seq(HitsOf(library))
        /\ answer.confidence \in {"low", "medium", "high"}
    BY DEF SearchInvariant
  <2>2. \A h \in Range(found) : h \in Answers(library, Query)
    BY <2>1 DEF Range
  <2>3. Query.types # {}
    BY <2>1, QueriesAre
  <2>4. \A h \in Range(found) : h.type \in Query.types
    BY <2>2, <2>3 DEF Answers
  <2>5. \A h \in Range(found) \union Range(hits) \union Range(cited) : h \in HitsOf(library)
    <3>1. \A h \in Range(found) : h \in HitsOf(library)
      BY <2>2 DEF Answers
    <3>2. \A h \in Range(hits) \union Range(cited) : h \in HitsOf(library)
      BY <2>1 DEF Range
    <3> QED
      BY <3>1, <3>2
  <2>6. \A h \in Range(found) \union Range(hits) \union Range(cited) :
          h.passage \in DOMAIN library /\ h.type = library[h.passage].type
    BY <2>5 DEF HitsOf, HitOf
  <2> QED
    BY <2>1, <2>4, <2>6 DEF RetrievalTypeOK
<1> QED
  BY <1>1, SearchHolds, PTL

(***************************************************************************)
(* An answer has every text that was found as a source, once, whatever the *)
(* language model made of their order; a passage with a location is not    *)
(* there twice; and the answer is given as sure only for a question on     *)
(* rules with both kinds of rule found: in every call, for any library,    *)
(* query and ranking.                                                      *)
(***************************************************************************)
THEOREM AnswersRestOnSearches == RetrievalSpec => []AnswerRestsOnSearch
<1>1. SearchInvariant => AnswerRestsOnSearch
  <2> SUFFICES ASSUME SearchInvariant, stage = "answered", asked.kind # "current_input"
               PROVE  /\ {SourceKey(s) : s \in Range(answer.sources)}
                         = {SourceKey(h) : h \in Range(found)}
                      /\ \A i, j \in DOMAIN answer.sources : i # j =>
                           /\ SourceKey(answer.sources[i]) # SourceKey(answer.sources[j])
                           /\ answer.sources[i].passage = answer.sources[j].passage =>
                                library[answer.sources[i].passage].place = 0
                      /\ answer.confidence = "high" <=>
                           asked.kind = "policy"
                           /\ {"sop", "nxi"} \subseteq {h.type : h \in Range(found)}
    BY DEF AnswerRestsOnSearch
  <2> DEFINE sources == Sources(hits)
  <2>1. answer.sources = sources /\ answer.confidence = Confidence(asked.kind, sources)
    BY DEF SearchInvariant
  <2>2. hits \in Seq(HitsOf(library)) /\ Range(hits) = Range(found)
    BY DEF SearchInvariant
  <2>3. /\ sources \in Seq(HitsOf(library))
        /\ {SourceKey(s) : s \in Range(sources)} = {SourceKey(h) : h \in Range(hits)}
        /\ \A i, j \in DOMAIN sources : i # j => SourceKey(sources[i]) # SourceKey(sources[j])
    BY <2>2, SourcesAre
  <2> HIDE DEF sources
  <2>4. ASSUME NEW i \in DOMAIN sources, NEW j \in DOMAIN sources, i # j,
               sources[i].passage = sources[j].passage
        PROVE  library[sources[i].passage].place = 0
    <3>1. HitOf(sources[i], library[sources[i].passage])
          /\ HitOf(sources[j], library[sources[j].passage])
      BY <2>3 DEF HitsOf
    <3>2. SUFFICES ASSUME library[sources[i].passage].place # 0
                   PROVE  FALSE
      OBVIOUS
    <3>3. /\ sources[i].type = sources[j].type /\ sources[i].path = sources[j].path
          /\ sources[i].text = sources[j].text /\ sources[i].place = sources[j].place
      BY <2>4, <3>1, <3>2 DEF HitOf
    <3>4. SourceKey(sources[i]) = SourceKey(sources[j])
      BY <3>3 DEF SourceKey
    <3> QED
      BY <2>3, <2>4, <3>4
  <2>5. {s.type : s \in Range(sources)} = {h.type : h \in Range(hits)}
    <3>1. \A h, g : SourceKey(h) = SourceKey(g) => h.type = g.type
      BY DEF SourceKey
    <3>2. \A s \in Range(sources) : \E h \in Range(hits) : SourceKey(s) = SourceKey(h)
      BY <2>3
    <3>3. \A h \in Range(hits) : \E s \in Range(sources) : SourceKey(s) = SourceKey(h)
      BY <2>3
    <3> QED
      BY <3>1, <3>2, <3>3
  <2>6. answer.confidence = "high" <=>
          asked.kind = "policy" /\ {"sop", "nxi"} \subseteq {s.type : s \in Range(sources)}
    BY <2>1, <2>3, ConfidenceIs
  <2>7. \A i, j \in DOMAIN answer.sources : i # j =>
          /\ SourceKey(answer.sources[i]) # SourceKey(answer.sources[j])
          /\ answer.sources[i].passage = answer.sources[j].passage =>
               library[answer.sources[i].passage].place = 0
    BY <2>1, <2>3, <2>4
  <2>8. answer.confidence = "high" <=>
          asked.kind = "policy" /\ {"sop", "nxi"} \subseteq {h.type : h \in Range(found)}
    BY <2>2, <2>5, <2>6
  <2> QED
    BY <2>1, <2>2, <2>3, <2>7, <2>8
<1> QED
  BY <1>1, SearchHolds, PTL
=============================================================================
