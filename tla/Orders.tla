-------------------------------- MODULE Orders -------------------------------
(***************************************************************************)
(* Sequences put in order, and selections from them, by counting places:   *)
(* how many elements go before each.                                       *)
(***************************************************************************)
EXTENDS Integers, Sequences, FiniteSets

(* A set in the order of keys, sequences of numbers no two of which are    *)
(* equal: before an element are as many as its place says.                 *)
Precedes(k, l) ==
  \E i \in DOMAIN k : k[i] < l[i] /\ \A j \in 1..i - 1 : k[j] = l[j]
InOrder(I, key) ==
  LET rank == [i \in I |-> Cardinality({j \in I : Precedes(key[j], key[i])})]
  IN  [n \in 1..Cardinality(I) |-> CHOOSE i \in I : rank[i] = n - 1]

(* What a sequence has at some places, and all of it in the order of a key *)
(* for each place; ties stay as they are.                                  *)
At(s, places)     == [n \in DOMAIN places |-> s[places[n]]]
Picked(s, I)      == At(s, InOrder(I, [i \in I |-> <<i>>]))
Sorted(s, key)    == At(s, InOrder(DOMAIN s, [i \in DOMAIN s |-> Append(key[i], i)]))

(* What is first of its key; the rest goes.                                *)
FirstOf(s, key) == Picked(s, {k \in DOMAIN s : \A j \in 1..k - 1 : key[j] # key[k]})
=============================================================================
