-------------------------- MODULE CaseReview_proofs --------------------------
(***************************************************************************)
(* The review of the Case Matrix for any products, cards and scopes.  The  *)
(* first part is about rows: what normalization keeps, what it adds and    *)
(* that it comes to rest, and what the verdict says of an open Case.  The  *)
(* second is about the page: every answer that still counts carries what   *)
(* is typed, and it does not matter which of them is adopted first.        *)
(***************************************************************************)
EXTENDS CaseReview, SequenceTheorems, FiniteSetTheorems, FunctionTheorems,
        WellFoundedInduction, TLAPS

-----------------------------------------------------------------------------
(* Positions.                                                              *)

(* A nonempty set of numbers has a least one.                              *)
LEMMA LeastNumber ==
  ASSUME NEW T \in SUBSET Nat, T # {}
  PROVE  \E x \in T : \A y \in T : x <= y
<1>1. PICK x \in T : \A y \in T : ~(<<y, x>> \in OpToRel(<, Nat))
  BY NatLessThanWellFounded, WFMin
<1>2. ASSUME NEW y \in T, y < x
      PROVE  FALSE
  <2>1. <<y, x>> \in Nat \X Nat /\ <<y, x>>[1] < <<y, x>>[2]
    BY <1>2
  <2>2. <<y, x>> \in OpToRel(<, Nat)
    BY <2>1 DEF OpToRel
  <2> QED
    BY <1>1, <2>2
<1> QED
  BY <1>2

\* The place of i among the numbers of I.
Place(I, i) == Cardinality({j \in I : j <= i})

(***************************************************************************)
(* Ascending enumerates a finite set of numbers: the number at place k is  *)
(* the one with k numbers up to it.                                        *)
(***************************************************************************)
LEMMA AscendingIs ==
  ASSUME NEW I \in SUBSET Nat, IsFiniteSet(I)
  PROVE  /\ Cardinality(I) \in Nat
         /\ Ascending(I) \in [1..Cardinality(I) -> I]
         /\ \A k \in 1..Cardinality(I) : Place(I, Ascending(I)[k]) = k
         /\ \A i \in I : Place(I, i) \in 1..Cardinality(I) /\ Ascending(I)[Place(I, i)] = i
<1> DEFINE n == Cardinality(I)
           place == [i \in I |-> Place(I, i)]
<1>1. n \in Nat
  BY FS_CardinalityType
<1>2. ASSUME NEW i \in I
      PROVE  Place(I, i) \in 1..n
  <2>1. {j \in I : j <= i} \subseteq I
    OBVIOUS
  <2>2. IsFiniteSet({j \in I : j <= i}) /\ Place(I, i) <= n
    BY <2>1, FS_Subset DEF Place
  <2>3. Place(I, i) \in Nat
    BY <2>2, FS_CardinalityType DEF Place
  <2>4. {j \in I : j <= i} # {}
    OBVIOUS
  <2>5. Place(I, i) # 0
    BY <2>2, <2>4, FS_EmptySet DEF Place
  <2> QED
    BY <1>1, <2>2, <2>3, <2>5
<1>3. ASSUME NEW i \in I, NEW j \in I, i < j
      PROVE  Place(I, i) # Place(I, j)
  <2> DEFINE low  == {m \in I : m <= i}
             high == {m \in I : m <= j}
  <2>1. i \in Nat /\ j \in Nat
    OBVIOUS
  <2>2. ASSUME NEW m \in I, m <= i
        PROVE  m <= j
    <3>1. m \in Nat
      OBVIOUS
    <3> QED
      BY <1>3, <2>1, <2>2, <3>1
  <2>3. low \subseteq high
    BY <2>2
  <2>4. j \in high /\ j \notin low
    BY <1>3, <2>1
  <2>5. IsFiniteSet(high)
    BY FS_Subset
  <2>6. Cardinality(high) = Cardinality(low) => high = low
    BY <2>3, <2>5, FS_Subset
  <2> QED
    BY <2>4, <2>6 DEF Place
<1>4. place \in Injection(I, 1..n)
  <2>1. place \in [I -> 1..n]
    BY <1>2
  <2>2. \A i, j \in I : place[i] = place[j] => i = j
    <3> SUFFICES ASSUME NEW i \in I, NEW j \in I, i # j
                 PROVE  place[i] # place[j]
      OBVIOUS
    <3>1. i < j \/ j < i
      OBVIOUS
    <3> QED
      BY <3>1, <1>3
  <2> QED
    BY <2>1, <2>2 DEF Injection, IsInjective
<1>5. IsFiniteSet(1..n) /\ Cardinality(1..n) = n
  BY <1>1, FS_Interval
<1>6. place \in Surjection(I, 1..n)
  BY <1>4, <1>5, FS_Injection
<1>7. \A k \in 1..n : \E i \in I : Place(I, i) = k
  BY <1>6 DEF Surjection
<1>8. ASSUME NEW k \in 1..n
      PROVE  Ascending(I)[k] \in I /\ Place(I, Ascending(I)[k]) = k
  <2>1. Ascending(I)[k] = CHOOSE i \in I : Place(I, i) = k
    BY DEF Ascending, Place
  <2> QED
    BY <2>1, <1>7
<1>9. Ascending(I) \in [1..n -> I]
  BY <1>8 DEF Ascending
<1>10. ASSUME NEW i \in I
       PROVE  Ascending(I)[Place(I, i)] = i
  <2> DEFINE j == Ascending(I)[Place(I, i)]
  <2>1. j \in I /\ Place(I, j) = Place(I, i)
    BY <1>2, <1>8
  <2>2. ~(i < j) /\ ~(j < i)
    BY <2>1, <1>3
  <2>3. i \in Nat /\ j \in Nat
    BY <2>1
  <2> QED
    BY <2>2, <2>3
<1> QED
  BY <1>1, <1>2, <1>8, <1>9, <1>10

(* The numbers of an interval are in their order.                          *)
LEMMA AscendingInterval ==
  ASSUME NEW a \in Nat, NEW n \in Nat
  PROVE  /\ IsFiniteSet((a + 1)..(a + n)) /\ Cardinality((a + 1)..(a + n)) = n
         /\ Ascending((a + 1)..(a + n)) = [k \in 1..n |-> a + k]
<1> DEFINE I == (a + 1)..(a + n)
<1>1. IsFiniteSet(I) /\ Cardinality(I) = n
  BY FS_Interval
<1>2. I \in SUBSET Nat
  OBVIOUS
<1>3. ASSUME NEW k \in 1..n
      PROVE  Ascending(I)[k] = a + k
  <2>1. a + k \in I
    OBVIOUS
  <2>2. {j \in I : j <= a + k} = (a + 1)..(a + k)
    OBVIOUS
  <2>3. Cardinality((a + 1)..(a + k)) = k
    BY FS_Interval
  <2>4. Place(I, a + k) = k
    BY <2>2, <2>3 DEF Place
  <2> HIDE DEF I
  <2> QED
    BY <1>1, <1>2, <2>1, <2>4, AscendingIs
<1>4. Ascending(I) \in [1..n -> I]
  <2> HIDE DEF I
  <2> QED
    BY <1>1, <1>2, AscendingIs
<1> QED
  BY <1>1, <1>3, <1>4

(***************************************************************************)
(* What is kept are the elements at the positions of I, each once.         *)
(***************************************************************************)
LEMMA KeptIs ==
  ASSUME NEW n \in Nat, NEW I \in SUBSET (1..n), NEW s
  PROVE  /\ IsFiniteSet(I) /\ Cardinality(I) \in Nat
         /\ DOMAIN Kept(s, I) = 1..Cardinality(I)
         /\ Len(Kept(s, I)) = Cardinality(I)
         /\ \A k \in 1..Cardinality(I) : /\ Ascending(I)[k] \in I
                                         /\ Kept(s, I)[k] = s[Ascending(I)[k]]
         /\ \A k, l \in 1..Cardinality(I) : k # l => Ascending(I)[k] # Ascending(I)[l]
         /\ \A i \in I : /\ Place(I, i) \in 1..Cardinality(I)
                         /\ Ascending(I)[Place(I, i)] = i
                         /\ Kept(s, I)[Place(I, i)] = s[i]
<1>1. IsFiniteSet(1..n)
  BY FS_Interval
<1>2. I \in SUBSET Nat /\ IsFiniteSet(I)
  <2>1. 1..n \subseteq Nat
    OBVIOUS
  <2> QED
    BY <1>1, <2>1, FS_Subset
<1>3. /\ Cardinality(I) \in Nat
      /\ \A k \in 1..Cardinality(I) : Ascending(I)[k] \in I /\ Place(I, Ascending(I)[k]) = k
      /\ \A i \in I : Place(I, i) \in 1..Cardinality(I) /\ Ascending(I)[Place(I, i)] = i
  BY <1>2, AscendingIs
<1>4. /\ DOMAIN Kept(s, I) = 1..Cardinality(I)
      /\ \A k \in 1..Cardinality(I) : Kept(s, I)[k] = s[Ascending(I)[k]]
  BY DEF Kept
<1>5. Len(Kept(s, I)) = Cardinality(I)
  BY <1>3, IsASeq DEF Kept
<1> QED
  BY <1>2, <1>3, <1>4, <1>5

(* Every element kept has its position, and every position its element.    *)
LEMMA KeptHas ==
  ASSUME NEW n \in Nat, NEW I \in SUBSET (1..n), NEW s, NEW i \in I
  PROVE  Place(I, i) \in 1..Len(Kept(s, I)) /\ Kept(s, I)[Place(I, i)] = s[i]
<1> I \in SUBSET Nat
  OBVIOUS
<1>1. Len(Kept(s, I)) = Cardinality(I) /\ IsFiniteSet(I)
  BY KeptIs
<1>2. Place(I, i) \in 1..Cardinality(I) /\ Ascending(I)[Place(I, i)] = i
  BY <1>1, AscendingIs
<1> QED
  BY <1>1, <1>2 DEF Kept

\* Every entry of the subsequence is the entry of a kept position.
LEMMA KeptFrom ==
  ASSUME NEW n \in Nat, NEW I \in SUBSET (1..n), NEW s, NEW k \in 1..Len(Kept(s, I))
  PROVE  Ascending(I)[k] \in I /\ Kept(s, I)[k] = s[Ascending(I)[k]]
<1> I \in SUBSET Nat
  OBVIOUS
<1>1. Len(Kept(s, I)) = Cardinality(I) /\ IsFiniteSet(I)
  BY KeptIs
<1>2. Ascending(I)[k] \in I
  BY <1>1, AscendingIs
<1> QED
  BY <1>1, <1>2 DEF Kept

(* It is a sequence of what s has at these positions.                      *)
LEMMA KeptType ==
  ASSUME NEW n \in Nat, NEW I \in SUBSET (1..n), NEW s, NEW T, \A i \in I : s[i] \in T
  PROVE  Kept(s, I) \in Seq(T)
<1>1. /\ Cardinality(I) \in Nat
      /\ \A k \in 1..Cardinality(I) : s[Ascending(I)[k]] \in T
  BY KeptIs
<1> QED
  BY <1>1 DEF Kept

(* Nothing is kept at no position.                                         *)
LEMMA KeptNothing ==
  ASSUME NEW s
  PROVE  Kept(s, {}) = << >>
<1>1. Cardinality({}) = 0
  BY FS_EmptySet
<1>2. 1..Cardinality({}) = {}
  BY <1>1
<1>3. Kept(s, {}) = [k \in {} |-> s[Ascending({})[k]]]
  BY <1>2 DEF Kept
<1> QED
  BY <1>3

-----------------------------------------------------------------------------
(* Rows.                                                                   *)

\* The rows of one scope, by their positions.
Mine(rows, scope) == {i \in 1..Len(rows) : rows[i].scope = scope}

\* Rows that the page and the server tell apart by their names.
Named(rows) == \A i, j \in 1..Len(rows) : i # j => CaseId(rows[i]) # CaseId(rows[j])

\* What the server makes of the rows it is sent with one record of options.
Brought(rows, content, known) == Normal(rows, content, [s \in Range(Scopes) |-> known])

(* None is no source, and there are one or two scopes.                     *)
LEMMA Constants ==
  /\ None \notin Sources
  /\ Products \in Seq(Range(Products)) /\ Cards \in Seq(Range(Cards))
  /\ Len(Products) \in Nat \ {0} /\ Len(Cards) \in Nat
  /\ \A k \in 1..Len(Products) : Products[k] \in Range(Products)
  /\ \A k \in 1..Len(Cards) : Cards[k] \in Range(Cards)
  /\ \A p \in Range(Products) : \E k \in 1..Len(Products) : Products[k] = p
  /\ Range(Products) \subseteq Sources /\ Range(Cards) \subseteq Sources
  /\ \A c \in Range(Cards) : CardScope[c] \in Range(Scopes)
<1>1. Products \in Seq(Range(Products)) /\ Cards \in Seq(Range(Cards)) /\ Products # << >>
  BY SourcesAssumption
<1>2. /\ Len(Products) \in Nat /\ DOMAIN Products = 1..Len(Products)
      /\ Len(Cards) \in Nat /\ DOMAIN Cards = 1..Len(Cards)
  BY <1>1, LenProperties
<1>3. Len(Products) # 0
  BY <1>1, EmptySeq
<1> QED
  BY <1>1, <1>2, <1>3, SourcesAssumption, ScopesAssumption DEF Sources, Range

(* A sequence of one element, and of two.                                  *)
LEMMA OneElement ==
  ASSUME NEW x
  PROVE  /\ <<x>> \in Seq({x}) /\ Len(<<x>>) = 1 /\ <<x>>[1] = x
         /\ Range(<<x>>) = {x} /\ {<<x>>[k] : k \in 1..Len(<<x>>)} = {x}
<1> DEFINE s == <<x>>
<1>1. Len(s) = 1 /\ s[1] = x /\ s \in Seq({x})
  OBVIOUS
<1> HIDE DEF s
<1>2. DOMAIN s = 1..Len(s)
  BY <1>1, LenProperties
<1>3. DOMAIN s = {1} /\ 1..Len(s) = {1}
  BY <1>1, <1>2
<1>4. Range(s) = {x} /\ {s[k] : k \in 1..Len(s)} = {x}
  BY <1>1, <1>3 DEF Range
<1> QED
  BY <1>1, <1>4 DEF s

\* A sequence of two elements.
LEMMA TwoElements ==
  ASSUME NEW x, NEW y
  PROVE  /\ <<x, y>> \in Seq({x, y}) /\ Len(<<x, y>>) = 2
         /\ <<x, y>>[1] = x /\ <<x, y>>[2] = y
         /\ Range(<<x, y>>) = {x, y} /\ {<<x, y>>[k] : k \in 1..Len(<<x, y>>)} = {x, y}
<1> DEFINE s == <<x, y>>
<1>1. Len(s) = 2 /\ s[1] = x /\ s[2] = y /\ s \in Seq({x, y})
  OBVIOUS
<1> HIDE DEF s
<1>2. DOMAIN s = 1..Len(s)
  BY <1>1, LenProperties
<1>3. DOMAIN s = {1, 2} /\ 1..Len(s) = {1, 2}
  BY <1>1, <1>2
<1>4. Range(s) = {x, y} /\ {s[k] : k \in 1..Len(s)} = {x, y}
  BY <1>1, <1>3 DEF Range
<1> QED
  BY <1>1, <1>4 DEF s

\* The scopes of a request: one or two, and a request without a scope of its own has just one.
LEMMA ScopesAre ==
  /\ Scopes \in Seq(Range(Scopes)) /\ Len(Scopes) \in {1, 2}
  /\ Range(Scopes) = {Scopes[k] : k \in 1..Len(Scopes)}
  /\ Len(Scopes) = 1 => Range(Scopes) = {Scopes[1]}
  /\ Len(Scopes) = 2 => /\ Range(Scopes) = {Scopes[1], Scopes[2]}
                        /\ Scopes[1] = "indoor" /\ Scopes[2] = "outdoor"
  /\ Whole \in Range(Scopes) => Scopes = <<Whole>>
<1>1. CASE Scopes = <<"indoor", "outdoor">>
  <2>1. /\ Len(Scopes) = 2 /\ Scopes[1] = "indoor" /\ Scopes[2] = "outdoor"
        /\ Range(Scopes) = {"indoor", "outdoor"}
        /\ Range(Scopes) = {Scopes[k] : k \in 1..Len(Scopes)}
        /\ Scopes \in Seq({"indoor", "outdoor"})
    BY <1>1, TwoElements
  <2>2. Whole \notin {"indoor", "outdoor"}
    BY DEF Whole
  <2> QED
    BY <2>1, <2>2
<1>2. ASSUME NEW s \in {Whole, "indoor", "outdoor"}, Scopes = <<s>>
      PROVE  /\ Scopes \in Seq(Range(Scopes)) /\ Len(Scopes) = 1
             /\ Range(Scopes) = {Scopes[k] : k \in 1..Len(Scopes)}
             /\ Range(Scopes) = {Scopes[1]}
             /\ Whole \in Range(Scopes) => Scopes = <<Whole>>
  <2>1. /\ Len(Scopes) = 1 /\ Scopes[1] = s /\ Range(Scopes) = {s}
        /\ Range(Scopes) = {Scopes[k] : k \in 1..Len(Scopes)}
        /\ Scopes \in Seq({s})
    BY <1>2, OneElement
  <2> QED
    BY <1>2, <2>1
<1> QED
  BY <1>1, <1>2, ScopesAssumption

(* The elements of a sequence are those at its positions.                  *)
LEMMA RangeIs ==
  ASSUME NEW T, NEW s \in Seq(T)
  PROVE  /\ Len(s) \in Nat /\ DOMAIN s = 1..Len(s)
         /\ Range(s) = {s[k] : k \in 1..Len(s)} /\ Range(s) \subseteq T
         /\ \A k \in 1..Len(s) : s[k] \in T /\ s[k] \in Range(s)
         /\ s # << >> => Len(s) >= 1 /\ s[1] \in Range(s)
<1>1. Len(s) \in Nat /\ DOMAIN s = 1..Len(s) /\ \A k \in 1..Len(s) : s[k] \in T
  OBVIOUS
<1>2. Range(s) = {s[k] : k \in 1..Len(s)}
  BY <1>1 DEF Range
<1>3. Range(s) \subseteq T /\ \A k \in 1..Len(s) : s[k] \in T /\ s[k] \in Range(s)
  BY <1>1, <1>2
<1>4. s # << >> => Len(s) # 0
  BY EmptySeq
<1>5. s # << >> => Len(s) >= 1 /\ s[1] \in Range(s)
  <2> SUFFICES ASSUME s # << >>
               PROVE  Len(s) >= 1 /\ s[1] \in Range(s)
    OBVIOUS
  <2>1. Len(s) >= 1
    BY <1>1, <1>4
  <2>2. 1 \in 1..Len(s)
    BY <1>1, <2>1
  <2> QED
    BY <1>3, <2>1, <2>2
<1> QED
  BY <1>1, <1>2, <1>3, <1>5

\* A selection that is still an option.
Valid(row, f, content) == row.pick[f] \in Range(Options(content, row.scope, f))

\* A selection left open that normalization fills in, if there is an option.
Unanswered(row, f, content) ==
  \/ row.pick = NoPick /\ row.lost = NoPick
  \/ /\ f = "condition" /\ row.auto \in UsableProducts(content)
     /\ row.pick[f] = None /\ row.lost[f] = None

(* A field's options are sources, so that None is not one of them; every   *)
(* usable product is an option.                                            *)
LEMMA OptionsAre ==
  ASSUME NEW content, NEW scope
  PROVE  /\ Options(content, scope, "geometry") \in Seq(Range(Products))
         /\ Options(content, scope, "condition") \in Seq(Range(Cards))
         /\ \A p \in UsableProducts(content) :
              p \in Range(Products) /\ p \in Range(Options(content, scope, "geometry"))
<1> DEFINE I == {k \in 1..Len(Products) : content[Products[k]] # Unfilled}
           J == {k \in 1..Len(Cards) : /\ CardScope[Cards[k]] = scope
                                       /\ content[Cards[k]] # Unfilled}
<1>1. Options(content, scope, "geometry") = Kept(Products, I)
  BY DEF Options
<1>2. Options(content, scope, "condition") = Kept(Cards, J)
  BY DEF Options
<1>3. I \in SUBSET (1..Len(Products)) /\ \A k \in I : Products[k] \in Range(Products)
  BY Constants
<1>4. J \in SUBSET (1..Len(Cards)) /\ \A k \in J : Cards[k] \in Range(Cards)
  BY Constants
<1>5. Kept(Products, I) \in Seq(Range(Products))
  <2> HIDE DEF I
  <2> QED
    BY <1>3, Constants, KeptType
<1>6. Kept(Cards, J) \in Seq(Range(Cards))
  <2> HIDE DEF J
  <2> QED
    BY <1>4, Constants, KeptType
<1>7. ASSUME NEW p \in UsableProducts(content)
      PROVE  p \in Range(Products) /\ p \in Range(Kept(Products, I))
  <2>1. p \in Range(Products) /\ content[p] # Unfilled
    BY <1>7 DEF UsableProducts
  <2>2. PICK k \in 1..Len(Products) : Products[k] = p
    BY <2>1, Constants
  <2>3. k \in I
    BY <2>1, <2>2
  <2> HIDE DEF I
  <2>4. Len(Products) \in Nat /\ I \in SUBSET (1..Len(Products))
    BY <1>3, Constants
  <2>5. /\ Place(I, k) \in 1..Len(Kept(Products, I))
        /\ Kept(Products, I)[Place(I, k)] = Products[k]
    BY <2>3, <2>4, KeptHas
  <2>6. DOMAIN Kept(Products, I) = 1..Len(Kept(Products, I))
    BY <2>4, KeptIs
  <2> QED
    BY <2>1, <2>2, <2>5, <2>6 DEF Range
<1> QED
  BY <1>1, <1>2, <1>5, <1>6, <1>7

(* The same for either field.                                              *)
LEMMA AnyOptions ==
  ASSUME NEW content, NEW scope, NEW f \in Fields
  PROVE  /\ Range(Options(content, scope, f)) \subseteq Sources
         /\ None \notin Range(Options(content, scope, f))
         /\ Options(content, scope, f) # << >> =>
              Options(content, scope, f)[1] \in Range(Options(content, scope, f))
<1> DEFINE o == Options(content, scope, f)
<1>1. o \in Seq(Range(Products)) \/ o \in Seq(Range(Cards))
  BY OptionsAre DEF Fields
<1> HIDE DEF o
<1>2. /\ Range(o) \subseteq Range(Products) \/ Range(o) \subseteq Range(Cards)
      /\ o # << >> => o[1] \in Range(o)
  BY <1>1, RangeIs
<1>3. Range(o) \subseteq Sources
  BY <1>2, Constants
<1> QED
  BY <1>2, <1>3, Constants DEF o

(***************************************************************************)
(* A row after normalization, column by column.                            *)
(***************************************************************************)
LEMMA NormalRowIs ==
  ASSUME NEW content, NEW r \in Rows
  PROVE  /\ NormalRow(r, content) \in Rows
         /\ NormalRow(r, content).id = r.id /\ NormalRow(r, content).scope = r.scope
         /\ NormalRow(r, content).auto =
              IF r.auto \in UsableProducts(content) THEN r.auto ELSE None
         /\ \A f \in Fields :
              IF Valid(r, f, content)
              THEN /\ NormalRow(r, content).pick[f] = r.pick[f]
                   /\ NormalRow(r, content).lost[f] = None
              ELSE /\ NormalRow(r, content).pick[f] =
                        IF /\ Options(content, r.scope, f) # << >>
                           /\ Unanswered(r, f, content)
                        THEN Options(content, r.scope, f)[1] ELSE None
                   /\ NormalRow(r, content).lost[f] =
                        IF r.pick[f] # None THEN r.pick[f] ELSE r.lost[f]
<1> DEFINE auto == IF r.auto \in UsableProducts(content) THEN r.auto ELSE None
           pick == [f \in Fields |->
                      CASE Valid(r, f, content) -> r.pick[f]
                        [] /\ ~Valid(r, f, content) /\ Options(content, r.scope, f) # << >>
                           /\ Unanswered(r, f, content) -> Options(content, r.scope, f)[1]
                        [] OTHER -> None]
           lost == [f \in Fields |->
                      CASE Valid(r, f, content) -> None
                        [] ~Valid(r, f, content) /\ r.pick[f] # None -> r.pick[f]
                        [] OTHER -> r.lost[f]]
           new  == [r EXCEPT !.auto = auto, !.pick = pick, !.lost = lost]
<1>1. None \notin UsableProducts(content)
  BY Constants DEF UsableProducts
<1>2. /\ r.id \in Nat \ {0} /\ r.scope \in Range(Scopes) /\ r.auto \in Range(Products) \cup {None}
      /\ r.pick \in [Fields -> Sources \cup {None}] /\ r.lost \in [Fields -> Sources \cup {None}]
  BY DEF Rows
<1>3. \A f \in Fields :
        /\ f = "condition" /\ auto # None /\ r.pick[f] = None /\ r.lost[f] = None
        <=> /\ f = "condition" /\ r.auto \in UsableProducts(content)
            /\ r.pick[f] = None /\ r.lost[f] = None
  BY <1>1
<1>4. NormalRow(r, content) = new
  BY <1>3 DEF NormalRow, Valid, Unanswered
<1>5. \A f \in Fields :
        IF Valid(r, f, content)
        THEN pick[f] = r.pick[f] /\ lost[f] = None
        ELSE /\ pick[f] = IF Options(content, r.scope, f) # << >> /\ Unanswered(r, f, content)
                          THEN Options(content, r.scope, f)[1] ELSE None
             /\ lost[f] = IF r.pick[f] # None THEN r.pick[f] ELSE r.lost[f]
  OBVIOUS
<1>6. auto \in Range(Products) \cup {None}
  BY DEF UsableProducts
<1>7. pick \in [Fields -> Sources \cup {None}]
  <2> SUFFICES ASSUME NEW f \in Fields
               PROVE  pick[f] \in Sources \cup {None}
    OBVIOUS
  <2>1. Options(content, r.scope, f) # << >> => Options(content, r.scope, f)[1] \in Sources
    BY AnyOptions
  <2> HIDE DEF pick
  <2> QED
    BY <1>2, <1>5, <2>1
<1>8. lost \in [Fields -> Sources \cup {None}]
  BY <1>2
<1> HIDE DEF auto, pick, lost
<1>9. /\ new \in Rows /\ new.id = r.id /\ new.scope = r.scope /\ new.auto = auto
      /\ new.pick = pick /\ new.lost = lost
  BY <1>2, <1>6, <1>7, <1>8 DEF Rows
<1> HIDE DEF new
<1> QED
  BY <1>4, <1>5, <1>9 DEF auto

(* What a row is made of.                                                  *)
LEMMA RowFields ==
  ASSUME NEW r \in Rows
  PROVE  /\ r.id \in Nat \ {0} /\ r.scope \in Range(Scopes)
         /\ r.auto \in Range(Products) \cup {None}
         /\ r.pick \in [Fields -> Sources \cup {None}] /\ r.lost \in [Fields -> Sources \cup {None}]
BY DEF Rows

(* Moving a row to the scope it has changes nothing.                       *)
LEMMA SameScope ==
  ASSUME NEW r \in Rows, NEW s, r.scope = s
  PROVE  [r EXCEPT !.scope = s] = r
BY DEF Rows

(* Rows with the same fields are the same.                                 *)
LEMMA SameRow ==
  ASSUME NEW r \in Rows, NEW q \in Rows, r.id = q.id, r.scope = q.scope, r.auto = q.auto,
         \A f \in Fields : r.pick[f] = q.pick[f] /\ r.lost[f] = q.lost[f]
  PROVE  r = q
<1>1. /\ r.pick \in [Fields -> Sources \cup {None}] /\ r.lost \in [Fields -> Sources \cup {None}]
      /\ q.pick \in [Fields -> Sources \cup {None}] /\ q.lost \in [Fields -> Sources \cup {None}]
  BY DEF Rows
<1>2. r.pick = q.pick /\ r.lost = q.lost
  BY <1>1
<1> QED
  BY <1>2 DEF Rows

(* Normalization never answers for the user: it keeps a selection or takes *)
(* it out, and makes one only where none was made or lost.                 *)
LEMMA SelectionKept ==
  ASSUME NEW content, NEW r \in Rows, NEW f \in Fields
  PROVE  \/ NormalRow(r, content).pick[f] \in {r.pick[f], None}
         \/ r.pick[f] = None /\ r.lost[f] = None
<1>1. Unanswered(r, f, content) => r.pick[f] = None /\ r.lost[f] = None
  BY DEF Unanswered, NoPick
<1> QED
  BY <1>1, NormalRowIs

\* A row that normalization leaves as it is.
Resting(r, content) ==
  /\ r.auto \in UsableProducts(content) \cup {None}
  /\ \A f \in Fields :
       IF Valid(r, f, content) THEN r.lost[f] = None
       ELSE /\ r.pick[f] = None
            /\ Options(content, r.scope, f) = << >> \/ ~Unanswered(r, f, content)

\* A row at rest is left alone by the next normalization.
LEMMA RestingStays ==
  ASSUME NEW content, NEW r \in Rows, Resting(r, content)
  PROVE  NormalRow(r, content) = r
<1> DEFINE q == NormalRow(r, content)
<1>1. q \in Rows /\ q.id = r.id /\ q.scope = r.scope
  BY NormalRowIs
<1>2. None \notin UsableProducts(content)
  BY Constants DEF UsableProducts
<1>3. q.auto = r.auto
  BY <1>2, NormalRowIs DEF Resting
<1>4. ASSUME NEW f \in Fields
      PROVE  q.pick[f] = r.pick[f] /\ q.lost[f] = r.lost[f]
  BY NormalRowIs DEF Resting
<1> HIDE DEF q
<1>5. q = r
  BY <1>1, <1>3, <1>4, SameRow
<1> QED
  BY <1>5 DEF q

(* One normalization is enough.                                            *)
LEMMA NormalRowRests ==
  ASSUME NEW content, NEW r \in Rows
  PROVE  Resting(NormalRow(r, content), content)
<1> PICK q \in Rows : q = NormalRow(r, content)
  BY NormalRowIs
<1>1. /\ q.scope = r.scope
      /\ q.auto = IF r.auto \in UsableProducts(content) THEN r.auto ELSE None
  BY NormalRowIs
<1>2. None \notin UsableProducts(content)
  BY Constants DEF UsableProducts
<1>3. \A f \in Fields :
        IF Valid(r, f, content)
        THEN q.pick[f] = r.pick[f] /\ q.lost[f] = None
        ELSE /\ q.pick[f] =
                  IF Options(content, r.scope, f) # << >> /\ Unanswered(r, f, content)
                  THEN Options(content, r.scope, f)[1] ELSE None
             /\ q.lost[f] = IF r.pick[f] # None THEN r.pick[f] ELSE r.lost[f]
  BY NormalRowIs
<1>4. \A f \in Fields :
        /\ Valid(q, f, content) <=> q.pick[f] \in Range(Options(content, r.scope, f))
        /\ Valid(r, f, content) => r.pick[f] # None
  BY <1>1, AnyOptions DEF Valid
<1>5. \A f \in Fields : Unanswered(r, f, content) => r.pick[f] = None /\ r.lost[f] = None
  BY DEF Unanswered, NoPick
<1>6. ASSUME NEW f \in Fields, ~Valid(r, f, content), ~Unanswered(r, f, content)
      PROVE  ~Unanswered(q, f, content)
  <2>1. CASE q.pick = NoPick /\ q.lost = NoPick
    <3>1. \A g \in Fields : q.pick[g] = None /\ q.lost[g] = None
      BY <2>1 DEF NoPick
    <3>2. \A g \in Fields : r.pick[g] = None /\ r.lost[g] = None
      BY <1>3, <1>4, <1>5, <3>1
    <3>3. r.pick = NoPick /\ r.lost = NoPick
      BY <3>2 DEF Rows, NoPick
    <3> QED
      BY <1>6, <3>3 DEF Unanswered
  <2>2. CASE /\ f = "condition" /\ q.auto \in UsableProducts(content)
             /\ q.pick[f] = None /\ q.lost[f] = None
    <3>1. r.auto \in UsableProducts(content)
      BY <1>1, <1>2, <2>2
    <3>2. r.pick[f] = None /\ r.lost[f] = None
      BY <1>3, <1>6, <2>2
    <3> QED
      BY <1>6, <2>2, <3>1, <3>2 DEF Unanswered
  <2> QED
    BY <2>1, <2>2 DEF Unanswered
<1>7. ASSUME NEW f \in Fields
      PROVE  IF Valid(q, f, content) THEN q.lost[f] = None
             ELSE /\ q.pick[f] = None
                  /\ Options(content, q.scope, f) = << >> \/ ~Unanswered(q, f, content)
  <2>1. CASE Valid(r, f, content)
    BY <1>3, <1>4, <2>1 DEF Valid
  <2>2. CASE /\ ~Valid(r, f, content)
             /\ Options(content, r.scope, f) # << >> /\ Unanswered(r, f, content)
    <3>1. Options(content, r.scope, f)[1] \in Range(Options(content, r.scope, f))
      BY <2>2, AnyOptions
    <3>2. q.pick[f] = Options(content, r.scope, f)[1] /\ q.lost[f] = None
      BY <1>3, <1>5, <2>2
    <3> QED
      BY <1>4, <3>1, <3>2
  <2>3. CASE /\ ~Valid(r, f, content)
             /\ Options(content, r.scope, f) = << >> \/ ~Unanswered(r, f, content)
    <3>1. q.pick[f] = None
      BY <1>3, <2>3
    <3>2. ~Valid(q, f, content)
      BY <1>4, <3>1, AnyOptions
    <3> QED
      BY <1>1, <1>6, <2>3, <3>1, <3>2
  <2> QED
    BY <2>1, <2>2, <2>3
<1>8. q.auto \in UsableProducts(content) \cup {None}
  BY <1>1
<1>9. Resting(q, content)
  BY <1>7, <1>8 DEF Resting
<1> QED
  BY <1>9

(* A row the server adds is typed and rests.                               *)
LEMMA AutoRowIs ==
  ASSUME NEW content, NEW id \in Nat \ {0}, NEW scope \in Range(Scopes),
         NEW product \in UsableProducts(content)
  PROVE  LET row == AutoRow(id, scope, product, content)
         IN  /\ row \in Rows /\ row.id = id /\ row.scope = scope
             /\ Resting(row, content) /\ NormalRow(row, content) = row
<1> DEFINE conditions == Options(content, scope, "condition")
           pick == [f \in Fields |-> IF f = "geometry" THEN product
                                     ELSE IF conditions = << >> THEN None ELSE conditions[1]]
           made == [id |-> id, scope |-> scope, auto |-> product, lost |-> NoPick, pick |-> pick]
<1>1. AutoRow(id, scope, product, content) = made
  BY DEF AutoRow
<1>2. /\ product \in Range(Products) /\ product \in Sources
      /\ product \in Range(Options(content, scope, "geometry"))
  BY OptionsAre, Constants
<1>3. conditions # << >> => /\ conditions[1] \in Sources
                            /\ conditions[1] \in Range(Options(content, scope, "condition"))
  BY AnyOptions DEF Fields
<1>4. pick \in [Fields -> Sources \cup {None}]
  BY <1>2, <1>3
<1>5. pick["geometry"] = product
  BY DEF Fields
<1>6. pick["condition"] = IF conditions = << >> THEN None ELSE conditions[1]
  BY DEF Fields
<1>7. NoPick \in [Fields -> Sources \cup {None}] /\ \A f \in Fields : NoPick[f] = None
  BY DEF NoPick
<1> HIDE DEF pick
<1>8. /\ made \in Rows /\ made.id = id /\ made.scope = scope /\ made.auto = product
      /\ made.lost = NoPick /\ made.pick = pick
  BY <1>2, <1>4, <1>7 DEF Rows
<1> HIDE DEF made
<1>9. Valid(made, "geometry", content) /\ made.lost["geometry"] = None
  BY <1>2, <1>5, <1>7, <1>8 DEF Valid, Fields
<1>10. CASE conditions = << >>
  <2>1. made.pick["condition"] = None /\ ~Valid(made, "condition", content)
    BY <1>6, <1>8, <1>10, AnyOptions DEF Valid, Fields
  <2>2. Resting(made, content)
    BY <1>8, <1>9, <1>10, <2>1 DEF Resting, Fields
  <2> QED
    BY <1>1, <1>8, <2>2, RestingStays
<1>11. CASE conditions # << >>
  <2>1. Valid(made, "condition", content) /\ made.lost["condition"] = None
    BY <1>3, <1>6, <1>7, <1>8, <1>11 DEF Valid, Fields
  <2>2. Resting(made, content)
    BY <1>8, <1>9, <2>1 DEF Resting, Fields
  <2> QED
    BY <1>1, <1>8, <2>2, RestingStays
<1> QED
  BY <1>10, <1>11

(***************************************************************************)
(* The next n row names are names that no row has, and no two are equal:   *)
(* of the numbers after the rows' count there are enough that the rows     *)
(* cannot have taken them all.                                             *)
(***************************************************************************)
LEMMA FreshIdsAre ==
  ASSUME NEW rows, Len(rows) \in Nat, NEW n \in Nat
  PROVE  /\ \A k \in 1..n : /\ FreshIds(rows, n)[k] \in Nat \ {0}
                            /\ \A i \in 1..Len(rows) : rows[i].id # FreshIds(rows, n)[k]
         /\ \A k, l \in 1..n : k # l => FreshIds(rows, n)[k] # FreshIds(rows, n)[l]
<1> DEFINE L     == Len(rows)
           I     == (L + 1)..(2 * L + n)
           taken == {m \in I : \E i \in 1..L : rows[i].id = m}
           free  == {m \in I : \A i \in 1..L : rows[i].id # m}
           J     == {i \in 1..L : rows[i].id \in I}
           id    == [i \in J |-> rows[i].id]
<1>1. L \in Nat /\ I \in SUBSET (Nat \ {0})
  OBVIOUS
<1>2. IsFiniteSet(I) /\ Cardinality(I) = L + n
  <2>1. 2 * L + n - (L + 1) + 1 = L + n /\ L + 1 <= 2 * L + n + 1
    BY <1>1
  <2>2. L + 1 \in Int /\ 2 * L + n \in Int
    BY <1>1
  <2> DEFINE first == L + 1
             last  == 2 * L + n
  <2> HIDE DEF first, last
  <2>3. IsFiniteSet(first..last)
        /\ Cardinality(first..last) = IF first > last THEN 0 ELSE last - first + 1
    <3>1. first \in Int /\ last \in Int
      BY <2>2 DEF first, last
    <3> QED
      BY <3>1, FS_Interval
  <2> QED
    BY <1>1, <2>1, <2>3 DEF first, last
<1>3. IsFiniteSet(1..L) /\ Cardinality(1..L) = L
  <2>1. 1 \in Int /\ L \in Int
    BY <1>1
  <2>2. IsFiniteSet(1..L) /\ Cardinality(1..L) = IF 1 > L THEN 0 ELSE L - 1 + 1
    BY <2>1, FS_Interval
  <2> QED
    BY <1>1, <2>2
<1>4. IsFiniteSet(J) /\ Cardinality(J) <= L /\ Cardinality(J) \in Nat
  <2>1. J \subseteq 1..L
    OBVIOUS
  <2> HIDE DEF J
  <2> QED
    BY <1>3, <2>1, FS_Subset, FS_CardinalityType
<1>5. id \in Surjection(J, taken)
  <2>1. \A i \in J : rows[i].id \in taken
    OBVIOUS
  <2>2. \A m \in taken : \E i \in J : rows[i].id = m
    OBVIOUS
  <2> HIDE DEF J, taken
  <2> QED
    BY <2>1, <2>2 DEF Surjection
<1>6. IsFiniteSet(taken) /\ Cardinality(taken) <= L /\ Cardinality(taken) \in Nat
  <2> HIDE DEF J, taken, id
  <2>1. IsFiniteSet(taken) /\ Cardinality(taken) <= Cardinality(J)
    BY <1>4, <1>5, FS_Surjection
  <2>2. Cardinality(taken) \in Nat
    BY <2>1, FS_CardinalityType
  <2> QED
    BY <1>1, <1>4, <2>1, <2>2
<1>7. IsFiniteSet(free) /\ Cardinality(free) \in Nat /\ Cardinality(free) >= n
  <2>1. free = I \ taken /\ I \cap taken = taken
    OBVIOUS
  <2> HIDE DEF I, taken, free
  <2>2. /\ IsFiniteSet(I \ taken)
        /\ Cardinality(I \ taken) = Cardinality(I) - Cardinality(I \cap taken)
    BY <1>2, FS_Difference
  <2>3. IsFiniteSet(free) /\ Cardinality(free) = Cardinality(I) - Cardinality(taken)
    BY <2>1, <2>2
  <2>4. Cardinality(free) \in Nat
    BY <2>3, FS_CardinalityType
  <2> QED
    BY <1>1, <1>2, <1>6, <2>3, <2>4
<1>8. FreshIds(rows, n) = Ascending(free)
  BY DEF FreshIds
<1>9. free \in SUBSET Nat
  BY <1>1
<1>10. \A m \in free : m \in Nat \ {0} /\ \A i \in 1..L : rows[i].id # m
  BY <1>1
<1> HIDE DEF free
<1>11. \A k \in 1..n : /\ Ascending(free)[k] \in free /\ Place(free, Ascending(free)[k]) = k
  BY <1>7, <1>9, AscendingIs
<1>12. \A k, l \in 1..n : k # l => Ascending(free)[k] # Ascending(free)[l]
  BY <1>11
<1> QED
  BY <1>8, <1>10, <1>11, <1>12

\* Rows of one scope with names of their own.
OfScope(rows, scope) ==
  /\ rows \in Seq(Rows)
  /\ \A i \in 1..Len(rows) : rows[i].scope = scope
  /\ \A i, j \in 1..Len(rows) : i # j => rows[i].id # rows[j].id

\* The rows of one scope after normalization: those that were there, each
\* normalized, then rows with new names; all at rest.
NormalizedFrom(part, base, content) ==
  /\ Len(part) >= Len(base)
  /\ \A i \in 1..Len(base) : part[i] = NormalRow(base[i], content)
  /\ \A i \in 1..Len(part) : i > Len(base) => \A j \in 1..Len(base) : part[i].id # base[j].id
  /\ \A i \in 1..Len(part) : Resting(part[i], content) /\ NormalRow(part[i], content) = part[i]

(***************************************************************************)
(* Normalizing a scope normalizes its rows and adds automatic ones.        *)
(***************************************************************************)
LEMMA NormalScopeIs ==
  ASSUME NEW content, NEW known, NEW scope \in Range(Scopes), NEW base, OfScope(base, scope)
  PROVE  /\ OfScope(NormalScope(base, scope, content, known), scope)
         /\ NormalizedFrom(NormalScope(base, scope, content, known), base, content)
<1> DEFINE L     == Len(base)
           old   == [i \in 1..L |-> NormalRow(base[i], content)]
           K     == {k \in 1..Len(Products) : Products[k] \in UsableProducts(content) \ known}
           new   == Kept(Products, K)
           n     == Len(new)
           names == FreshIds(old, n)
           add   == [k \in 1..n |-> AutoRow(names[k], scope, new[k], content)]
           part  == old \o add
<1>1. NormalScope(base, scope, content, known) = part
  BY DEF NormalScope, WithAutoRows
<1>0. /\ base \in Seq(Rows)
      /\ \A i \in 1..Len(base) : base[i].scope = scope
      /\ \A i, j \in 1..Len(base) : i # j => base[i].id # base[j].id
  BY DEF OfScope
<1>2. L \in Nat /\ \A i \in 1..L : base[i] \in Rows
  BY <1>0
<1>3. n \in Nat /\ \A k \in 1..n : new[k] \in UsableProducts(content)
  <2>1. Len(Products) \in Nat /\ K \in SUBSET (1..Len(Products))
    BY Constants
  <2>2. \A k \in K : Products[k] \in UsableProducts(content)
    OBVIOUS
  <2> HIDE DEF K
  <2>3. new \in Seq(UsableProducts(content))
    BY <2>1, <2>2, KeptType
  <2> HIDE DEF new
  <2> QED
    BY <2>3
<1> HIDE DEF new
<1>4. /\ old \in Seq(Rows) /\ Len(old) = L
      /\ \A i \in 1..L : /\ old[i] = NormalRow(base[i], content) /\ old[i] \in Rows
                         /\ old[i].id = base[i].id /\ old[i].scope = scope
                         /\ Resting(old[i], content) /\ NormalRow(old[i], content) = old[i]
  <2>1. ASSUME NEW i \in 1..L
        PROVE  /\ NormalRow(base[i], content) \in Rows
               /\ NormalRow(base[i], content).id = base[i].id
               /\ NormalRow(base[i], content).scope = scope
               /\ Resting(NormalRow(base[i], content), content)
               /\ NormalRow(NormalRow(base[i], content), content) = NormalRow(base[i], content)
    BY <1>0, <1>2, NormalRowIs, NormalRowRests, RestingStays
  <2>2. old \in Seq(Rows) /\ Len(old) = L
    BY <1>2, <2>1
  <2> QED
    BY <2>1, <2>2
<1> HIDE DEF L, old
<1>5. /\ \A k \in 1..n : names[k] \in Nat \ {0} /\ \A i \in 1..L : old[i].id # names[k]
      /\ \A k, l \in 1..n : k # l => names[k] # names[l]
  <2> HIDE DEF n
  <2>1. Len(old) \in Nat /\ n \in Nat
    BY <1>2, <1>3, <1>4
  <2>2. /\ \A k \in 1..n : /\ names[k] \in Nat \ {0}
                            /\ \A i \in 1..Len(old) : old[i].id # names[k]
        /\ \A k, l \in 1..n : k # l => names[k] # names[l]
    BY <2>1, FreshIdsAre
  <2> HIDE DEF names
  <2> QED
    BY <1>4, <2>2
<1> HIDE DEF n, names
<1>6. /\ add \in Seq(Rows) /\ Len(add) = n
      /\ \A k \in 1..n : /\ add[k] \in Rows /\ add[k].id = names[k] /\ add[k].scope = scope
                         /\ Resting(add[k], content) /\ NormalRow(add[k], content) = add[k]
  <2>1. ASSUME NEW k \in 1..n
        PROVE  LET row == AutoRow(names[k], scope, new[k], content)
               IN  /\ row \in Rows /\ row.id = names[k] /\ row.scope = scope
                   /\ Resting(row, content) /\ NormalRow(row, content) = row
    BY <1>3, <1>5, AutoRowIs
  <2>2. add \in Seq(Rows) /\ Len(add) = n
    BY <1>3, <2>1
  <2> QED
    BY <2>1, <2>2
<1> HIDE DEF add
<1>7. /\ part \in Seq(Rows) /\ Len(part) = L + n
      /\ \A i \in 1..L : part[i] = old[i]
      /\ \A i \in 1..Len(part) : i > L => /\ i - L \in 1..n /\ part[i] = add[i - L]
                                          /\ part[i].id = names[i - L]
  <2>0. /\ old \o add \in Seq(Rows) /\ Len(old \o add) = Len(old) + Len(add)
        /\ \A i \in 1..(Len(old) + Len(add)) :
             (old \o add)[i] = IF i <= Len(old) THEN old[i] ELSE add[i - Len(old)]
    <3>1. old \in Seq(Rows) /\ add \in Seq(Rows)
      BY <1>4, <1>6
    <3> QED
      BY <3>1, ConcatProperties
  <2>1. /\ part \in Seq(Rows) /\ Len(part) = L + n
        /\ \A i \in 1..(L + n) : part[i] = IF i <= L THEN old[i] ELSE add[i - L]
    BY <1>4, <1>6, <2>0
  <2> HIDE DEF part
  <2>2. \A i \in 1..L : i \in 1..(L + n) /\ i <= L
    BY <1>2, <1>3
  <2>3. ASSUME NEW i \in 1..Len(part), i > L
        PROVE  i - L \in 1..n /\ part[i] = add[i - L]
    <3>1. i \in 1..(L + n) /\ i - L \in 1..n /\ ~(i <= L)
      BY <1>2, <1>3, <2>1, <2>3
    <3> QED
      BY <2>1, <3>1
  <2> QED
    BY <1>6, <2>1, <2>2, <2>3
<1> HIDE DEF part
<1>8. ASSUME NEW i \in 1..Len(part)
      PROVE  /\ part[i].scope = scope /\ Resting(part[i], content)
             /\ NormalRow(part[i], content) = part[i]
  <2>1. i \in 1..L \/ i > L
    BY <1>2, <1>7
  <2> QED
    BY <1>4, <1>6, <1>7, <2>1
<1>9. ASSUME NEW i \in 1..Len(part), NEW j \in 1..Len(part), i # j
      PROVE  part[i].id # part[j].id
  <2>1. (i \in 1..L \/ i > L) /\ (j \in 1..L \/ j > L)
    BY <1>2, <1>7
  <2>2. CASE i \in 1..L /\ j \in 1..L
    <3>1. base[i].id # base[j].id
      BY <1>0, <1>9, <2>2 DEF L
    <3> QED
      BY <1>4, <1>7, <2>2, <3>1
  <2>3. CASE i \in 1..L /\ j > L
    <3>1. part[i] = old[i] /\ j - L \in 1..n /\ part[j].id = names[j - L]
      BY <1>7, <2>3
    <3> QED
      BY <1>5, <2>3, <3>1
  <2>4. CASE i > L /\ j \in 1..L
    <3>1. part[j] = old[j] /\ i - L \in 1..n /\ part[i].id = names[i - L]
      BY <1>7, <2>4
    <3> QED
      BY <1>5, <2>4, <3>1
  <2>5. CASE i > L /\ j > L
    <3>1. i - L # j - L
      BY <1>2, <1>9
    <3> QED
      BY <1>5, <1>7, <2>5, <3>1
  <2> QED
    BY <2>1, <2>2, <2>3, <2>4, <2>5
<1>10. ASSUME NEW i \in 1..Len(part), i > L, NEW j \in 1..L
       PROVE  part[i].id # base[j].id
  BY <1>4, <1>5, <1>7, <1>10
<1>11. Len(part) >= L
  BY <1>2, <1>3, <1>7
<1>12. OfScope(part, scope)
  BY <1>7, <1>8, <1>9 DEF OfScope
<1>13. NormalizedFrom(part, base, content)
  BY <1>4, <1>7, <1>8, <1>10, <1>11 DEF L, NormalizedFrom
<1> QED
  BY <1>1, <1>12, <1>13

-----------------------------------------------------------------------------
(* The rows of all scopes.                                                 *)

(* The rows of a scope are the rows that have it, each once.               *)
LEMMA RowsOfIs ==
  ASSUME NEW rows \in Seq(Rows), NEW scope
  PROVE  /\ RowsOf(rows, scope) \in Seq(Rows)
         /\ \A k \in 1..Len(RowsOf(rows, scope)) :
              /\ RowsOf(rows, scope)[k].scope = scope
              /\ \E i \in 1..Len(rows) : RowsOf(rows, scope)[k] = rows[i]
         /\ \A i \in 1..Len(rows) : rows[i].scope = scope =>
              \E k \in 1..Len(RowsOf(rows, scope)) : RowsOf(rows, scope)[k] = rows[i]
         /\ Named(rows) => \A k, l \in 1..Len(RowsOf(rows, scope)) :
              k # l => RowsOf(rows, scope)[k].id # RowsOf(rows, scope)[l].id
<1> DEFINE I    == Mine(rows, scope)
           mine == Kept(rows, I)
<1>1. RowsOf(rows, scope) = mine
  BY DEF RowsOf, Mine
<1>2. Len(rows) \in Nat /\ I \in SUBSET (1..Len(rows))
  BY DEF Mine
<1>3. \A i \in I : i \in 1..Len(rows) /\ rows[i] \in Rows /\ rows[i].scope = scope
  BY DEF Mine
<1>4. \A i \in 1..Len(rows) : rows[i].scope = scope => i \in I
  BY DEF Mine
<1> HIDE DEF I
<1>5. mine \in Seq(Rows)
  BY <1>2, <1>3, KeptType
<1>6. ASSUME NEW k \in 1..Len(mine)
      PROVE  Ascending(I)[k] \in I /\ mine[k] = rows[Ascending(I)[k]]
  BY <1>2, KeptFrom
<1>7. ASSUME NEW i \in I
      PROVE  Place(I, i) \in 1..Len(mine) /\ mine[Place(I, i)] = rows[i]
  BY <1>2, KeptHas
<1>8. ASSUME Named(rows), NEW k \in 1..Len(mine), NEW l \in 1..Len(mine), k # l
      PROVE  mine[k].id # mine[l].id
  <2>1. Ascending(I)[k] # Ascending(I)[l]
    <3>1. Len(mine) = Cardinality(I)
      BY <1>2, KeptIs
    <3>2. I \in SUBSET Nat
      BY <1>2
    <3>3. IsFiniteSet(I)
      BY <1>2, KeptIs
    <3>4. \A a, b \in 1..Cardinality(I) : a # b => Ascending(I)[a] # Ascending(I)[b]
      BY <3>2, <3>3, AscendingIs
    <3> QED
      BY <1>8, <3>1, <3>4
  <2>2. CaseId(rows[Ascending(I)[k]]) # CaseId(rows[Ascending(I)[l]])
    BY <1>3, <1>6, <1>8, <2>1 DEF Named
  <2>3. mine[k].scope = scope /\ mine[l].scope = scope
    BY <1>3, <1>6
  <2>4. CaseId(mine[k]) # CaseId(mine[l])
    BY <1>6, <2>2
  <2> QED
    BY <2>3, <2>4 DEF CaseId
<1>9. ASSUME NEW k \in 1..Len(mine)
      PROVE  mine[k].scope = scope /\ \E i \in 1..Len(rows) : mine[k] = rows[i]
  BY <1>3, <1>6
<1>10. ASSUME NEW i \in 1..Len(rows), rows[i].scope = scope
       PROVE  \E k \in 1..Len(mine) : mine[k] = rows[i]
  BY <1>4, <1>7, <1>10
<1> HIDE DEF mine
<1> QED
  BY <1>1, <1>5, <1>8, <1>9, <1>10

(* A request holds no rows of a scope it does not have: taking the rows of *)
(* a scope drops none and moves none.                                      *)
LEMMA InScopeIs ==
  ASSUME NEW rows \in Seq(Rows), NEW scope \in Range(Scopes), NEW known
  PROVE  InScope(rows, scope) = RowsOf(rows, scope) /\ KnownIn(rows, known) = known
<1>1. \A i \in 1..Len(rows) : rows[i].scope \in Range(Scopes)
  <2> SUFFICES ASSUME NEW i \in 1..Len(rows)
               PROVE  rows[i].scope \in Range(Scopes)
    OBVIOUS
  <2>1. rows[i] \in Rows
    OBVIOUS
  <2> QED
    BY <2>1, RowFields
<1>2. \A i \in 1..Len(rows) : rows[i].scope = Whole => scope = Whole
  BY <1>1, ScopesAre
<1> DEFINE I == {i \in 1..Len(rows) : \/ rows[i].scope = scope
                                      \/ rows[i].scope = Whole /\ scope = Scopes[1]}
           J == {i \in 1..Len(rows) : rows[i].scope = scope}
<1>3. I = J
  BY <1>2
<1> DEFINE kept == Kept(rows, I)
<1>4. InScope(rows, scope) = [i \in 1..Len(kept) |-> [kept[i] EXCEPT !.scope = scope]]
  BY DEF InScope
<1>5. kept = RowsOf(rows, scope)
  BY <1>3 DEF RowsOf
<1> HIDE DEF kept
<1>6. kept \in Seq(Rows) /\ \A i \in 1..Len(kept) : kept[i].scope = scope
  BY <1>5, RowsOfIs
<1>7. ASSUME NEW i \in 1..Len(kept)
      PROVE  [kept[i] EXCEPT !.scope = scope] = kept[i]
  <2>1. kept[i] \in Rows /\ kept[i].scope = scope
    BY <1>6
  <2> QED
    BY <2>1, SameScope
<1>8. InScope(rows, scope) = kept
  BY <1>4, <1>6, <1>7
<1>9. Scopes = <<Whole>> => \A i \in 1..Len(rows) : rows[i].scope = Whole
  <2> SUFFICES ASSUME Scopes = <<Whole>>, NEW i \in 1..Len(rows)
               PROVE  rows[i].scope = Whole
    OBVIOUS
  <2>1. Range(Scopes) = {Whole}
    BY OneElement
  <2> QED
    BY <1>1, <2>1
<1>10. KnownIn(rows, known) = known
  BY <1>9 DEF KnownIn
<1> QED
  BY <1>5, <1>8, <1>10

(* What is kept at an interval is a stretch of the sequence.               *)
LEMMA KeptInterval ==
  ASSUME NEW a \in Nat, NEW n \in Nat, NEW s
  PROVE  Kept(s, (a + 1)..(a + n)) = [k \in 1..n |-> s[a + k]]
<1> DEFINE I == (a + 1)..(a + n)
<1>1. Cardinality(I) = n /\ Ascending(I) = [k \in 1..n |-> a + k]
  BY AscendingInterval
<1>2. Kept(s, I) = [k \in 1..Cardinality(I) |-> s[Ascending(I)[k]]]
  BY DEF Kept
<1> HIDE DEF I
<1>3. \A k \in 1..n : Ascending(I)[k] = a + k
  BY <1>1
<1>4. Kept(s, I) = [k \in 1..n |-> s[a + k]]
  BY <1>1, <1>2, <1>3
<1> QED
  BY <1>4 DEF I

(* Putting rows of two scopes together and taking one scope out again.     *)
LEMMA RowsOfConcat ==
  ASSUME NEW a, NEW b, a # b, NEW p \in Seq(Rows), NEW q \in Seq(Rows),
         \A i \in 1..Len(p) : p[i].scope = a, \A i \in 1..Len(q) : q[i].scope = b
  PROVE  RowsOf(p \o q, a) = p /\ RowsOf(p \o q, b) = q
<1> DEFINE all == p \o q
           m   == Len(p)
           n   == Len(q)
<1>1. m \in Nat /\ n \in Nat
  OBVIOUS
<1>2. /\ Len(all) = m + n
      /\ \A i \in 1..(m + n) : all[i] = IF i <= m THEN p[i] ELSE q[i - m]
  BY ConcatProperties
<1> HIDE DEF all
<1>3. \A i \in 1..m : i \in 1..(m + n) /\ all[i] = p[i]
  BY <1>1, <1>2
<1>4. \A k \in 1..n : m + k \in 1..(m + n) /\ all[m + k] = q[k]
  <2> SUFFICES ASSUME NEW k \in 1..n
               PROVE  m + k \in 1..(m + n) /\ all[m + k] = q[k]
    OBVIOUS
  <2>1. m + k \in 1..(m + n) /\ ~(m + k <= m) /\ (m + k) - m = k
    BY <1>1
  <2> QED
    BY <1>2, <2>1
<1>5. \A i \in 1..(m + n) : i \in 1..m \/ (i - m \in 1..n /\ m + (i - m) = i)
  BY <1>1
<1>6. {i \in 1..Len(all) : all[i].scope = a} = (0 + 1)..(0 + m)
  <2>1. \A i \in 1..(m + n) : all[i].scope = a <=> i \in 1..m
    <3> SUFFICES ASSUME NEW i \in 1..(m + n)
                 PROVE  all[i].scope = a <=> i \in 1..m
      OBVIOUS
    <3>1. i \in 1..m => all[i].scope = a
      BY <1>3
    <3>2. ASSUME i - m \in 1..n, m + (i - m) = i
          PROVE  all[i].scope = b /\ i \notin 1..m
      <4>1. all[m + (i - m)] = q[i - m] /\ q[i - m].scope = b
        BY <1>4, <3>2
      <4> QED
        BY <1>1, <3>2, <4>1
    <3> QED
      BY <1>5, <3>1, <3>2
  <2>2. (0 + 1)..(0 + m) = 1..m
    BY <1>1
  <2>3. 1..m \subseteq 1..(m + n)
    BY <1>1
  <2> QED
    BY <1>2, <2>1, <2>2, <2>3
<1>7. {i \in 1..Len(all) : all[i].scope = b} = (m + 1)..(m + n)
  <2>1. \A i \in 1..(m + n) : all[i].scope = b <=> i \in (m + 1)..(m + n)
    <3> SUFFICES ASSUME NEW i \in 1..(m + n)
                 PROVE  all[i].scope = b <=> i \in (m + 1)..(m + n)
      OBVIOUS
    <3>1. i \in 1..m => all[i].scope = a /\ i \notin (m + 1)..(m + n)
      BY <1>1, <1>3
    <3>2. ASSUME i - m \in 1..n, m + (i - m) = i
          PROVE  all[i].scope = b /\ i \in (m + 1)..(m + n)
      <4>1. all[m + (i - m)] = q[i - m] /\ q[i - m].scope = b
        BY <1>4, <3>2
      <4> QED
        BY <1>1, <3>2, <4>1
    <3> QED
      BY <1>5, <3>1, <3>2
  <2>2. (m + 1)..(m + n) \subseteq 1..(m + n)
    BY <1>1
  <2> QED
    BY <1>2, <2>1, <2>2
<1>8. RowsOf(all, a) = Kept(all, (0 + 1)..(0 + m))
  BY <1>6 DEF RowsOf
<1>9. RowsOf(all, b) = Kept(all, (m + 1)..(m + n))
  BY <1>7 DEF RowsOf
<1> HIDE DEF m, n
<1>10. RowsOf(all, a) = [k \in 1..m |-> all[0 + k]]
  <2>1. 0 \in Nat /\ m \in Nat
    BY <1>1
  <2>2. Kept(all, (0 + 1)..(0 + m)) = [k \in 1..m |-> all[0 + k]]
    BY ONLY <2>1, KeptInterval
  <2> QED
    BY <1>8, <2>2
<1>11. RowsOf(all, b) = [k \in 1..n |-> all[m + k]]
  <2>1. Kept(all, (m + 1)..(m + n)) = [k \in 1..n |-> all[m + k]]
    BY <1>1, KeptInterval
  <2> QED
    BY <1>9, <2>1
<1>12. \A k \in 1..m : all[0 + k] = p[k]
  BY <1>1, <1>3
<1>13. RowsOf(all, a) = p
  BY <1>10, <1>12 DEF m
<1>14. RowsOf(all, b) = q
  BY <1>4, <1>11 DEF n
<1> QED
  BY <1>13, <1>14 DEF all

\* The rows of a scope, in rows that are all of that scope, are all the rows.
LEMMA RowsOfOne ==
  ASSUME NEW a, NEW p \in Seq(Rows), \A i \in 1..Len(p) : p[i].scope = a
  PROVE  RowsOf(p, a) = p
<1>1. Len(p) \in Nat
  OBVIOUS
<1>2. {i \in 1..Len(p) : p[i].scope = a} = (0 + 1)..(0 + Len(p))
  BY <1>1
<1>3. RowsOf(p, a) = [k \in 1..Len(p) |-> p[0 + k]]
  <2>1. RowsOf(p, a) = Kept(p, (0 + 1)..(0 + Len(p)))
    BY <1>2 DEF RowsOf
  <2> QED
    BY <1>1, <2>1, KeptInterval
<1>4. \A k \in 1..Len(p) : p[0 + k] = p[k]
  OBVIOUS
<1> QED
  BY <1>3, <1>4

(* Rows at rest stay as they are, and no product is new.                   *)
LEMMA NormalScopeAgain ==
  ASSUME NEW content, NEW known, NEW scope, NEW base \in Seq(Rows),
         \A i \in 1..Len(base) : NormalRow(base[i], content) = base[i],
         UsableProducts(content) \subseteq known
  PROVE  NormalScope(base, scope, content, known) = base
<1> DEFINE old == [i \in 1..Len(base) |-> NormalRow(base[i], content)]
           K   == {k \in 1..Len(Products) : Products[k] \in UsableProducts(content) \ known}
           add == [k \in 1..Len(Kept(Products, K)) |->
                     AutoRow(FreshIds(old, Len(Kept(Products, K)))[k], scope,
                             Kept(Products, K)[k], content)]
<1>1. NormalScope(base, scope, content, known) = old \o add
  BY DEF NormalScope, WithAutoRows
<1>2. K = {}
  OBVIOUS
<1>3. Kept(Products, K) = << >>
  BY <1>2, KeptNothing
<1>4. Len(Kept(Products, K)) = 0
  BY <1>3
<1>5. add = << >>
  <2> HIDE DEF K
  <2>1. 1..Len(Kept(Products, K)) = {}
    BY <1>4
  <2> QED
    BY <2>1
<1>6. old = base
  OBVIOUS
<1> HIDE DEF old, add
<1>7. NormalScope(base, scope, content, known) = base \o << >>
  BY <1>1, <1>5, <1>6
<1> QED
  BY <1>7, ConcatEmptySeq

\* What normalization makes of the rows of one scope.
Part(rows, scope, content, known) == NormalScope(RowsOf(rows, scope), scope, content, known)

\* A row is one of these after normalization, or one none of them has the name of.
Stems(row, rows, content) ==
  \/ \E i \in 1..Len(rows) : row = NormalRow(rows[i], content)
  \/ \A i \in 1..Len(rows) : CaseId(row) # CaseId(rows[i])

(* What is brought for one scope: rows of that scope, at rest, each one a  *)
(* row it had, normalized, or one with a name no row had.                  *)
LEMMA PartIs ==
  ASSUME NEW content, NEW known, NEW rows \in Seq(Rows), Named(rows), NEW scope \in Range(Scopes)
  PROVE  /\ OfScope(Part(rows, scope, content, known), scope)
         /\ \A k \in 1..Len(Part(rows, scope, content, known)) :
              LET row == Part(rows, scope, content, known)[k]
              IN  /\ Resting(row, content) /\ NormalRow(row, content) = row
                  /\ Stems(row, rows, content)
<1> DEFINE base == RowsOf(rows, scope)
           part == Part(rows, scope, content, known)
<1>1. OfScope(base, scope)
  <2>1. base \in Seq(Rows)
    BY RowsOfIs
  <2>2. \A k \in 1..Len(base) : base[k].scope = scope
    BY RowsOfIs
  <2>3. \A k, l \in 1..Len(base) : k # l => base[k].id # base[l].id
    BY RowsOfIs
  <2> QED
    BY <2>1, <2>2, <2>3 DEF OfScope
<1>2. \A k \in 1..Len(base) : \E i \in 1..Len(rows) : base[k] = rows[i]
  BY RowsOfIs
<1>3. \A i \in 1..Len(rows) : rows[i].scope = scope => \E k \in 1..Len(base) : base[k] = rows[i]
  BY RowsOfIs
<1> HIDE DEF base
<1>4. part = NormalScope(base, scope, content, known)
  BY DEF Part, base
<1> HIDE DEF part
<1>5. OfScope(part, scope) /\ NormalizedFrom(part, base, content)
  BY <1>1, <1>4, NormalScopeIs
<1>6. Len(base) \in Nat /\ Len(part) \in Nat
  BY <1>1, <1>5 DEF OfScope
<1>7. ASSUME NEW k \in 1..Len(part)
      PROVE  Stems(part[k], rows, content)
  <2>1. CASE k \in 1..Len(base)
    <3>1. PICK i \in 1..Len(rows) : base[k] = rows[i]
      BY <1>2, <2>1
    <3>2. part[k] = NormalRow(base[k], content)
      BY <1>5, <2>1 DEF NormalizedFrom
    <3> QED
      BY <3>1, <3>2 DEF Stems
  <2>2. CASE k > Len(base)
    <3>1. ASSUME NEW i \in 1..Len(rows), CaseId(part[k]) = CaseId(rows[i])
          PROVE  FALSE
      <4>1. rows[i].scope = scope /\ rows[i].id = part[k].id
        BY <1>5, <3>1 DEF CaseId, OfScope
      <4>2. PICK j \in 1..Len(base) : base[j] = rows[i]
        BY <1>3, <4>1
      <4>3. part[k].id # base[j].id
        BY <1>5, <2>2 DEF NormalizedFrom
      <4> QED
        BY <4>1, <4>2, <4>3
    <3> QED
      BY <3>1 DEF Stems
  <2> QED
    BY <1>6, <2>1, <2>2
<1>8. \A k \in 1..Len(part) : Resting(part[k], content) /\ NormalRow(part[k], content) = part[k]
  BY <1>5 DEF NormalizedFrom
<1> QED
  BY <1>5, <1>7, <1>8 DEF part

(* The rows of the answer are the parts, one after the other.              *)
LEMMA BroughtParts ==
  ASSUME NEW content, NEW known, NEW rows \in Seq(Rows)
  PROVE  Brought(rows, content, known) =
           IF Len(Scopes) = 1 THEN Part(rows, Scopes[1], content, known)
           ELSE Part(rows, Scopes[1], content, known) \o Part(rows, Scopes[2], content, known)
<1> DEFINE snapshots == [s \in Range(Scopes) |-> known]
           of(s) == NormalScope(InScope(rows, s), s, content, KnownIn(rows, snapshots[s]))
<1>1. Normal(rows, content, snapshots) =
        IF Len(Scopes) = 1 THEN of(Scopes[1]) ELSE of(Scopes[1]) \o of(Scopes[2])
  BY DEF Normal
<1>2. ASSUME NEW s \in Range(Scopes)
      PROVE  of(s) = Part(rows, s, content, known)
  <2>1. snapshots[s] = known
    OBVIOUS
  <2>2. InScope(rows, s) = RowsOf(rows, s) /\ KnownIn(rows, known) = known
    BY InScopeIs
  <2> QED
    BY <2>1, <2>2 DEF Part
<1>3. Scopes[1] \in Range(Scopes) /\ (Len(Scopes) # 1 => Scopes[2] \in Range(Scopes))
  BY ScopesAre
<1>4. of(Scopes[1]) = Part(rows, Scopes[1], content, known)
  BY <1>2, <1>3
<1>5. Len(Scopes) # 1 => of(Scopes[2]) = Part(rows, Scopes[2], content, known)
  BY <1>2, <1>3
<1> HIDE DEF of
<1> QED
  BY <1>1, <1>4, <1>5 DEF Brought

\* Rows as the page and the server keep them.
Lists(rows) == rows \in Seq(Rows) /\ Named(rows)

(* Rows of one scope have names of their own when their numbers differ.    *)
LEMMA OfScopeLists ==
  ASSUME NEW rows, NEW scope, OfScope(rows, scope)
  PROVE  Lists(rows)
BY DEF OfScope, Lists, Named, CaseId

IsIn(row, rows) == \E k \in 1..Len(rows) : row = rows[k]

(* So have rows of two scopes put together.                                *)
LEMMA ConcatLists ==
  ASSUME NEW a, NEW b, a # b, NEW p, NEW q, OfScope(p, a), OfScope(q, b)
  PROVE  /\ Lists(p \o q)
         /\ \A i \in 1..Len(p \o q) : IsIn((p \o q)[i], p) \/ IsIn((p \o q)[i], q)
<1> DEFINE all == p \o q
           m   == Len(p)
           n   == Len(q)
<1>1. /\ p \in Seq(Rows) /\ q \in Seq(Rows) /\ m \in Nat /\ n \in Nat
      /\ \A i \in 1..m : p[i].scope = a
      /\ \A i \in 1..n : q[i].scope = b
      /\ \A i, j \in 1..m : i # j => p[i].id # p[j].id
      /\ \A i, j \in 1..n : i # j => q[i].id # q[j].id
  BY DEF OfScope
<1>2. /\ all \in Seq(Rows) /\ Len(all) = m + n
      /\ \A i \in 1..(m + n) : all[i] = IF i <= m THEN p[i] ELSE q[i - m]
  <2>1. p \in Seq(Rows) /\ q \in Seq(Rows)
    BY <1>1
  <2> QED
    BY <2>1, ConcatProperties
<1> HIDE DEF all
<1>3. \A i \in 1..(m + n) : \/ i \in 1..m /\ all[i] = p[i]
                            \/ i - m \in 1..n /\ all[i] = q[i - m] /\ i > m
  BY <1>1, <1>2
<1>4. ASSUME NEW i \in 1..(m + n), NEW j \in 1..(m + n), i # j
      PROVE  CaseId(all[i]) # CaseId(all[j])
  <2>1. CASE i \in 1..m /\ all[i] = p[i] /\ j \in 1..m /\ all[j] = p[j]
    BY <1>1, <1>4, <2>1 DEF CaseId
  <2>2. CASE i \in 1..m /\ all[i] = p[i] /\ j - m \in 1..n /\ all[j] = q[j - m]
    <3>1. all[i].scope = a /\ all[j].scope = b
      BY <1>1, <2>2
    <3> QED
      BY <3>1 DEF CaseId
  <2>3. CASE i - m \in 1..n /\ all[i] = q[i - m] /\ j \in 1..m /\ all[j] = p[j]
    <3>1. all[i].scope = b /\ all[j].scope = a
      BY <1>1, <2>3
    <3> QED
      BY <3>1 DEF CaseId
  <2>4. CASE i - m \in 1..n /\ all[i] = q[i - m] /\ j - m \in 1..n /\ all[j] = q[j - m]
    <3>1. i - m # j - m
      BY <1>1, <1>4
    <3>2. q[i - m].id # q[j - m].id
      BY <1>1, <2>4, <3>1
    <3> QED
      BY <2>4, <3>2 DEF CaseId
  <2> QED
    BY <1>3, <2>1, <2>2, <2>3, <2>4
<1>5. Lists(all)
  BY <1>2, <1>4 DEF Lists, Named
<1>6. \A i \in 1..Len(all) : IsIn(all[i], p) \/ IsIn(all[i], q)
  BY <1>2, <1>3 DEF IsIn
<1> QED
  BY <1>5, <1>6 DEF all

(***************************************************************************)
(* The answer to a preview: rows with names of their own, each stemming    *)
(* from a row that was sent or new, and the same rows when it is sent once *)
(* more.                                                                   *)
(***************************************************************************)
LEMMA BroughtIs ==
  ASSUME NEW content, NEW known, NEW rows, Lists(rows)
  PROVE  /\ Lists(Brought(rows, content, known))
         /\ \A i \in 1..Len(Brought(rows, content, known)) :
              Stems(Brought(rows, content, known)[i], rows, content)
         /\ \A again : UsableProducts(content) \subseteq again =>
              Brought(Brought(rows, content, known), content, again) = Brought(rows, content, known)
<1> DEFINE all == Brought(rows, content, known)
           p   == Part(rows, Scopes[1], content, known)
           q   == Part(rows, Scopes[2], content, known)
<1>1. rows \in Seq(Rows) /\ Named(rows)
  BY DEF Lists
<1>2. Scopes[1] \in Range(Scopes) /\ (Len(Scopes) # 1 => Scopes[2] \in Range(Scopes))
  BY ScopesAre
<1>3. all = IF Len(Scopes) = 1 THEN p ELSE p \o q
  BY <1>1, BroughtParts
<1>4. /\ OfScope(p, Scopes[1])
      /\ \A k \in 1..Len(p) : NormalRow(p[k], content) = p[k] /\ Stems(p[k], rows, content)
  BY <1>1, <1>2, PartIs
<1>5. Len(Scopes) # 1 =>
        /\ OfScope(q, Scopes[2])
        /\ \A k \in 1..Len(q) : NormalRow(q[k], content) = q[k] /\ Stems(q[k], rows, content)
  BY <1>1, <1>2, PartIs
<1> HIDE DEF all, p, q
<1>6. /\ p \in Seq(Rows) /\ \A i \in 1..Len(p) : p[i].scope = Scopes[1]
  BY <1>4 DEF OfScope
<1>7. ASSUME NEW again, UsableProducts(content) \subseteq again
      PROVE  NormalScope(p, Scopes[1], content, again) = p
  BY <1>4, <1>6, <1>7, NormalScopeAgain
<1>8. CASE Len(Scopes) = 1
  <2>1. all = p
    BY <1>3, <1>8
  <2>2. Lists(all)
    BY <1>4, <2>1, OfScopeLists
  <2>3. RowsOf(p, Scopes[1]) = p
    BY <1>6, RowsOfOne
  <2>4. ASSUME NEW again, UsableProducts(content) \subseteq again
        PROVE  Brought(all, content, again) = all
    <3>1. Brought(p, content, again) = Part(p, Scopes[1], content, again)
      BY <1>6, <1>8, BroughtParts
    <3> QED
      BY <1>7, <2>1, <2>3, <2>4, <3>1 DEF Part
  <2> QED
    BY <1>4, <2>1, <2>2, <2>4 DEF all
<1>9. CASE Len(Scopes) # 1
  <2>1. all = p \o q
    BY <1>3, <1>9
  <2>2. Scopes[1] # Scopes[2]
    BY <1>9, ScopesAre
  <2>3. /\ q \in Seq(Rows) /\ \A i \in 1..Len(q) : q[i].scope = Scopes[2]
    BY <1>5, <1>9 DEF OfScope
  <2>4. /\ Lists(all)
        /\ \A i \in 1..Len(all) : \/ \E k \in 1..Len(p) : all[i] = p[k]
                                  \/ \E k \in 1..Len(q) : all[i] = q[k]
    <3>1. OfScope(p, Scopes[1]) /\ OfScope(q, Scopes[2])
      BY <1>4, <1>5, <1>9
    <3>2. Lists(p \o q)
      BY <2>2, <3>1, ConcatLists
    <3>3. \A i \in 1..Len(p \o q) : IsIn((p \o q)[i], p) \/ IsIn((p \o q)[i], q)
      BY <2>2, <3>1, ConcatLists
    <3> QED
      BY <2>1, <3>2, <3>3 DEF IsIn
  <2>5. \A i \in 1..Len(all) : Stems(all[i], rows, content)
    BY <1>4, <1>5, <1>9, <2>4
  <2>6. RowsOf(all, Scopes[1]) = p /\ RowsOf(all, Scopes[2]) = q
    BY <1>6, <2>1, <2>2, <2>3, RowsOfConcat
  <2>7. ASSUME NEW again, UsableProducts(content) \subseteq again
        PROVE  Brought(all, content, again) = all
    <3>1. NormalScope(q, Scopes[2], content, again) = q
      BY <1>5, <1>9, <2>3, <2>7, NormalScopeAgain
    <3>2. all \in Seq(Rows)
      BY <2>4 DEF Lists
    <3>3. Brought(all, content, again) =
            Part(all, Scopes[1], content, again) \o Part(all, Scopes[2], content, again)
      BY <1>9, <3>2, BroughtParts
    <3>4. /\ Part(all, Scopes[1], content, again) = p
          /\ Part(all, Scopes[2], content, again) = q
      BY <1>7, <2>6, <2>7, <3>1 DEF Part
    <3> QED
      BY <2>1, <3>3, <3>4
  <2> QED
    BY <2>4, <2>5, <2>7 DEF all
<1> QED
  BY <1>8, <1>9

-----------------------------------------------------------------------------
(* The verdict, and the combination a new Case is given.                   *)

Verdicts == [rows : SUBSET Range(Scopes), products : SUBSET Range(Scopes),
             unused : SUBSET Range(Scopes)]

\* A verdict names scopes of the request.
LEMMA VerdictIs ==
  ASSUME NEW rows, NEW content
  PROVE  Verdict(rows, content) \in Verdicts
BY DEF Verdict, Verdicts

\* Every Case with a selection missing blocks its scope.
OpenRowsBlock(rows, verdict) ==
  \A i \in 1..Len(rows), f \in Fields :
    rows[i].pick[f] = None => rows[i].scope \in Misconfigured(verdict)

(* The validator reports every Case with a selection missing.              *)
LEMMA OpenIsBroken ==
  ASSUME NEW rows \in Seq(Rows), NEW content
  PROVE  OpenRowsBlock(rows, Verdict(rows, content))
<1> SUFFICES ASSUME NEW i \in 1..Len(rows), NEW f \in Fields, rows[i].pick[f] = None
             PROVE  rows[i].scope \in Misconfigured(Verdict(rows, content))
  BY DEF OpenRowsBlock
<1> DEFINE scope == rows[i].scope
           mine  == RowsOf(rows, scope)
<1>1. rows[i] \in Rows
  OBVIOUS
<1>2. scope \in Range(Scopes)
  BY <1>1, RowFields
<1>3. PICK k \in 1..Len(mine) : mine[k] = rows[i]
  BY RowsOfIs
<1>4. rows[i].pick[f] \notin Range(Options(content, scope, f))
  BY AnyOptions
<1>5. ~Complete(mine[k], content)
  BY <1>3, <1>4 DEF Complete
<1>6. BrokenRows(rows, content, scope)
  BY <1>5 DEF BrokenRows
<1>7. scope \in {s \in Range(Scopes) : BrokenRows(rows, content, s)}
  BY <1>2, <1>6
<1> QED
  BY <1>7 DEF Verdict, Misconfigured

(* The first of some requested scopes is one of them.                      *)
LEMMA FirstOfIs ==
  ASSUME NEW S \in SUBSET Range(Scopes), S # {}
  PROVE  FirstOf(S) \in S
<1> DEFINE I == {k \in 1..Len(Scopes) : Scopes[k] \in S}
<1>1. Len(Scopes) \in Nat /\ I \in SUBSET (1..Len(Scopes))
  BY ScopesAre
<1>2. PICK k \in 1..Len(Scopes) : Scopes[k] \in S
  BY ScopesAre
<1>3. k \in I /\ \A l \in I : Scopes[l] \in S
  BY <1>2
<1>4. FirstOf(S) = Kept(Scopes, I)[1]
  BY DEF FirstOf
<1> HIDE DEF I
<1>5. Place(I, k) \in 1..Len(Kept(Scopes, I)) /\ Kept(Scopes, I) \in Seq(S)
  BY <1>1, <1>3, KeptHas, KeptType
<1>6. 1 \in 1..Len(Kept(Scopes, I))
  BY <1>5
<1>7. Kept(Scopes, I)[1] \in S
  BY <1>5, <1>6
<1> QED
  BY <1>4, <1>7

\* A scope is named as the first that blocks exactly when one blocks.
LEMMA FirstBlockingIs ==
  ASSUME NEW v \in Verdicts
  PROVE  /\ Blocking(v) # {} => FirstBlocking(v) \in Range(Scopes)
         /\ Blocking(v) = {} => FirstBlocking(v) = None
         /\ Misconfigured(v) \subseteq Blocking(v) /\ v.unused \subseteq Blocking(v)
<1>1. /\ v.rows \in SUBSET Range(Scopes) /\ v.products \in SUBSET Range(Scopes)
      /\ v.unused \in SUBSET Range(Scopes)
  BY DEF Verdicts
<1>2. Blocking(v) = v.rows \cup v.products \cup v.unused
  BY DEF Blocking, Misconfigured
<1>3. CASE v.rows # {}
  <2>1. FirstBlocking(v) = FirstOf(v.rows)
    BY <1>3 DEF FirstBlocking
  <2>2. FirstOf(v.rows) \in v.rows
    BY <1>1, <1>3, FirstOfIs
  <2> QED
    BY <1>1, <1>2, <1>3, <2>1, <2>2 DEF Misconfigured
<1>4. CASE v.rows = {} /\ v.products # {}
  <2>1. FirstBlocking(v) = FirstOf(v.products)
    BY <1>4 DEF FirstBlocking
  <2>2. FirstOf(v.products) \in v.products
    BY <1>1, <1>4, FirstOfIs
  <2> QED
    BY <1>1, <1>2, <1>4, <2>1, <2>2 DEF Misconfigured
<1>5. CASE v.rows = {} /\ v.products = {} /\ v.unused # {}
  <2>1. FirstBlocking(v) = FirstOf(v.unused)
    BY <1>5 DEF FirstBlocking
  <2>2. FirstOf(v.unused) \in v.unused
    BY <1>1, <1>5, FirstOfIs
  <2> QED
    BY <1>1, <1>2, <1>5, <2>1, <2>2 DEF Misconfigured
<1>6. CASE v.rows = {} /\ v.products = {} /\ v.unused = {}
  BY <1>2, <1>6 DEF FirstBlocking, Misconfigured
<1> QED
  BY <1>3, <1>4, <1>5, <1>6

(* Of some pairs of numbers one comes first.                               *)
LEMMA FirstPair ==
  ASSUME NEW T \in SUBSET (Nat \X Nat), T # {}
  PROVE  \E x \in T : \A y \in T : x[1] < y[1] \/ (x[1] = y[1] /\ x[2] <= y[2])
<1> DEFINE A == {x[1] : x \in T}
<1>0. \A x \in T : x[1] \in Nat /\ x[2] \in Nat
  OBVIOUS
<1>1. A \in SUBSET Nat /\ A # {}
  BY <1>0
<1>2. PICK a \in A : \A b \in A : a <= b
  <2> HIDE DEF A
  <2> QED
    BY <1>1, LeastNumber
<1> DEFINE B == {x[2] : x \in {y \in T : y[1] = a}}
<1>3. B \in SUBSET Nat /\ B # {}
  BY <1>0
<1>4. PICK c \in B : \A d \in B : c <= d
  <2> HIDE DEF B
  <2> QED
    BY <1>3, LeastNumber
<1>5. PICK x \in T : x[1] = a /\ x[2] = c
  OBVIOUS
<1>6. ASSUME NEW y \in T
      PROVE  x[1] < y[1] \/ (x[1] = y[1] /\ x[2] <= y[2])
  <2>1. a <= y[1] /\ y[1] \in Nat /\ a \in Nat
    BY <1>0, <1>2
  <2>2. y[1] = a => c <= y[2]
    BY <1>4
  <2> QED
    BY <1>5, <2>1, <2>2
<1> QED
  BY <1>6

(* The combination of a new Case has a product and a condition.            *)
LEMMA FirstAvailableIs ==
  ASSUME NEW rows, NEW content, NEW scope, FirstAvailable(rows, content, scope) # None
  PROVE  FirstAvailable(rows, content, scope) \in [Fields -> Sources]
<1> DEFINE ps == Options(content, scope, "geometry")
           cs == Options(content, scope, "condition")
           pickAt(x) == [f \in Fields |-> IF f = "geometry" THEN ps[x[1]] ELSE cs[x[2]]]
           taken == {RowsOf(rows, scope)[i].pick : i \in 1..Len(RowsOf(rows, scope))}
           free  == {x \in (1..Len(ps)) \X (1..Len(cs)) : pickAt(x) \notin taken}
           first == CHOOSE x \in free : \A y \in free : x[1] < y[1] \/ (x[1] = y[1] /\ x[2] <= y[2])
<1>1. FirstAvailable(rows, content, scope) = IF free = {} THEN None ELSE pickAt(first)
  BY DEF FirstAvailable
<1>2. free # {} /\ FirstAvailable(rows, content, scope) = pickAt(first)
  BY <1>1
<1>3. ps \in Seq(Range(Products)) /\ cs \in Seq(Range(Cards))
  BY OptionsAre
<1> HIDE DEF ps, cs
<1>4. free \subseteq (1..Len(ps)) \X (1..Len(cs)) /\ Len(ps) \in Nat /\ Len(cs) \in Nat
  BY <1>3
<1> HIDE DEF free
<1>5. free \in SUBSET (Nat \X Nat)
  BY <1>4
<1>6. first \in free
  BY <1>2, <1>5, FirstPair
<1> HIDE DEF first
<1>7. first[1] \in 1..Len(ps) /\ first[2] \in 1..Len(cs)
  BY <1>4, <1>6
<1>8. ps[first[1]] \in Sources /\ cs[first[2]] \in Sources
  <2>1. \A k \in 1..Len(ps) : ps[k] \in Range(Products)
    BY <1>3
  <2>2. \A k \in 1..Len(cs) : cs[k] \in Range(Cards)
    BY <1>3
  <2> QED
    BY <1>7, <2>1, <2>2, Constants
<1>9. pickAt(first) \in [Fields -> Sources]
  BY <1>8
<1> QED
  BY <1>2, <1>9

-----------------------------------------------------------------------------
(* The review.                                                             *)

SideFields   == {"status", "affected", "key", "rendered", "lost"}
ReviewFields == SideFields \cup {"baseline", "blocking", "outdoorViewed"}

ReviewOK(r) == /\ DOMAIN r = ReviewFields
               /\ r.status \in {Unaffected, "REVIEW", "REBUILD"}
               /\ r.rendered \subseteq Range(Scopes)

(* The impact on the Cases has one of three forms.                         *)
LEMMA SideStateIs ==
  ASSUME NEW h, ReviewOK(review)
  PROVE  /\ DOMAIN SideState(h) = SideFields
         /\ SideState(h).status \in {Unaffected, "REVIEW", "REBUILD"}
         /\ SideState(h).rendered \subseteq Range(Scopes)
<1>1. CASE AffectedBy(h, Gone(h)) # {}
  BY <1>1 DEF SideState, SideFields
<1>2. CASE AffectedBy(h, Gone(h)) = {} /\ AffectedBy(h, Modified(h)) # {}
  BY <1>2 DEF SideState, SideFields, ReviewOK
<1>3. CASE AffectedBy(h, Gone(h)) = {} /\ AffectedBy(h, Modified(h)) = {}
  <2>1. SideState(h) = NoReview
    BY <1>3 DEF SideState
  <2> QED
    BY <2>1 DEF NoReview, SideFields
<1> QED
  BY <1>1, <1>2, <1>3

(* A new baseline ends the review.                                         *)
LEMMA RebasedIs ==
  ASSUME NEW h, NEW r, ReviewOK(r)
  PROVE  ReviewOK(Rebased(r, h))
<1>1. DOMAIN Rebased(r, h) = ReviewFields
  BY DEF Rebased, ReviewOK
<1>2. DOMAIN NoReview = SideFields /\ NoReview.status = Unaffected /\ NoReview.rendered = {}
  BY DEF NoReview, SideFields
<1>3. "status" \in ReviewFields /\ "rendered" \in ReviewFields
  BY DEF ReviewFields, SideFields
<1>4. /\ "status" \in SideFields /\ "rendered" \in SideFields
  BY DEF SideFields
<1>5. Rebased(r, h).status = NoReview.status /\ Rebased(r, h).rendered = NoReview.rendered
  BY <1>2, <1>3, <1>4 DEF Rebased, ReviewOK
<1> QED
  BY <1>1, <1>2, <1>5 DEF ReviewOK

\* Recording that an affected scope was on the screen keeps the review sound.
LEMMA RecordedIs ==
  ASSUME NEW h, NEW r, ReviewOK(r), NEW t \in Range(Scopes), NEW onScreen
  PROVE  ReviewOK(Recorded(r, h, t, onScreen))
<1>1. CASE onScreen /\ r.status = "REVIEW" /\ t \in AffectedScopes(r, h)
  <2>1. Recorded(r, h, t, onScreen) = [r EXCEPT !.rendered = r.rendered \cup {t}]
    BY <1>1 DEF Recorded
  <2> QED
    BY <2>1 DEF ReviewOK, ReviewFields, SideFields
<1>2. CASE ~(onScreen /\ r.status = "REVIEW" /\ t \in AffectedScopes(r, h))
  <2>1. Recorded(r, h, t, onScreen) = r
    BY <1>2 DEF Recorded
  <2> QED
    BY <2>1
<1> QED
  BY <1>1, <1>2

\* Drawing the Cases of a scope keeps the review sound.
LEMMA DrawnIs ==
  ASSUME NEW h, NEW r, ReviewOK(r), NEW t \in Range(Scopes), NEW onScreen
  PROVE  ReviewOK(Drawn(r, h, t, onScreen))
<1> DEFINE based == IF onScreen /\ r.baseline = None THEN Rebased(r, h) ELSE r
           seen  == Recorded(based, h, t, onScreen)
<1>1. ReviewOK(based)
  BY RebasedIs
<1> HIDE DEF based
<1>2. ReviewOK(seen)
  BY <1>1, RecordedIs
<1>3. Drawn(r, h, t, onScreen) =
        IF onScreen /\ Both /\ t = "outdoor" THEN [seen EXCEPT !.outdoorViewed = TRUE] ELSE seen
  BY DEF Drawn, based
<1> HIDE DEF seen
<1>4. ReviewOK([seen EXCEPT !.outdoorViewed = TRUE])
  BY <1>2 DEF ReviewOK, ReviewFields, SideFields
<1> QED
  BY <1>2, <1>3, <1>4

\* Leaving the review settled keeps it sound.
LEMMA SettledIs ==
  ASSUME NEW h, NEW r, ReviewOK(r)
  PROVE  ReviewOK(Settled(r, h))
BY RebasedIs DEF Settled

\* Taking out of the review what was selected again keeps it sound.
LEMMA ResolvedIs ==
  ASSUME NEW rows, NEW r, ReviewOK(r)
  PROVE  ReviewOK(Resolved(r, rows))
<1>1. ReviewOK([r EXCEPT !.lost = Unresolved(r, rows)])
  BY DEF ReviewOK, ReviewFields, SideFields
<1> QED
  BY <1>1 DEF Resolved

(* The scope a review opens on is a requested one.                         *)
LEMMA PreferredScopeIs ==
  ASSUME NEW h, Both
  PROVE  PreferredScope(h) \in Range(Scopes)
<1> DEFINE changed == Gone(h) \cup Modified(h)
           scopes  == {CardScope[c] : c \in changed \cap Range(Cards)}
<1>1. scopes \subseteq Range(Scopes)
  BY Constants
<1>2. "indoor" \in Range(Scopes)
  BY ScopesAre DEF Both
<1>3. CASE Cardinality(scopes) = 1
  <2>1. scopes # {}
    <3> HIDE DEF scopes
    <3> QED
      BY <1>3, FS_EmptySet
  <2>2. (CHOOSE s \in scopes : TRUE) \in Range(Scopes)
    <3> HIDE DEF scopes
    <3> QED
      BY <1>1, <2>1
  <2> QED
    BY <1>2, <2>2 DEF PreferredScope
<1>4. CASE Cardinality(scopes) # 1
  <2>1. PreferredScope(h) = "indoor"
    BY <1>4 DEF PreferredScope
  <2> QED
    BY <1>2, <2>1
<1> QED
  BY <1>3, <1>4

(* The review after an answer has been compared with the baseline.         *)
LEMMA ClassifiedIs ==
  ASSUME NEW h, h.verdict \in Verdicts, ReviewOK(review), tab \in Range(Scopes)
  PROVE  ReviewOK(Classified(h).review) /\ Classified(h).tab \in Range(Scopes)
<1> DEFINE side   == SideState(h)
           blocks == BlockingScope(h)
           with   == WithSide(side)
           moved  == [with EXCEPT !.blocking = blocks]
           fresh  == side.status # Unaffected /\ ~SameReview(h)
           freed  == review.blocking # None /\ side.status = "REVIEW" /\ Both
           all    == Reclassified(h, side, blocks)
<1>1. CASE review.baseline = None
  <2>1. Classified(h) = [review |-> review, tab |-> tab]
    BY <1>1 DEF Classified
  <2> QED
    BY <2>1
<1>2. CASE review.baseline # None
  <2>1. Classified(h) = all
    BY <1>2 DEF Classified
  <2>2. blocks # None => blocks \in Range(Scopes)
    BY FirstBlockingIs DEF BlockingScope
  <2>3. /\ DOMAIN side = SideFields
        /\ side.status \in {Unaffected, "REVIEW", "REBUILD"}
        /\ side.rendered \subseteq Range(Scopes)
    BY SideStateIs
  <2> HIDE DEF side, blocks
  <2>4. ReviewOK(with)
    <3>1. with = [f \in DOMAIN review |-> IF f \in DOMAIN side THEN side[f] ELSE review[f]]
      BY DEF WithSide
    <3>2. with.status = side.status /\ with.rendered = side.rendered
      BY <2>3, <3>1 DEF ReviewOK, ReviewFields, SideFields
    <3> QED
      BY <2>3, <3>1, <3>2 DEF ReviewOK
  <2> HIDE DEF with
  <2>5. ReviewOK(moved) /\ ReviewOK([moved EXCEPT !.outdoorViewed = FALSE])
    BY <2>4 DEF ReviewOK, ReviewFields, SideFields
  <2> HIDE DEF moved
  <2>6. all = CASE blocks # None -> [review |-> moved, tab |-> blocks]
                [] blocks = None /\ freed -> [review |-> moved, tab |-> PreferredScope(h)]
                [] blocks = None /\ ~freed /\ fresh ->
                     [review |-> [moved EXCEPT !.outdoorViewed = FALSE],
                      tab    |-> IF Both THEN PreferredScope(h) ELSE tab]
                [] OTHER -> [review |-> moved, tab |-> tab]
    BY DEF Reclassified, moved, with
  <2>7. freed => Both
    OBVIOUS
  <2> HIDE DEF all, freed, fresh
  <2>8. Both => PreferredScope(h) \in Range(Scopes)
    BY PreferredScopeIs
  <2>9. CASE blocks # None
    <3>1. all = [review |-> moved, tab |-> blocks]
      BY <2>6, <2>9
    <3> QED
      BY <2>1, <2>2, <2>5, <2>9, <3>1
  <2>10. CASE blocks = None /\ freed
    <3>1. all = [review |-> moved, tab |-> PreferredScope(h)]
      BY <2>6, <2>10
    <3> QED
      BY <2>1, <2>5, <2>7, <2>8, <2>10, <3>1
  <2>11. CASE blocks = None /\ ~freed /\ fresh
    <3>1. all = [review |-> [moved EXCEPT !.outdoorViewed = FALSE],
                 tab    |-> IF Both THEN PreferredScope(h) ELSE tab]
      BY <2>6, <2>11
    <3> QED
      BY <2>1, <2>5, <2>8, <3>1
  <2>12. CASE blocks = None /\ ~freed /\ ~fresh
    <3>1. all = [review |-> moved, tab |-> tab]
      BY <2>6, <2>12
    <3> QED
      BY <2>1, <2>5, <3>1
  <2> QED
    BY <2>9, <2>10, <2>11, <2>12
<1> QED
  BY <1>1, <1>2

(* SCREEN-06 is reached only past a matrix the verdict finds complete.     *)
LEMMA NavigatedIs ==
  ASSUME NEW h, NEW r, ReviewOK(r), NEW n \in 3..6, NEW t \in Range(Scopes), NEW ct,
         screen \in 3..6
  PROVE  /\ ReviewOK(Navigated(n, r, h, t, ct).review)
         /\ Navigated(n, r, h, t, ct).screen \in 3..6
         /\ screen # 6 /\ Navigated(n, r, h, t, ct).screen = 6 => Misconfigured(h.verdict) = {}
<1> DEFINE stops == Stops(n, h, t, ct)
           to    == Navigated(n, r, h, t, ct)
<1>1. stops \subseteq 3..5
  BY DEF Stops
<1>2. CASE n > screen /\ stops # {}
  <2> DEFINE first == CHOOSE m \in stops : \A k \in stops : m <= k
  <2>1. to = [screen |-> first, review |-> r]
    BY <1>2 DEF Navigated
  <2> HIDE DEF stops
  <2>2. \E m \in stops : \A k \in stops : m <= k
    <3>1. stops \in SUBSET Nat
      BY <1>1
    <3> QED
      BY <1>2, <3>1, LeastNumber
  <2>3. first \in stops
    BY <2>2
  <2> HIDE DEF first, to
  <2>4. first \in 3..6 /\ first # 6
    BY <1>1, <2>3
  <2> QED
    BY <2>1, <2>4 DEF to
<1>3. CASE ~(n > screen /\ stops # {})
  <2> DEFINE left  == IF screen = 5 /\ n # 5 THEN Settled(r, h) ELSE r
             based == IF n = 5 /\ left.baseline = None THEN Rebased(left, h) ELSE left
  <2>1. to = [screen |-> n, review |-> Recorded(based, h, t, n = 5)]
    BY <1>3 DEF Navigated
  <2>2. ReviewOK(left)
    BY SettledIs
  <2> HIDE DEF left
  <2>3. ReviewOK(based)
    BY <2>2, RebasedIs
  <2> HIDE DEF based
  <2>4. ReviewOK(Recorded(based, h, t, n = 5))
    BY <2>3, RecordedIs
  <2>5. ASSUME screen # 6, n = 6
        PROVE  Misconfigured(h.verdict) = {}
    <3>1. 6 > screen
      BY <2>5
    <3>2. Stops(6, h, t, ct) = {}
      BY <1>3, <2>5, <3>1
    <3>3. 5 \in 3..(6 - 1)
      OBVIOUS
    <3>4. ~Incomplete(5, h, t, ct)
      BY <3>2, <3>3 DEF Stops
    <3> QED
      BY <3>4 DEF Incomplete
  <2> HIDE DEF to
  <2> QED
    BY <2>1, <2>4, <2>5 DEF to
<1> QED
  BY <1>2, <1>3

-----------------------------------------------------------------------------
(* The page.                                                               *)

Requests == [content : Contents, known : SUBSET Sources, rows : Seq(Rows), verdict : Verdicts]

\* A request as the page holds it: rows with names of their own, and a
\* verdict that blocks the scope of every Case left open.
RequestOK(h) == h \in Requests /\ Named(h.rows) /\ OpenRowsBlock(h.rows, h.verdict)

\* A preview of what is typed, whose answer has the rows that the request
\* held would get now.
Counts(draft, h, content) ==
  /\ draft.content = content /\ Lists(draft.rows)
  /\ Brought(draft.rows, content, draft.known) = Brought(h.rows, content, h.known)

\* An answer still counts only if it carries what is typed; the timer's
\* answers count or are forgotten.
FlightsOK(fl, h, content) ==
  /\ DOMAIN fl = Waits
  /\ \A w \in Waits : /\ fl[w].on \in BOOLEAN
                      /\ fl[w].on /\ fl[w].current => Counts(fl[w].draft, h, content)
  /\ fl["timer"].on => fl["timer"].current

\* What is typed is held, or on its way with the timer's preview.
Underway(due, lost, fl, h, content) ==
  content # h.content \/ UsableIn(content) # h.known => due \/ lost \/ fl["timer"].on

PlaceOK(n, t, ct) == n \in 3..6 /\ t \in Range(Scopes) /\ ct \in Range(Scopes)

ReviewInvariant ==
  /\ typed \in Contents /\ RequestOK(held) /\ ReviewOK(review)
  /\ PlaceOK(screen, tab, cardTab)
  /\ timer \in BOOLEAN /\ failed \in BOOLEAN /\ edits \in 0..MaxEdits
  /\ FlightsOK(flight, held, typed) /\ Underway(timer, failed, flight, held, typed)

\* What a request that is sound gives.
LEMMA RequestFields ==
  ASSUME NEW h, RequestOK(h)
  PROVE  /\ h.content \in Contents /\ h.known \in SUBSET Sources /\ h.rows \in Seq(Rows)
         /\ h.verdict \in Verdicts /\ Named(h.rows) /\ OpenRowsBlock(h.rows, h.verdict)
         /\ Lists(h.rows)
BY DEF RequestOK, Requests, Lists

\* A request put together from sound parts is sound.
LEMMA RequestMade ==
  ASSUME NEW content \in Contents, NEW known \in SUBSET Sources, NEW rows, Lists(rows),
         NEW verdict \in Verdicts, OpenRowsBlock(rows, verdict)
  PROVE  RequestOK([content |-> content, known |-> known, rows |-> rows, verdict |-> verdict])
BY DEF RequestOK, Requests, Lists

(* Collecting the editor's content, and replacing the rows.                *)
LEMMA RequestWith ==
  ASSUME NEW h, RequestOK(h), NEW content \in Contents
  PROVE  LET new == [h EXCEPT !.content = content]
         IN  /\ RequestOK(new) /\ new.content = content /\ new.known = h.known
             /\ new.rows = h.rows /\ new.verdict = h.verdict
<1> DEFINE new == [h EXCEPT !.content = content]
<1>1. h \in Requests /\ Named(h.rows) /\ OpenRowsBlock(h.rows, h.verdict)
  BY DEF RequestOK
<1>2. /\ new.content = content /\ new.known = h.known /\ new.rows = h.rows
      /\ new.verdict = h.verdict
  BY <1>1 DEF Requests
<1>3. new \in Requests
  BY <1>1 DEF Requests
<1> HIDE DEF new
<1>4. RequestOK(new)
  BY <1>1, <1>2, <1>3 DEF RequestOK
<1> QED
  BY <1>2, <1>4 DEF new

\* Replacing the rows of a request keeps it sound, if they block what is open.
LEMMA RowsWith ==
  ASSUME NEW h, RequestOK(h), NEW rows, Lists(rows), OpenRowsBlock(rows, h.verdict)
  PROVE  LET new == [h EXCEPT !.rows = rows]
         IN  /\ RequestOK(new) /\ new.content = h.content /\ new.known = h.known
             /\ new.rows = rows /\ new.verdict = h.verdict
<1> DEFINE new == [h EXCEPT !.rows = rows]
<1>1. h \in Requests /\ rows \in Seq(Rows) /\ Named(rows)
  BY DEF RequestOK, Lists
<1>2. /\ new.content = h.content /\ new.known = h.known /\ new.rows = rows
      /\ new.verdict = h.verdict
  BY <1>1 DEF Requests
<1>3. new \in Requests
  BY <1>1 DEF Requests
<1> HIDE DEF new
<1>4. RequestOK(new)
  BY <1>1, <1>2, <1>3 DEF RequestOK
<1> QED
  BY <1>2, <1>4 DEF new

(***************************************************************************)
(* An answer that still counts: a request with the content that is typed,  *)
(* after which every other answer that counts counts as before.            *)
(***************************************************************************)
LEMMA AnsweredIs ==
  ASSUME NEW d, NEW h, NEW content \in Contents, Counts(d, h, content)
  PROVE  /\ RequestOK(Answered(d)) /\ Answered(d).content = content
         /\ Answered(d).known = UsableIn(content)
         /\ Answered(d).rows = Brought(h.rows, content, h.known)
         /\ \A other : Counts(other, h, content) => Counts(other, Answered(d), content)
<1> DEFINE rows == Brought(d.rows, content, d.known)
           a    == [content |-> content, known |-> UsableIn(content), rows |-> rows,
                    verdict |-> Verdict(rows, content)]
<1>1. /\ d.content = content /\ Lists(d.rows)
      /\ rows = Brought(h.rows, content, h.known)
  BY DEF Counts
<1>2. Answered(d) = a
  BY <1>1 DEF Answered, Brought
<1>3. Lists(rows)
  BY <1>1, BroughtIs
<1>4. UsableProducts(content) \subseteq UsableIn(content)
  BY Constants DEF UsableProducts, UsableIn
<1>5. Brought(rows, content, UsableIn(content)) = rows
  BY <1>1, <1>4, BroughtIs
<1> HIDE DEF rows
<1>6. UsableIn(content) \in SUBSET Sources
  BY DEF UsableIn
<1>7. RequestOK(a)
  <2>1. Verdict(rows, content) \in Verdicts
    BY VerdictIs
  <2>2. rows \in Seq(Rows)
    BY <1>3 DEF Lists
  <2>3. OpenRowsBlock(rows, Verdict(rows, content))
    BY <2>2, OpenIsBroken
  <2> QED
    BY <1>3, <1>6, <2>1, <2>3, RequestMade
<1>8. /\ a.content = content /\ a.known = UsableIn(content) /\ a.rows = rows
  OBVIOUS
<1> HIDE DEF a
<1>9. ASSUME NEW other, Counts(other, h, content)
      PROVE  Counts(other, a, content)
  <2>1. Brought(other.rows, content, other.known) = rows
    BY <1>1, <1>9 DEF Counts
  <2>2. Brought(a.rows, content, a.known) = rows
    BY <1>5, <1>8
  <2> QED
    BY <1>9, <2>1, <2>2 DEF Counts
<1> QED
  BY <1>1, <1>2, <1>7, <1>8, <1>9

\* The three places of the page that await a preview.
LEMMA WaitsAre == "timer" \in Waits /\ "conditions" \in Waits /\ "case" \in Waits
BY DEF Waits

(* Sending a preview of what is typed.                                     *)
LEMMA SentOK ==
  ASSUME RequestOK(held), FlightsOK(flight, held, typed), NEW w \in Waits
  PROVE  FlightsOK(Sent(w), held, typed) /\ Sent(w)[w].on
<1>1. Counts(Draft, held, typed)
  BY RequestFields DEF Draft, Counts
<1> DEFINE new == [on |-> TRUE, current |-> TRUE, draft |-> Draft]
<1>2. new.on = TRUE /\ new.current = TRUE /\ new.draft = Draft
  OBVIOUS
<1> HIDE DEF new
<1>3. /\ DOMAIN Sent(w) = Waits /\ Sent(w)[w] = new
      /\ \A v \in Waits \ {w} : Sent(w)[v] = flight[v]
  BY DEF Sent, new, FlightsOK
<1>4. \A v \in Waits : /\ Sent(w)[v].on \in BOOLEAN
                       /\ Sent(w)[v].on /\ Sent(w)[v].current => Counts(Sent(w)[v].draft, held, typed)
  BY <1>1, <1>2, <1>3 DEF FlightsOK
<1>5. Sent(w)["timer"].on => Sent(w)["timer"].current
  BY <1>2, <1>3, WaitsAre DEF FlightsOK
<1> QED
  BY <1>2, <1>3, <1>4, <1>5 DEF FlightsOK

(* An answer that has come, or never will.                                 *)
LEMMA LandedOK ==
  ASSUME NEW h, NEW content, FlightsOK(flight, h, content), NEW w \in Waits
  PROVE  /\ FlightsOK(Landed(w), h, content)
         /\ w # "timer" => Landed(w)["timer"] = flight["timer"]
<1>1. /\ DOMAIN Landed(w) = Waits /\ Landed(w)[w] = Idle
      /\ \A v \in Waits \ {w} : Landed(w)[v] = flight[v]
  BY DEF Landed, FlightsOK
<1>2. Idle.on = FALSE
  BY DEF Idle
<1>3. \A v \in Waits : /\ Landed(w)[v].on \in BOOLEAN
                       /\ Landed(w)[v].on /\ Landed(w)[v].current => Counts(Landed(w)[v].draft, h, content)
  BY <1>1, <1>2 DEF FlightsOK
<1>4. Landed(w)["timer"].on => Landed(w)["timer"].current
  BY <1>1, <1>2, WaitsAre DEF FlightsOK
<1> QED
  BY <1>1, <1>3, <1>4, WaitsAre DEF FlightsOK

(* After a preview has been scheduled no answer on its way counts.         *)
LEMMA ScheduledOK ==
  ASSUME NEW h, NEW content, NEW fl, DOMAIN fl = Waits, \A w \in Waits : fl[w].on \in BOOLEAN
  PROVE  /\ FlightsOK(Scheduled(fl), h, content)
         /\ FlightsOK([Scheduled(fl) EXCEPT !["case"] = Idle], h, content)
<1> DEFINE none == Scheduled(fl)
           some == [none EXCEPT !["case"] = Idle]
           old  == [on |-> TRUE, current |-> FALSE]
<1>1. old.on = TRUE /\ old.current = FALSE /\ Idle.on = FALSE
  BY DEF Idle
<1>2. none = [w \in Waits |-> IF fl[w].on /\ w # "timer" THEN old ELSE Idle]
  BY DEF Scheduled
<1> HIDE DEF old, none
<1>3. DOMAIN none = Waits /\ \A w \in Waits : none[w] = old \/ none[w] = Idle
  BY <1>2
<1>4. none["timer"] = Idle
  BY <1>2, WaitsAre
<1>5. FlightsOK(none, h, content)
  <2>1. \A w \in Waits : none[w].on \in BOOLEAN /\ ~(none[w].on /\ none[w].current)
    BY <1>1, <1>3
  <2> QED
    BY <1>1, <1>3, <1>4, <2>1 DEF FlightsOK
<1>6. DOMAIN some = Waits /\ \A w \in Waits : some[w] = old \/ some[w] = Idle
  BY <1>3
<1>7. some["timer"] = Idle
  BY <1>3, <1>4, WaitsAre
<1> HIDE DEF some
<1>8. FlightsOK(some, h, content)
  <2>1. \A w \in Waits : some[w].on \in BOOLEAN /\ ~(some[w].on /\ some[w].current)
    BY <1>1, <1>6
  <2> QED
    BY <1>1, <1>6, <1>7, <2>1 DEF FlightsOK
<1> QED
  BY <1>5, <1>8 DEF none, some

\* Scheduling a refresh leaves no call that counts behind what is typed.
LEMMA ScheduleOK ==
  ASSUME NEW h, NEW content, FlightsOK(flight, held, typed), Schedule
  PROVE  /\ FlightsOK(flight', h, content) /\ timer' = TRUE /\ failed' = FALSE
         /\ Underway(timer', failed', flight', h, content)
<1>1. DOMAIN flight = Waits /\ \A w \in Waits : flight[w].on \in BOOLEAN
  BY DEF FlightsOK
<1>2. FlightsOK(Scheduled(flight), h, content)
  BY <1>1, ScheduledOK
<1> QED
  BY <1>2 DEF Schedule, Underway

(* Only the rows held and their options decide which answers count.        *)
LEMMA SameRowsCount ==
  ASSUME NEW fl, NEW h, NEW g, NEW content, FlightsOK(fl, h, content),
         g.rows = h.rows, g.known = h.known
  PROVE  FlightsOK(fl, g, content)
BY DEF FlightsOK, Counts

\* What the page holds once the answer that w waited for is in.
AdoptedOK(a, w) ==
  /\ RequestOK(a.held) /\ ReviewOK(a.review) /\ a.tab \in Range(Scopes)
  /\ a.failed \in BOOLEAN /\ FlightsOK(Landed(w), a.held, typed)
  /\ Underway(timer, a.failed, Landed(w), a.held, typed)
  /\ a.held = held \/ a.held.rows = Brought(held.rows, typed, held.known)

(* The answer is adopted if it counts, and thrown away otherwise.          *)
LEMMA AdoptedIs ==
  ASSUME ReviewInvariant, NEW w \in Waits, flight[w].on
  PROVE  AdoptedOK(Adopted(w), w)
<1>1. /\ typed \in Contents /\ RequestOK(held) /\ ReviewOK(review) /\ tab \in Range(Scopes)
      /\ failed \in BOOLEAN /\ FlightsOK(flight, held, typed)
      /\ Underway(timer, failed, flight, held, typed)
  BY DEF ReviewInvariant, PlaceOK
<1>2. CASE flight[w].current
  <2> DEFINE h == Answered(flight[w].draft)
             c == Classified(h)
             d == Drawn(c.review, h, c.tab, screen = 5)
  <2>1. Counts(flight[w].draft, held, typed)
    BY <1>1, <1>2 DEF FlightsOK
  <2>2. /\ RequestOK(h) /\ h.content = typed /\ h.known = UsableIn(typed)
        /\ h.rows = Brought(held.rows, typed, held.known)
        /\ \A other : Counts(other, held, typed) => Counts(other, h, typed)
    BY <1>1, <2>1, AnsweredIs
  <2>3. Adopted(w) = [held |-> h, review |-> d, tab |-> c.tab, failed |-> FALSE]
    BY <1>2 DEF Adopted, AdoptedAnswer, DrawnAnswer
  <2> HIDE DEF h
  <2>4. ReviewOK(c.review) /\ c.tab \in Range(Scopes)
    BY <1>1, <2>2, RequestFields, ClassifiedIs
  <2> HIDE DEF c
  <2>5. ReviewOK(d)
    BY <2>4, DrawnIs
  <2> HIDE DEF d
  <2>6. FlightsOK(Landed(w), held, typed)
    BY <1>1, LandedOK
  <2>7. FlightsOK(Landed(w), h, typed)
    BY <2>2, <2>6 DEF FlightsOK
  <2>8. Underway(timer, FALSE, Landed(w), h, typed)
    BY <2>2 DEF Underway
  <2> DEFINE a == Adopted(w)
  <2>9. a.held = h /\ a.review = d /\ a.tab = c.tab /\ a.failed = FALSE
    BY <2>3
  <2> HIDE DEF a
  <2>10. /\ RequestOK(a.held) /\ ReviewOK(a.review) /\ a.tab \in Range(Scopes)
         /\ a.failed \in BOOLEAN
    BY <2>2, <2>4, <2>5, <2>9
  <2>11. /\ FlightsOK(Landed(w), a.held, typed)
         /\ Underway(timer, a.failed, Landed(w), a.held, typed)
         /\ a.held.rows = Brought(held.rows, typed, held.known)
    BY <2>2, <2>7, <2>8, <2>9
  <2> QED
    BY <2>10, <2>11 DEF a, AdoptedOK
<1>3. CASE ~flight[w].current
  <2>1. Adopted(w) = [held |-> held, review |-> review, tab |-> tab, failed |-> failed]
    BY <1>3 DEF Adopted
  <2>2. w # "timer"
    BY <1>1, <1>3 DEF FlightsOK
  <2>3. FlightsOK(Landed(w), held, typed) /\ Landed(w)["timer"] = flight["timer"]
    BY <1>1, <2>2, LandedOK
  <2>4. Underway(timer, failed, Landed(w), held, typed)
    BY <1>1, <2>3 DEF Underway
  <2> QED
    BY <1>1, <2>1, <2>3, <2>4 DEF AdoptedOK
<1> QED
  BY <1>2, <1>3

-----------------------------------------------------------------------------
(* The steps.                                                              *)

\* Unless the user edits, the rows change only to what the server makes of them.
RowsStep == edits' = edits => \/ held'.rows = held.rows
                              \/ held'.rows = Brought(held.rows, typed, held.known)

\* SCREEN-06 is entered with a verdict that finds every Case complete.
PassStep == screen # 6 /\ screen' = 6 => Misconfigured(held'.verdict) = {}

StepOK == ReviewInvariant' /\ RowsStep /\ PassStep

\* The user edits an answer of the forms: a refresh is scheduled.
LEMMA EditKeeps ==
  ASSUME ReviewInvariant, NEW s \in Sources, NEW v \in Values \cup {Unfilled}, Edit(s, v)
  PROVE  StepOK
<1>1. /\ typed \in Contents /\ RequestOK(held) /\ ReviewOK(review)
      /\ PlaceOK(screen, tab, cardTab) /\ edits \in 0..MaxEdits
      /\ FlightsOK(flight, held, typed)
  BY DEF ReviewInvariant
<1>2. /\ edits < MaxEdits /\ typed' = [typed EXCEPT ![s] = v] /\ edits' = edits + 1 /\ Schedule
      /\ held' = held /\ review' = review /\ screen' = screen /\ tab' = tab /\ cardTab' = cardTab
  BY DEF Edit
<1>3. typed' \in Contents
  BY <1>1, <1>2 DEF Contents
<1>4. edits' \in 0..MaxEdits /\ edits' # edits
  BY <1>1, <1>2, ValuesAssumption
<1>5. /\ FlightsOK(flight', held, typed') /\ timer' = TRUE /\ failed' = FALSE
      /\ Underway(timer', failed', flight', held, typed')
  BY <1>1, <1>2, ScheduleOK
<1>6. ReviewInvariant'
  BY <1>1, <1>2, <1>3, <1>4, <1>5 DEF ReviewInvariant
<1> QED
  BY <1>2, <1>4, <1>6 DEF StepOK, RowsStep, PassStep

\* The user looks at the cards of another scope.
LEMMA SwitchCardsKeeps ==
  ASSUME ReviewInvariant, NEW s \in Range(Scopes), SwitchCards(s)
  PROVE  StepOK
<1>1. /\ typed \in Contents /\ RequestOK(held) /\ PlaceOK(screen, tab, cardTab)
      /\ FlightsOK(flight, held, typed) /\ Underway(timer, failed, flight, held, typed)
  BY DEF ReviewInvariant
<1>2. /\ cardTab' = s /\ held' = [held EXCEPT !.content = typed]
      /\ UNCHANGED <<typed, review, screen, tab, timer, flight, failed, edits>>
  BY DEF SwitchCards, Captured
<1>3. /\ RequestOK(held') /\ held'.content = typed /\ held'.known = held.known
      /\ held'.rows = held.rows
  BY <1>1, <1>2, RequestWith
<1>4. FlightsOK(flight, held', typed)
  BY <1>1, <1>3, SameRowsCount
<1>5. Underway(timer, failed, flight, held', typed)
  BY <1>1, <1>3 DEF Underway
<1>6. ReviewInvariant'
  BY <1>1, <1>2, <1>3, <1>4, <1>5 DEF ReviewInvariant, PlaceOK
<1> QED
  BY <1>2, <1>3, <1>6 DEF StepOK, RowsStep, PassStep

\* The user looks at the Cases of another scope.
LEMMA SwitchTabKeeps ==
  ASSUME ReviewInvariant, NEW s \in Range(Scopes), SwitchTab(s)
  PROVE  StepOK
<1>1. /\ typed \in Contents /\ RequestOK(held) /\ ReviewOK(review)
      /\ PlaceOK(screen, tab, cardTab) /\ FlightsOK(flight, held, typed)
  BY DEF ReviewInvariant
<1>2. /\ review' = Switched(review, held, s) /\ tab' = s /\ Schedule
      /\ UNCHANGED <<typed, held, screen, cardTab, edits>>
  BY DEF SwitchTab
<1>3. ReviewOK(review')
  BY <1>1, <1>2, ResolvedIs, DrawnIs DEF Switched
<1>4. /\ FlightsOK(flight', held, typed) /\ timer' = TRUE /\ failed' = FALSE
      /\ Underway(timer', failed', flight', held, typed)
  BY <1>1, <1>2, ScheduleOK
<1>5. ReviewInvariant'
  BY <1>1, <1>2, <1>3, <1>4 DEF ReviewInvariant, PlaceOK
<1> QED
  BY <1>2, <1>5 DEF StepOK, RowsStep, PassStep

\* The user goes to another screen.
LEMMA OpenKeeps ==
  ASSUME ReviewInvariant, NEW n \in 3..6, Open(n)
  PROVE  StepOK
<1> DEFINE to == Navigated(n, review, held, tab, cardTab)
<1>1. /\ ReviewOK(review) /\ screen \in 3..6 /\ tab \in Range(Scopes) /\ cardTab \in Range(Scopes)
  BY DEF ReviewInvariant, PlaceOK
<1>2. /\ screen' = to.screen /\ review' = to.review
      /\ UNCHANGED <<typed, held, tab, cardTab, timer, flight, failed, edits>>
  BY DEF Open
<1>3. /\ ReviewOK(to.review) /\ to.screen \in 3..6
      /\ screen # 6 /\ to.screen = 6 => Misconfigured(held.verdict) = {}
  BY <1>1, NavigatedIs
<1> HIDE DEF to
<1>4. ReviewInvariant'
  BY <1>1, <1>2, <1>3 DEF ReviewInvariant, PlaceOK
<1> QED
  BY <1>2, <1>3, <1>4 DEF StepOK, RowsStep, PassStep

\* The timer fires and sends what is typed.
LEMMA FireKeeps ==
  ASSUME ReviewInvariant, Fire
  PROVE  StepOK
<1>1. RequestOK(held) /\ FlightsOK(flight, held, typed)
  BY DEF ReviewInvariant
<1>2. /\ timer' = FALSE /\ flight' = Sent("timer")
      /\ UNCHANGED <<typed, held, review, screen, tab, cardTab, failed, edits>>
  BY DEF Fire
<1>3. FlightsOK(flight', held, typed) /\ flight'["timer"].on
  BY <1>1, <1>2, SentOK, WaitsAre
<1>4. ReviewInvariant'
  BY <1>2, <1>3 DEF ReviewInvariant, Underway
<1> QED
  BY <1>2, <1>4 DEF StepOK, RowsStep, PassStep

\* The user confirms a step and waits for a preview of what is typed.
LEMMA ConfirmKeeps ==
  ASSUME ReviewInvariant, ConfirmConditions \/ ConfirmCase
  PROVE  StepOK
<1>1. /\ RequestOK(held) /\ FlightsOK(flight, held, typed)
      /\ Underway(timer, failed, flight, held, typed)
  BY DEF ReviewInvariant
<1>2. PICK w \in Waits \ {"timer"} :
        /\ flight' = Sent(w)
        /\ UNCHANGED <<typed, held, review, screen, tab, cardTab, timer, failed, edits>>
  BY DEF ConfirmConditions, ConfirmCase, Waits
<1>3. FlightsOK(flight', held, typed)
  BY <1>1, <1>2, SentOK
<1>4. flight'["timer"] = flight["timer"]
  BY <1>1, <1>2, WaitsAre DEF Sent, FlightsOK
<1>5. Underway(timer, failed, flight', held, typed)
  BY <1>1, <1>4 DEF Underway
<1>6. ReviewInvariant'
  BY <1>2, <1>3, <1>5 DEF ReviewInvariant
<1> QED
  BY <1>2, <1>6 DEF StepOK, RowsStep, PassStep

\* A preview is lost.
LEMMA LoseKeeps ==
  ASSUME ReviewInvariant, NEW w \in Waits, Lose(w)
  PROVE  StepOK
<1>1. /\ FlightsOK(flight, held, typed) /\ Underway(timer, failed, flight, held, typed)
      /\ failed \in BOOLEAN
  BY DEF ReviewInvariant
<1>2. /\ flight' = Landed(w) /\ failed' = (failed \/ w = "timer")
      /\ UNCHANGED <<typed, held, review, screen, tab, cardTab, timer, edits>>
  BY DEF Lose
<1>3. FlightsOK(flight', held, typed) /\ (w # "timer" => flight'["timer"] = flight["timer"])
  BY <1>1, <1>2, LandedOK
<1>4. Underway(timer, failed', flight', held, typed)
  BY <1>1, <1>2, <1>3 DEF Underway
<1>5. failed' \in BOOLEAN
  BY <1>2
<1>6. ReviewInvariant'
  BY <1>2, <1>3, <1>4, <1>5 DEF ReviewInvariant
<1> QED
  BY <1>2, <1>6 DEF StepOK, RowsStep, PassStep

(* Replacing one selection in one row.                                     *)
LEMMA SelectionMade ==
  ASSUME NEW rows, Lists(rows), NEW verdict, OpenRowsBlock(rows, verdict),
         NEW i \in 1..Len(rows), NEW f \in Fields, NEW o \in Sources
  PROVE  LET new == [rows EXCEPT ![i].pick[f] = o]
         IN  Lists(new) /\ OpenRowsBlock(new, verdict)
<1> DEFINE r   == rows[i]
           q   == [r EXCEPT !.pick = [r.pick EXCEPT ![f] = o]]
           new == [rows EXCEPT ![i] = q]
<1>1. rows \in Seq(Rows) /\ Named(rows) /\ r \in Rows
  BY DEF Lists
<1>2. r.pick \in [Fields -> Sources \cup {None}]
  BY <1>1, RowFields
<1>3. /\ q \in Rows /\ q.id = r.id /\ q.scope = r.scope
      /\ q.pick = [r.pick EXCEPT ![f] = o]
  BY <1>1, <1>2 DEF Rows
<1>4. o # None
  BY Constants
<1>5. \A g \in Fields : q.pick[g] = None => r.pick[g] = None
  BY <1>2, <1>3, <1>4
<1> HIDE DEF q
<1>6. /\ new \in Seq(Rows) /\ Len(new) = Len(rows) /\ new[i] = q
      /\ \A j \in 1..Len(rows) : j # i => new[j] = rows[j]
  BY <1>1, <1>3
<1> HIDE DEF new
<1>7. \A j \in 1..Len(rows) :
        /\ CaseId(new[j]) = CaseId(rows[j]) /\ new[j].scope = rows[j].scope
        /\ \A g \in Fields : new[j].pick[g] = None => rows[j].pick[g] = None
  BY <1>3, <1>5, <1>6 DEF CaseId
<1>8. Lists(new)
  BY <1>1, <1>6, <1>7 DEF Lists, Named
<1>9. OpenRowsBlock(new, verdict)
  BY <1>6, <1>7 DEF OpenRowsBlock
<1> QED
  BY <1>8, <1>9 DEF new, q

\* The user selects a product for a Case.
LEMMA SelectKeeps ==
  ASSUME ReviewInvariant, NEW i \in 1..Len(held.rows), NEW f \in Fields, NEW o \in Sources,
         Select(i, f, o)
  PROVE  StepOK
<1> DEFINE rows == [held.rows EXCEPT ![i].pick[f] = o]
<1>1. /\ RequestOK(held) /\ ReviewOK(review) /\ edits \in 0..MaxEdits
      /\ FlightsOK(flight, held, typed)
  BY DEF ReviewInvariant
<1>2. /\ edits < MaxEdits /\ held' = [held EXCEPT !.rows = rows] /\ review' = Resolved(review, rows)
      /\ edits' = edits + 1 /\ Schedule /\ UNCHANGED <<typed, screen, tab, cardTab>>
  BY DEF Select
<1>3. Lists(rows) /\ OpenRowsBlock(rows, held.verdict)
  BY <1>1, RequestFields, SelectionMade
<1> HIDE DEF rows
<1>4. RequestOK(held')
  BY <1>1, <1>2, <1>3, RowsWith
<1>5. ReviewOK(review')
  BY <1>1, <1>2, ResolvedIs
<1>6. edits' \in 0..MaxEdits /\ edits' # edits
  BY <1>1, <1>2, ValuesAssumption
<1>7. /\ FlightsOK(flight', held', typed) /\ timer' = TRUE /\ failed' = FALSE
      /\ Underway(timer', failed', flight', held', typed)
  BY <1>1, <1>2, ScheduleOK
<1>8. ReviewInvariant'
  BY <1>2, <1>4, <1>5, <1>6, <1>7 DEF ReviewInvariant
<1> QED
  BY <1>2, <1>6, <1>8 DEF StepOK, RowsStep, PassStep

\* The request held after the rows were changed from what is drawn.
LEMMA CapturedIs ==
  ASSUME NEW h, RequestOK(h), NEW content \in Contents, NEW rows, Lists(rows),
         OpenRowsBlock(rows, h.verdict)
  PROVE  RequestOK([[h EXCEPT !.content = content] EXCEPT !.rows = rows])
<1> DEFINE c == [h EXCEPT !.content = content]
<1>1. RequestOK(c) /\ c.verdict = h.verdict
  BY RequestWith
<1> HIDE DEF c
<1>2. RequestOK([c EXCEPT !.rows = rows])
  BY <1>1, RowsWith
<1> QED
  BY <1>2 DEF c

(* A Case is added with a name no Case of its scope has, and complete.     *)
LEMMA CaseAdded ==
  ASSUME NEW rows, Lists(rows), NEW verdict, OpenRowsBlock(rows, verdict), NEW new \in Rows,
         new.id = FreshIds(RowsOf(rows, new.scope), 1)[1],
         \A f \in Fields : new.pick[f] # None
  PROVE  Lists(Append(rows, new)) /\ OpenRowsBlock(Append(rows, new), verdict)
<1> DEFINE all  == Append(rows, new)
           n    == Len(rows)
           mine == RowsOf(rows, new.scope)
<1>1. rows \in Seq(Rows) /\ Named(rows) /\ n \in Nat
  BY DEF Lists
<1>2. /\ all \in Seq(Rows) /\ Len(all) = n + 1 /\ all[n + 1] = new
      /\ \A i \in 1..n : all[i] = rows[i]
  BY <1>1
<1> HIDE DEF all
<1>3. mine \in Seq(Rows)
  BY <1>1, RowsOfIs
<1>4. \A k \in 1..Len(mine) : mine[k].id # new.id
  <2>1. Len(mine) \in Nat
    BY <1>3
  <2> HIDE DEF mine
  <2>2. \A i \in 1..Len(mine) : mine[i].id # FreshIds(mine, 1)[1]
    BY <2>1, FreshIdsAre
  <2> QED
    BY <2>2 DEF mine
<1>5. ASSUME NEW i \in 1..n
      PROVE  CaseId(rows[i]) # CaseId(new)
  <2> SUFFICES ASSUME rows[i].scope = new.scope, rows[i].id = new.id
               PROVE  FALSE
    BY DEF CaseId
  <2>1. PICK k \in 1..Len(mine) : mine[k] = rows[i]
    BY <1>1, RowsOfIs
  <2> QED
    BY <1>4, <2>1
<1>6. \A i \in 1..(n + 1) : i \in 1..n \/ i = n + 1
  BY <1>1
<1>7. Named(all)
  <2> SUFFICES ASSUME NEW i \in 1..(n + 1), NEW j \in 1..(n + 1), i # j
               PROVE  CaseId(all[i]) # CaseId(all[j])
    BY <1>2 DEF Named
  <2>1. CASE i \in 1..n /\ j \in 1..n
    BY <1>1, <1>2, <2>1 DEF Named
  <2>2. CASE i \in 1..n /\ j = n + 1
    BY <1>2, <1>5, <2>2
  <2>3. CASE i = n + 1 /\ j \in 1..n
    BY <1>2, <1>5, <2>3
  <2> QED
    BY <1>6, <2>1, <2>2, <2>3
<1>8. OpenRowsBlock(all, verdict)
  <2> SUFFICES ASSUME NEW i \in 1..(n + 1), NEW f \in Fields, all[i].pick[f] = None
               PROVE  all[i].scope \in Misconfigured(verdict)
    BY <1>2 DEF OpenRowsBlock
  <2>1. i \in 1..n
    BY <1>2, <1>6
  <2> QED
    BY <1>2, <2>1 DEF OpenRowsBlock
<1>9. Lists(all)
  BY <1>2, <1>7 DEF Lists
<1> QED
  BY <1>8, <1>9 DEF all

\* The user adds a Case.
LEMMA AddCaseKeeps ==
  ASSUME ReviewInvariant, AddCase
  PROVE  StepOK
<1> DEFINE pick == FirstAvailable(held.rows, Offered, tab)
           id   == FreshIds(RowsOf(held.rows, tab), 1)[1]
           new  == [id |-> id, scope |-> tab, auto |-> None, lost |-> NoPick, pick |-> pick]
           next == [[held EXCEPT !.content = typed] EXCEPT !.rows = Append(held.rows, new)]
<1>1. /\ typed \in Contents /\ RequestOK(held) /\ ReviewOK(review) /\ edits \in 0..MaxEdits
      /\ tab \in Range(Scopes) /\ FlightsOK(flight, held, typed)
  BY DEF ReviewInvariant, PlaceOK
<1>2. /\ Lists(held.rows) /\ OpenRowsBlock(held.rows, held.verdict) /\ held.rows \in Seq(Rows)
  BY <1>1, RequestFields
<1>3. [held EXCEPT !.content = typed].rows = held.rows
  BY <1>1, RequestWith
<1>4. /\ edits < MaxEdits /\ pick # None /\ held' = next
      /\ review' = Drawn(review, next, tab, TRUE) /\ edits' = edits + 1 /\ Schedule
      /\ UNCHANGED <<typed, screen, tab, cardTab>>
  <2>1. Captured.rows = held.rows
    BY <1>3 DEF Captured
  <2>2. [Captured EXCEPT !.rows = Append(@, new)] = next
    BY <2>1 DEF Captured
  <2> HIDE DEF new, next
  <2> QED
    BY <2>2 DEF AddCase, new
<1>5. pick \in [Fields -> Sources]
  BY <1>4, FirstAvailableIs
<1>6. id \in Nat \ {0}
  <2>1. RowsOf(held.rows, tab) \in Seq(Rows)
    BY <1>2, RowsOfIs
  <2>2. Len(RowsOf(held.rows, tab)) \in Nat
    BY <2>1
  <2> QED
    BY <2>2, FreshIdsAre
<1> HIDE DEF pick, id
<1>7. /\ new \in Rows /\ new.id = id /\ new.scope = tab /\ new.pick = pick
  <2>1. NoPick \in [Fields -> Sources \cup {None}]
    BY DEF NoPick
  <2>2. pick \in [Fields -> Sources \cup {None}]
    BY <1>5
  <2> QED
    BY <1>1, <1>6, <2>1, <2>2 DEF Rows
<1> HIDE DEF new
<1>8. \A f \in Fields : new.pick[f] # None
  BY <1>5, <1>7, Constants
<1>9. new.id = FreshIds(RowsOf(held.rows, new.scope), 1)[1]
  BY <1>7 DEF id
<1>10. Lists(Append(held.rows, new)) /\ OpenRowsBlock(Append(held.rows, new), held.verdict)
  BY <1>2, <1>7, <1>8, <1>9, CaseAdded
<1>11. RequestOK(next)
  BY <1>1, <1>10, CapturedIs
<1> HIDE DEF next
<1>12. ReviewOK(review')
  BY <1>1, <1>4, DrawnIs
<1>13. edits' \in 0..MaxEdits /\ edits' # edits
  BY <1>1, <1>4, ValuesAssumption
<1>14. /\ FlightsOK(flight', held', typed) /\ timer' = TRUE /\ failed' = FALSE
       /\ Underway(timer', failed', flight', held', typed)
  BY <1>1, <1>4, ScheduleOK
<1>15. ReviewInvariant'
  BY <1>4, <1>11, <1>12, <1>13, <1>14 DEF ReviewInvariant
<1> QED
  BY <1>4, <1>13, <1>15 DEF StepOK, RowsStep, PassStep

(* Removing a Case leaves the others.                                      *)
LEMMA CaseRemoved ==
  ASSUME NEW rows, Lists(rows), NEW verdict, OpenRowsBlock(rows, verdict), NEW i \in 1..Len(rows)
  PROVE  Lists(RemoveAt(rows, i)) /\ OpenRowsBlock(RemoveAt(rows, i), verdict)
<1> DEFINE n    == Len(rows)
           p    == SubSeq(rows, 1, i - 1)
           q    == SubSeq(rows, i + 1, n)
           all  == p \o q
           from == [k \in 1..(n - 1) |-> IF k < i THEN k ELSE k + 1]
<1>1. rows \in Seq(Rows) /\ Named(rows) /\ n \in Nat /\ i \in Nat /\ i >= 1 /\ i <= n
  BY DEF Lists
<1>2. /\ p \in Seq(Rows) /\ Len(p) = i - 1 /\ \A k \in 1..(i - 1) : p[k] = rows[k]
  BY <1>1
<1>3. /\ q \in Seq(Rows) /\ Len(q) = n - i /\ \A k \in 1..(n - i) : q[k] = rows[i + k]
  BY <1>1
<1> HIDE DEF p, q
<1>4. /\ all \in Seq(Rows) /\ Len(all) = Len(p) + Len(q)
      /\ \A k \in 1..(Len(p) + Len(q)) : all[k] = IF k <= Len(p) THEN p[k] ELSE q[k - Len(p)]
  <2>1. p \in Seq(Rows) /\ q \in Seq(Rows)
    BY <1>2, <1>3
  <2> QED
    BY <2>1, ConcatProperties
<1>5. all = RemoveAt(rows, i)
  BY DEF RemoveAt, p, q
<1> HIDE DEF all
<1>6. Len(all) = n - 1
  BY <1>1, <1>2, <1>3, <1>4
<1>7. ASSUME NEW k \in 1..(n - 1)
      PROVE  from[k] \in 1..n /\ all[k] = rows[from[k]]
  <2>1. CASE k < i
    <3>1. k \in 1..(i - 1) /\ k <= Len(p) /\ k \in 1..(Len(p) + Len(q)) /\ from[k] = k
      BY <1>1, <1>2, <1>3, <2>1
    <3> QED
      BY <1>1, <1>2, <1>4, <3>1
  <2>2. CASE ~(k < i)
    <3>1. /\ k - (i - 1) \in 1..(n - i) /\ ~(k <= i - 1) /\ i + (k - (i - 1)) = k + 1
          /\ k \in 1..(i - 1 + (n - i)) /\ from[k] = k + 1 /\ k + 1 \in 1..n
      BY <1>1, <2>2
    <3>2. all[k] = q[k - (i - 1)]
      BY <1>2, <1>3, <1>4, <3>1
    <3> QED
      BY <1>3, <3>1, <3>2
  <2> QED
    BY <2>1, <2>2
<1>8. \A k, l \in 1..(n - 1) : k # l => from[k] # from[l]
  BY <1>1
<1> HIDE DEF from
<1>9. Lists(all)
  <2>1. ASSUME NEW k \in 1..(n - 1), NEW l \in 1..(n - 1), k # l
        PROVE  CaseId(all[k]) # CaseId(all[l])
    <3>1. from[k] \in 1..n /\ from[l] \in 1..n /\ from[k] # from[l]
      BY <1>7, <1>8, <2>1
    <3>2. CaseId(rows[from[k]]) # CaseId(rows[from[l]])
      BY <1>1, <3>1 DEF Named
    <3> QED
      BY <1>7, <3>2
  <2> QED
    BY <1>4, <1>6, <2>1 DEF Lists, Named
<1>10. OpenRowsBlock(all, verdict)
  BY <1>6, <1>7 DEF OpenRowsBlock
<1> QED
  BY <1>5, <1>9, <1>10

\* The user removes a Case.
LEMMA RemoveCaseKeeps ==
  ASSUME ReviewInvariant, NEW i \in 1..Len(held.rows), RemoveCase(i)
  PROVE  StepOK
<1> DEFINE next == [[held EXCEPT !.content = typed] EXCEPT !.rows = RemoveAt(held.rows, i)]
<1>1. /\ typed \in Contents /\ RequestOK(held) /\ ReviewOK(review) /\ edits \in 0..MaxEdits
      /\ tab \in Range(Scopes) /\ FlightsOK(flight, held, typed)
  BY DEF ReviewInvariant, PlaceOK
<1>2. Lists(held.rows) /\ OpenRowsBlock(held.rows, held.verdict)
  BY <1>1, RequestFields
<1>3. [held EXCEPT !.content = typed].rows = held.rows
  BY <1>1, RequestWith
<1>4. /\ edits < MaxEdits /\ held' = next
      /\ review' = Drawn(review, next, tab, TRUE) /\ edits' = edits + 1 /\ Schedule
      /\ UNCHANGED <<typed, screen, tab, cardTab>>
  <2>1. Captured.rows = held.rows
    BY <1>3 DEF Captured
  <2>2. [Captured EXCEPT !.rows = RemoveAt(@, i)] = next
    BY <2>1 DEF Captured
  <2> HIDE DEF next
  <2> QED
    BY <2>2 DEF RemoveCase
<1>5. Lists(RemoveAt(held.rows, i)) /\ OpenRowsBlock(RemoveAt(held.rows, i), held.verdict)
  BY <1>2, CaseRemoved
<1>6. RequestOK(next)
  BY <1>1, <1>5, CapturedIs
<1> HIDE DEF next
<1>7. ReviewOK(review')
  BY <1>1, <1>4, DrawnIs
<1>8. edits' \in 0..MaxEdits /\ edits' # edits
  BY <1>1, <1>4, ValuesAssumption
<1>9. /\ FlightsOK(flight', held', typed) /\ timer' = TRUE /\ failed' = FALSE
      /\ Underway(timer', failed', flight', held', typed)
  BY <1>1, <1>4, ScheduleOK
<1>10. ReviewInvariant'
  BY <1>4, <1>6, <1>7, <1>8, <1>9 DEF ReviewInvariant
<1> QED
  BY <1>4, <1>8, <1>10 DEF StepOK, RowsStep, PassStep

(* The answer the timer waited for.                                        *)
LEMMA AnswerTimerKeeps ==
  ASSUME ReviewInvariant, flight["timer"].on, NEW a, a = Adopted("timer"), AnswerTimer(a)
  PROVE  StepOK
<1>1. AdoptedOK(a, "timer")
  BY WaitsAre, AdoptedIs
<1>2. /\ flight' = Landed("timer") /\ held' = a.held /\ review' = a.review /\ tab' = a.tab
      /\ failed' = a.failed /\ UNCHANGED <<typed, screen, cardTab, timer, edits>>
  BY DEF AnswerTimer
<1>3. /\ RequestOK(a.held) /\ ReviewOK(a.review) /\ a.tab \in Range(Scopes)
      /\ a.failed \in BOOLEAN /\ FlightsOK(Landed("timer"), a.held, typed)
      /\ Underway(timer, a.failed, Landed("timer"), a.held, typed)
      /\ a.held = held \/ a.held.rows = Brought(held.rows, typed, held.known)
  BY <1>1 DEF AdoptedOK
<1>4. ReviewInvariant'
  BY <1>2, <1>3 DEF ReviewInvariant, PlaceOK
<1> QED
  BY <1>2, <1>3, <1>4 DEF StepOK, RowsStep, PassStep

(* The answer "next" on SCREEN-04 waited for.                              *)
LEMMA AnswerConditionsKeeps ==
  ASSUME ReviewInvariant, flight["conditions"].on, NEW a, a = Adopted("conditions"),
         AnswerConditions(a)
  PROVE  StepOK
<1> DEFINE I    == {k \in 1..Len(Cards) : a.held.content[Cards[k]] = Unfilled}
           todo == Kept(Cards, I)
           to   == Navigated(5, a.review, a.held, a.tab, cardTab)
<1>1. AdoptedOK(a, "conditions")
  BY WaitsAre, AdoptedIs
<1>2. /\ RequestOK(a.held) /\ ReviewOK(a.review) /\ a.tab \in Range(Scopes)
      /\ a.failed \in BOOLEAN /\ FlightsOK(Landed("conditions"), a.held, typed)
      /\ Underway(timer, a.failed, Landed("conditions"), a.held, typed)
      /\ a.held = held \/ a.held.rows = Brought(held.rows, typed, held.known)
  BY <1>1 DEF AdoptedOK
<1>3. /\ typed \in Contents /\ screen \in 3..6 /\ tab \in Range(Scopes) /\ cardTab \in Range(Scopes)
      /\ timer \in BOOLEAN /\ edits \in 0..MaxEdits
  BY DEF ReviewInvariant, PlaceOK
<1>4. /\ failed' = a.failed /\ flight' = Landed("conditions") /\ tab' = a.tab
      /\ UNCHANGED <<typed, timer, edits>>
  BY DEF AnswerConditions
<1>5. CASE todo # << >>
  <2>1. /\ cardTab' = IF Both THEN CardScope[todo[1]] ELSE cardTab
        /\ held' = IF cardTab' # cardTab THEN [a.held EXCEPT !.content = typed] ELSE a.held
        /\ review' = a.review /\ screen' = screen
    BY <1>5 DEF AnswerConditions
  <2>2. CardScope[todo[1]] \in Range(Scopes)
    <3>1. Len(Cards) \in Nat /\ I \in SUBSET (1..Len(Cards)) /\ \A k \in I : Cards[k] \in Range(Cards)
      BY Constants
    <3> HIDE DEF I
    <3>2. todo \in Seq(Range(Cards))
      BY <3>1, KeptType
    <3> HIDE DEF todo
    <3>3. todo[1] \in Range(Cards)
      BY <1>5, <3>2, RangeIs
    <3> QED
      BY <3>3, Constants
  <2> HIDE DEF todo
  <2>3. cardTab' \in Range(Scopes)
    BY <1>3, <2>1, <2>2
  <2>4. /\ RequestOK(held') /\ held'.rows = a.held.rows /\ held'.known = a.held.known
        /\ held'.content \in {typed, a.held.content}
    BY <1>2, <1>3, <2>1, RequestWith
  <2>5. FlightsOK(flight', held', typed)
    BY <1>2, <1>4, <2>4, SameRowsCount
  <2>6. Underway(timer, failed', flight', held', typed)
    BY <1>2, <1>4, <2>4 DEF Underway
  <2>7. ReviewInvariant'
    BY <1>2, <1>3, <1>4, <2>1, <2>3, <2>4, <2>5, <2>6 DEF ReviewInvariant, PlaceOK
  <2> QED
    BY <1>2, <1>4, <2>1, <2>4, <2>7 DEF StepOK, RowsStep, PassStep
<1>6. CASE todo = << >>
  <2>1. /\ screen' = to.screen /\ review' = to.review /\ held' = a.held /\ cardTab' = cardTab
    BY <1>6 DEF AnswerConditions
  <2>2. /\ ReviewOK(to.review) /\ to.screen \in 3..6
        /\ screen # 6 /\ to.screen = 6 => Misconfigured(a.held.verdict) = {}
    <3>1. 5 \in 3..6 /\ a.tab \in Range(Scopes) /\ screen \in 3..6 /\ ReviewOK(a.review)
      BY <1>2, <1>3
    <3> QED
      BY <3>1, NavigatedIs
  <2> HIDE DEF to
  <2>3. ReviewInvariant'
    BY <1>2, <1>3, <1>4, <2>1, <2>2 DEF ReviewInvariant, PlaceOK
  <2> QED
    BY <1>2, <1>4, <2>1, <2>2, <2>3 DEF StepOK, RowsStep, PassStep
<1> QED
  BY <1>5, <1>6

(* The scope "next" on SCREEN-05 turns to is a requested one.              *)
LEMMA RefusalIs ==
  ASSUME NEW v \in Verdicts, NEW r, Both
  PROVE  Refusal(v, r) # None => Refusal(v, r) \in Range(Scopes)
<1>1. CASE Misconfigured(v) # {}
  BY <1>1, FirstBlockingIs DEF Refusal, Blocking
<1>2. CASE Misconfigured(v) = {} /\ v.unused # {}
  <2>1. v.unused \in SUBSET Range(Scopes)
    BY DEF Verdicts
  <2>2. FirstOf(v.unused) \in Range(Scopes)
    BY <1>2, <2>1, FirstOfIs
  <2>3. Refusal(v, r) = FirstOf(v.unused)
    BY <1>2 DEF Refusal, Blocking
  <2> QED
    BY <2>2, <2>3
<1>3. CASE Misconfigured(v) = {} /\ v.unused = {}
  <2>1. Refusal(v, r) = "outdoor" \/ Refusal(v, r) = None
    BY <1>3 DEF Refusal, Blocking
  <2>2. "outdoor" \in Range(Scopes)
    BY ScopesAre DEF Both
  <2> QED
    BY <2>1, <2>2
<1> QED
  BY <1>1, <1>2, <1>3

(* The answer "next" on SCREEN-05 waited for.                              *)
LEMMA AnswerCaseKeeps ==
  ASSUME ReviewInvariant, flight["case"].on, NEW a, a = Adopted("case"),
         NEW r, r = Drawn(a.review, a.held, a.tab, screen = 5),
         AnswerCase(a, r, Refusal(a.held.verdict, r))
  PROVE  StepOK
<1> DEFINE why     == Refusal(a.held.verdict, r)
           settled == Unresolved(a.review, a.held.rows) = {} /\ a.review.status # "REVIEW"
           base    == IF settled THEN Rebased(r, a.held) ELSE r
           to      == Navigated(6, base, a.held, a.tab, cardTab)
           turning == Both /\ why # None /\ (why # a.tab \/ Blocking(a.held.verdict) = {})
<1>1. AdoptedOK(a, "case")
  BY WaitsAre, AdoptedIs
<1>2. /\ RequestOK(a.held) /\ ReviewOK(a.review) /\ a.tab \in Range(Scopes)
      /\ a.failed \in BOOLEAN /\ FlightsOK(Landed("case"), a.held, typed)
      /\ Underway(timer, a.failed, Landed("case"), a.held, typed)
      /\ a.held = held \/ a.held.rows = Brought(held.rows, typed, held.known)
  BY <1>1 DEF AdoptedOK
<1>3. /\ typed \in Contents /\ screen \in 3..6 /\ tab \in Range(Scopes) /\ cardTab \in Range(Scopes)
      /\ timer \in BOOLEAN /\ edits \in 0..MaxEdits /\ FlightsOK(flight, held, typed)
  BY DEF ReviewInvariant, PlaceOK
<1>4. ReviewOK(r)
  BY <1>2, DrawnIs
<1>5. UNCHANGED <<typed, cardTab, edits>>
  BY DEF AnswerCase
<1>6. CASE turning
  <2>1. TurnTo(r, a, why)
    BY <1>6 DEF AnswerCase
  <2>2. why \in Range(Scopes)
    BY <1>2, <1>6, RequestFields, RefusalIs
  <2> HIDE DEF why
  <2>3. /\ held' = a.held /\ review' = Switched(r, a.held, why) /\ tab' = why
        /\ timer' = TRUE /\ failed' = FALSE
        /\ flight' = [Scheduled(flight) EXCEPT !["case"] = Idle] /\ screen' = screen
    BY <2>1 DEF TurnTo
  <2>4. ReviewOK(review')
    BY <1>4, <2>2, <2>3, ResolvedIs, DrawnIs DEF Switched
  <2>5. FlightsOK(flight', held', typed)
    <3>1. DOMAIN flight = Waits /\ \A w \in Waits : flight[w].on \in BOOLEAN
      BY <1>3 DEF FlightsOK
    <3> QED
      BY <2>3, <3>1, ScheduledOK
  <2>6. Underway(timer', failed', flight', held', typed)
    BY <2>3 DEF Underway
  <2>7. ReviewInvariant'
    BY <1>2, <1>3, <1>5, <2>2, <2>3, <2>4, <2>5, <2>6 DEF ReviewInvariant, PlaceOK
  <2> QED
    BY <1>2, <2>3, <2>7 DEF StepOK, RowsStep, PassStep
<1>7. CASE ~turning
  <2>1. /\ held' = a.held /\ tab' = a.tab /\ failed' = a.failed /\ flight' = Landed("case")
        /\ IF why # None THEN review' = r /\ screen' = screen
           ELSE screen' = to.screen /\ review' = to.review
        /\ timer' = timer
    BY <1>7 DEF AnswerCase
  <2>2. ReviewOK(base)
    BY <1>4, RebasedIs
  <2> HIDE DEF base
  <2>3. /\ ReviewOK(to.review) /\ to.screen \in 3..6
        /\ screen # 6 /\ to.screen = 6 => Misconfigured(a.held.verdict) = {}
    <3>1. 6 \in 3..6 /\ a.tab \in Range(Scopes) /\ screen \in 3..6
      BY <1>2, <1>3
    <3> QED
      BY <2>2, <3>1, NavigatedIs
  <2> HIDE DEF to, why
  <2>4. /\ ReviewOK(review') /\ screen' \in 3..6
        /\ screen # 6 /\ screen' = 6 => Misconfigured(a.held.verdict) = {}
    BY <1>3, <1>4, <2>1, <2>3
  <2>5. ReviewInvariant'
    BY <1>2, <1>3, <1>5, <2>1, <2>4 DEF ReviewInvariant, PlaceOK
  <2> QED
    BY <1>2, <2>1, <2>4, <2>5 DEF StepOK, RowsStep, PassStep
<1> QED
  BY <1>6, <1>7

(***************************************************************************)
(* Every step keeps the invariant, changes the rows as the server does     *)
(* unless the user edits, and enters SCREEN-06 with a verdict that finds   *)
(* every Case complete.                                                    *)
(***************************************************************************)
LEMMA ReviewNextKeeps ==
  ASSUME ReviewInvariant, [ReviewNext]_reviewVars
  PROVE  StepOK
<1>1. CASE UserStep
  <2>1. ASSUME NEW p \in Range(Products), NEW v \in Values \cup {Unfilled}, EditProduct(p, v)
        PROVE  StepOK
    <3>1. p \in Sources /\ Edit(p, v)
      BY <2>1, Constants DEF EditProduct
    <3> QED
      BY <3>1, EditKeeps
  <2>2. ASSUME NEW c \in Range(Cards), NEW v \in Values \cup {Unfilled}, EditCard(c, v)
        PROVE  StepOK
    <3>1. c \in Sources /\ Edit(c, v)
      BY <2>2, Constants DEF EditCard
    <3> QED
      BY <3>1, EditKeeps
  <2> QED
    BY <1>1, <2>1, <2>2, SwitchCardsKeeps, SelectKeeps, AddCaseKeeps, RemoveCaseKeeps,
       SwitchTabKeeps, OpenKeeps, ConfirmKeeps DEF UserStep
<1>2. CASE PreviewStep
  <2>1. CASE Fire
    BY <2>1, FireKeeps
  <2>2. CASE \E w \in Waits : Lose(w)
    BY <2>2, LoseKeeps
  <2>3. CASE flight["timer"].on /\ \E a \in {Adopted("timer")} : AnswerTimer(a)
    BY <2>3, AnswerTimerKeeps
  <2>4. CASE flight["conditions"].on /\ \E a \in {Adopted("conditions")} : AnswerConditions(a)
    BY <2>4, AnswerConditionsKeeps
  <2> QED
    BY <1>2, <2>1, <2>2, <2>3, <2>4 DEF PreviewStep
<1>3. CASE CaseStep
  <2>1. PICK a \in {Adopted("case")} : \E r \in {Drawn(a.review, a.held, a.tab, screen = 5)} :
          AnswerCase(a, r, Refusal(a.held.verdict, r))
    BY <1>3 DEF CaseStep
  <2>2. PICK r \in {Drawn(a.review, a.held, a.tab, screen = 5)} :
          AnswerCase(a, r, Refusal(a.held.verdict, r))
    BY <2>1
  <2>3. flight["case"].on /\ a = Adopted("case") /\ r = Drawn(a.review, a.held, a.tab, screen = 5)
    BY <1>3, <2>1, <2>2 DEF CaseStep
  <2> QED
    BY <2>2, <2>3, AnswerCaseKeeps
<1>4. CASE UNCHANGED reviewVars
  <2>1. /\ typed' = typed /\ held' = held /\ review' = review /\ screen' = screen /\ tab' = tab
        /\ cardTab' = cardTab /\ timer' = timer /\ flight' = flight /\ failed' = failed
        /\ edits' = edits
    BY <1>4 DEF reviewVars
  <2>2. ReviewInvariant'
    BY <2>1 DEF ReviewInvariant
  <2> QED
    BY <2>1, <2>2 DEF StepOK, RowsStep, PassStep
<1> QED
  BY <1>1, <1>2, <1>3, <1>4 DEF ReviewNext

(* The Cases of a filled-in request have names of their own.               *)
LEMMA EverythingLists ==
  ASSUME NEW h, RequestOK(h)
  PROVE  Lists(Everything(h))
<1> DEFINE I     == {k \in 1..Len(Cards) :
                       Cards[k] \notin Used(h.rows, CardScope[Cards[k]], "condition")}
           open  == Kept(Cards, I)
           n     == Len(open)
           m     == Len(h.rows)
           id(k) == FreshIds(RowsOf(h.rows, CardScope[open[k]]), n)[k]
           pick(k) == [f \in Fields |-> IF f = "condition" THEN open[k] ELSE Products[1]]
           add   == [k \in 1..n |->
                       [id |-> id(k), scope |-> CardScope[open[k]], auto |-> None, lost |-> NoPick,
                        pick |-> pick(k)]]
           all   == h.rows \o add
<1>1. /\ h.rows \in Seq(Rows) /\ Named(h.rows) /\ Lists(h.rows) /\ m \in Nat
  BY RequestFields
<1>2. open \in Seq(Range(Cards)) /\ n \in Nat
  <2>1. Len(Cards) \in Nat /\ I \in SUBSET (1..Len(Cards)) /\ \A k \in I : Cards[k] \in Range(Cards)
    BY Constants
  <2> HIDE DEF I
  <2>2. open \in Seq(Range(Cards))
    BY <2>1, KeptType
  <2> QED
    BY <2>2
<1>3. Everything(h) = all
  BY DEF Everything
<1> HIDE DEF open
<1>4. \A k \in 1..n : open[k] \in Range(Cards) /\ CardScope[open[k]] \in Range(Scopes)
  BY <1>2, Constants
<1> HIDE DEF n
<1>5. ASSUME NEW k \in 1..n
      PROVE  /\ id(k) \in Nat \ {0}
             /\ \A i \in 1..m : h.rows[i].scope = CardScope[open[k]] => h.rows[i].id # id(k)
             /\ \A l \in 1..n : k # l /\ CardScope[open[l]] = CardScope[open[k]] => id(k) # id(l)
  <2> DEFINE mine == RowsOf(h.rows, CardScope[open[k]])
  <2>1. mine \in Seq(Rows) /\ Len(mine) \in Nat
    <3>1. mine \in Seq(Rows)
      BY <1>1, RowsOfIs
    <3> QED
      BY <3>1
  <2>2. \A i \in 1..m : h.rows[i].scope = CardScope[open[k]] =>
          \E j \in 1..Len(mine) : mine[j] = h.rows[i]
    BY <1>1, RowsOfIs
  <2> HIDE DEF mine
  <2>3. /\ \A l \in 1..n : /\ FreshIds(mine, n)[l] \in Nat \ {0}
                           /\ \A j \in 1..Len(mine) : mine[j].id # FreshIds(mine, n)[l]
        /\ \A l, j \in 1..n : l # j => FreshIds(mine, n)[l] # FreshIds(mine, n)[j]
    BY <1>2, <2>1, FreshIdsAre
  <2>4. id(k) = FreshIds(mine, n)[k]
    BY DEF mine
  <2>5. \A l \in 1..n : CardScope[open[l]] = CardScope[open[k]] => id(l) = FreshIds(mine, n)[l]
    BY DEF mine
  <2> HIDE DEF id
  <2>6. ASSUME NEW i \in 1..m, h.rows[i].scope = CardScope[open[k]]
        PROVE  h.rows[i].id # id(k)
    <3>1. PICK j \in 1..Len(mine) : mine[j] = h.rows[i]
      BY <2>2, <2>6
    <3> QED
      BY <2>3, <2>4, <3>1
  <2> QED
    BY <2>3, <2>4, <2>5, <2>6
<1> HIDE DEF id
<1>6. ASSUME NEW k \in 1..n
      PROVE  add[k] \in Rows /\ add[k].id = id(k) /\ add[k].scope = CardScope[open[k]]
  <2>1. Products[1] \in Sources /\ open[k] \in Sources
    <3>1. 1 \in 1..Len(Products)
      BY Constants
    <3> QED
      BY <1>4, <3>1, Constants
  <2>2. pick(k) \in [Fields -> Sources \cup {None}]
    BY <2>1
  <2>3. NoPick \in [Fields -> Sources \cup {None}]
    BY DEF NoPick
  <2> HIDE DEF pick
  <2>4. add[k] = [id |-> id(k), scope |-> CardScope[open[k]], auto |-> None, lost |-> NoPick,
                  pick |-> pick(k)]
    OBVIOUS
  <2> HIDE DEF add
  <2>5. id(k) \in Nat \ {0} /\ CardScope[open[k]] \in Range(Scopes)
    BY <1>4, <1>5
  <2> QED
    BY <2>2, <2>3, <2>4, <2>5 DEF Rows
<1>7. add \in Seq(Rows) /\ Len(add) = n
  <2>1. DOMAIN add = 1..n /\ add = [k \in 1..n |-> add[k]]
    OBVIOUS
  <2> HIDE DEF add
  <2>2. [k \in 1..n |-> add[k]] \in Seq(Rows) /\ Len([k \in 1..n |-> add[k]]) = n
    BY <1>2, <1>6
  <2> QED
    BY <2>1, <2>2
<1> HIDE DEF add
<1>8. /\ all \in Seq(Rows) /\ Len(all) = m + n
      /\ \A i \in 1..(m + n) : all[i] = IF i <= m THEN h.rows[i] ELSE add[i - m]
  <2>1. /\ all \in Seq(Rows) /\ Len(all) = Len(h.rows) + Len(add)
        /\ \A i \in 1..(Len(h.rows) + Len(add)) :
             all[i] = IF i <= Len(h.rows) THEN h.rows[i] ELSE add[i - Len(h.rows)]
    BY <1>1, <1>7, ConcatProperties
  <2> QED
    BY <1>7, <2>1
<1> HIDE DEF all
<1>9. \A i \in 1..(m + n) : \/ i \in 1..m /\ all[i] = h.rows[i]
                            \/ i - m \in 1..n /\ all[i] = add[i - m]
  BY <1>1, <1>2, <1>8
<1>10. ASSUME NEW k \in 1..n, NEW i \in 1..m
       PROVE  CaseId(add[k]) # CaseId(h.rows[i])
  BY <1>5, <1>6 DEF CaseId
<1>11. ASSUME NEW k \in 1..n, NEW l \in 1..n, k # l
       PROVE  CaseId(add[k]) # CaseId(add[l])
  BY <1>5, <1>6, <1>11 DEF CaseId
<1>12. ASSUME NEW i \in 1..(m + n), NEW j \in 1..(m + n), i # j
       PROVE  CaseId(all[i]) # CaseId(all[j])
  <2>1. CASE i \in 1..m /\ all[i] = h.rows[i] /\ j \in 1..m /\ all[j] = h.rows[j]
    BY <1>1, <1>12, <2>1 DEF Named
  <2>2. CASE i \in 1..m /\ all[i] = h.rows[i] /\ j - m \in 1..n /\ all[j] = add[j - m]
    BY <1>10, <2>2
  <2>3. CASE i - m \in 1..n /\ all[i] = add[i - m] /\ j \in 1..m /\ all[j] = h.rows[j]
    BY <1>10, <2>3
  <2>4. CASE i - m \in 1..n /\ all[i] = add[i - m] /\ j - m \in 1..n /\ all[j] = add[j - m]
    <3>1. i - m # j - m
      BY <1>1, <1>12
    <3> QED
      BY <1>11, <2>4, <3>1
  <2> QED
    BY <1>9, <2>1, <2>2, <2>3, <2>4
<1>13. Lists(all)
  BY <1>8, <1>12 DEF Lists, Named
<1> QED
  BY <1>3, <1>13

\* The page as it is loaded.
LEMMA ReviewInitInvariant == ReviewInit => ReviewInvariant
<1> SUFFICES ASSUME ReviewInit
             PROVE  ReviewInvariant
  OBVIOUS
<1> DEFINE none == [content |-> Filled, rows |-> << >>, known |-> {}]
           one  == Answered(none)
           d    == [content |-> Filled, rows |-> Everything(one), known |-> one.known]
<1>1. Filled \in Contents
  BY ValuesAssumption DEF Filled, Contents
<1>2. Lists(<< >>)
  BY DEF Lists, Named
<1>3. Counts(none, none, Filled)
  BY <1>2 DEF Counts
<1>4. RequestOK(one)
  <2> HIDE DEF none
  <2> QED
    BY <1>1, <1>3, AnsweredIs
<1>5. held = Answered(d)
  BY DEF ReviewInit
<1> HIDE DEF one
<1>6. Lists(Everything(one))
  BY <1>4, EverythingLists
<1>7. Counts(d, d, Filled)
  BY <1>6 DEF Counts
<1> HIDE DEF d
<1>8. RequestOK(held) /\ held.content = Filled /\ held.known = UsableIn(Filled)
  BY <1>1, <1>5, <1>7, AnsweredIs
<1>9. ReviewOK(review)
  <2>1. review = [status |-> Unaffected, affected |-> {}, key |-> None, rendered |-> {}, lost |-> {},
                  baseline |-> None, blocking |-> None, outdoorViewed |-> FALSE]
    BY DEF ReviewInit
  <2> QED
    BY <2>1 DEF ReviewOK, ReviewFields, SideFields
<1>10. /\ typed = Filled /\ screen = 4 /\ tab = Scopes[1] /\ cardTab = Scopes[1]
       /\ timer = FALSE /\ flight = [w \in Waits |-> Idle] /\ failed = FALSE /\ edits = 0
  BY DEF ReviewInit
<1>11. PlaceOK(screen, tab, cardTab)
  <2>1. Scopes[1] \in Range(Scopes)
    BY ScopesAre
  <2> QED
    BY <1>10, <2>1 DEF PlaceOK
<1>12. FlightsOK(flight, held, typed)
  <2>1. Idle.on = FALSE
    BY DEF Idle
  <2>2. DOMAIN flight = Waits /\ \A w \in Waits : flight[w] = Idle
    BY <1>10
  <2> QED
    BY <2>1, <2>2, WaitsAre DEF FlightsOK
<1>13. Underway(timer, failed, flight, held, typed)
  BY <1>8, <1>10 DEF Underway
<1>14. edits \in 0..MaxEdits
  BY <1>10, ValuesAssumption
<1> QED
  BY <1>1, <1>8, <1>9, <1>10, <1>11, <1>12, <1>13, <1>14 DEF ReviewInvariant

-----------------------------------------------------------------------------
(* The theorems.                                                           *)

(* The page, its review and every preview on its way stay in step, for any *)
(* answers, products, cards and scopes (ui.py: refreshPreview and the      *)
(* handlers of SCREEN-03 to SCREEN-06).                                    *)
THEOREM ReviewHolds == ReviewSpec => []ReviewInvariant
<1>1. ReviewInvariant /\ [ReviewNext]_reviewVars => ReviewInvariant'
  BY ReviewNextKeeps DEF StepOK
<1> QED
  BY <1>1, ReviewInitInvariant, PTL DEF ReviewSpec

(* Every variable of the page keeps its type; in particular no two Cases   *)
(* of a scope ever have the same name, whatever is added, removed, lost    *)
(* and normalized in between (state.py: _sanitize_manual_case_matrix).     *)
THEOREM ReviewTypes == ReviewSpec => []CaseReviewTypeOK
<1>1. ReviewInvariant => CaseReviewTypeOK
  <2> SUFFICES ASSUME ReviewInvariant
               PROVE  CaseReviewTypeOK
    OBVIOUS
  <2>1. /\ typed \in Contents /\ RequestOK(held) /\ ReviewOK(review)
        /\ PlaceOK(screen, tab, cardTab) /\ timer \in BOOLEAN /\ failed \in BOOLEAN
        /\ edits \in 0..MaxEdits /\ FlightsOK(flight, held, typed)
    BY DEF ReviewInvariant
  <2>2. /\ held.content \in Contents /\ held.known \subseteq Sources
        /\ held.rows \in Seq(Rows) /\ Named(held.rows)
    BY <2>1, RequestFields
  <2>3. \A i \in 1..Len(held.rows) : held.rows[i] \in Rows
    BY <2>2
  <2>4. \A i, j \in 1..Len(held.rows) : i # j => CaseId(held.rows[i]) # CaseId(held.rows[j])
    BY <2>2 DEF Named
  <2>5. review.status \in {Unaffected, "REVIEW", "REBUILD"} /\ review.rendered \subseteq Range(Scopes)
    BY <2>1 DEF ReviewOK
  <2>6. \A w \in Waits : flight[w].on \in BOOLEAN
    BY <2>1 DEF FlightsOK
  <2>7. screen \in 3..6 /\ tab \in Range(Scopes) /\ cardTab \in Range(Scopes)
    BY <2>1 DEF PlaceOK
  <2> QED
    BY <2>1, <2>2, <2>3, <2>4, <2>5, <2>6, <2>7 DEF CaseReviewTypeOK
<1> QED
  BY <1>1, ReviewHolds, PTL

(* What the user has typed and the page does not hold is on its way, or    *)
(* was lost with the last preview: an answer that is thrown away is never  *)
(* the only one that carried it (schedulePreviewRefresh, refreshPreview).  *)
THEOREM NothingForgotten == ReviewSpec => []NothingIsForgotten
<1>1. ReviewInvariant => NothingIsForgotten
  <2> SUFFICES ASSUME ReviewInvariant, typed # held.content \/ UsableIn(typed) # held.known,
                      ~timer, ~failed
               PROVE  \E w \in Waits : /\ flight[w].on /\ flight[w].current
                                       /\ flight[w].draft.content = typed
    BY DEF NothingIsForgotten
  <2>1. flight["timer"].on
    BY DEF ReviewInvariant, Underway
  <2>2. flight["timer"].current /\ Counts(flight["timer"].draft, held, typed)
    BY <2>1, WaitsAre DEF ReviewInvariant, FlightsOK
  <2> QED
    BY <2>1, <2>2, WaitsAre DEF Counts
<1> QED
  BY <1>1, ReviewHolds, PTL

(* A Case that lost a selection blocks its scope, on every screen and      *)
(* whichever answer is adopted last.                                       *)
THEOREM LostSelectionsAreBlocked == ReviewSpec => []LostSelectionsBlock
<1>1. ReviewInvariant => LostSelectionsBlock
  BY RequestFields DEF ReviewInvariant, OpenRowsBlock, LostSelectionsBlock
<1> QED
  BY <1>1, ReviewHolds, PTL

(* SCREEN-06 is entered only with every Case of every scope complete.      *)
THEOREM PreviewIsComplete == ReviewSpec => NoOpenCaseAtPreview
<1>1. ASSUME ReviewInvariant, [ReviewNext]_reviewVars, screen # 6, screen' = 6
      PROVE  \A i \in 1..Len(held'.rows), f \in Fields : held'.rows[i].pick[f] # None
  <2>1. StepOK
    BY <1>1, ReviewNextKeeps
  <2>2. Misconfigured(held'.verdict) = {}
    BY <1>1, <2>1 DEF StepOK, PassStep
  <2>3. RequestOK(held')
    BY <2>1 DEF StepOK, ReviewInvariant
  <2>4. OpenRowsBlock(held'.rows, held'.verdict)
    BY <2>3, RequestFields
  <2> QED
    BY <2>2, <2>4 DEF OpenRowsBlock
<1>2. ReviewInvariant /\ [ReviewNext]_reviewVars =>
        [screen # 6 /\ screen' = 6
           => \A i \in 1..Len(held'.rows), f \in Fields : held'.rows[i].pick[f] # None]_reviewVars
  BY <1>1
<1> QED
  BY <1>2, ReviewHolds, PTL DEF ReviewSpec, NoOpenCaseAtPreview

(* Unless the user edits, a selection is kept or taken out; one is made    *)
(* only where none was made or lost (NormalRow, adopted or not).           *)
THEOREM SelectionsStay == ReviewSpec => SelectionsAreTheUsers
<1>1. ASSUME ReviewInvariant, [ReviewNext]_reviewVars, edits' = edits, held'.rows # held.rows,
             NEW i \in 1..Len(held.rows), NEW j \in 1..Len(held'.rows), NEW f \in Fields,
             CaseId(held'.rows[j]) = CaseId(held.rows[i])
      PROVE  \/ held'.rows[j].pick[f] \in {held.rows[i].pick[f], None}
             \/ held.rows[i].pick[f] = None /\ held.rows[i].lost[f] = None
  <2>1. StepOK
    BY <1>1, ReviewNextKeeps
  <2>2. held'.rows = Brought(held.rows, typed, held.known)
    BY <1>1, <2>1 DEF StepOK, RowsStep
  <2>3. Lists(held.rows) /\ held.rows \in Seq(Rows) /\ Named(held.rows)
    BY <1>1, RequestFields DEF ReviewInvariant
  <2>4. Stems(held'.rows[j], held.rows, typed)
    BY <1>1, <2>2, <2>3, BroughtIs
  <2>5. PICK k \in 1..Len(held.rows) : held'.rows[j] = NormalRow(held.rows[k], typed)
    BY <1>1, <2>4 DEF Stems
  <2>6. held.rows[k] \in Rows /\ held.rows[i] \in Rows
    BY <2>3
  <2>7. CaseId(held'.rows[j]) = CaseId(held.rows[k])
    BY <2>5, <2>6, NormalRowIs DEF CaseId
  <2>8. k = i
    BY <1>1, <2>3, <2>7 DEF Named
  <2> QED
    BY <2>5, <2>6, <2>8, SelectionKept
<1>2. ReviewInvariant /\ [ReviewNext]_reviewVars =>
        [edits' = edits /\ held'.rows # held.rows =>
           \A i \in 1..Len(held.rows) : \A j \in 1..Len(held'.rows) : \A f \in Fields :
             CaseId(held'.rows[j]) = CaseId(held.rows[i]) =>
               \/ held'.rows[j].pick[f] \in {held.rows[i].pick[f], None}
               \/ held.rows[i].pick[f] = None /\ held.rows[i].lost[f] = None]_reviewVars
  BY <1>1
<1> QED
  BY <1>2, ReviewHolds, PTL DEF ReviewSpec, SelectionsAreTheUsers
=============================================================================
