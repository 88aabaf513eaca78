-------------------------- MODULE FormWrites_proofs -------------------------
(***************************************************************************)
(* FormWrites, for any kinds of cards and fields, any contexts and texts.  *)
(* Whatever the page or the assistant writes is brought to normal form:    *)
(* what a normal form is, that every step ends in one, and in it every     *)
(* card the step was not to take away; that in a normal form a save of     *)
(* what the page shows takes no answer away.                               *)
(***************************************************************************)
EXTENDS MCFormWrites, Retrieval_proofs

-----------------------------------------------------------------------------
(* Numbers.                                                                *)

(***************************************************************************)
(* The greatest of finitely many numbers: what has the fewest above it.    *)
(***************************************************************************)
LEMMA MaxIs ==
  ASSUME NEW T \in SUBSET Nat, T # {}, IsFiniteSet(T)
  PROVE  Max(T) \in T /\ \A y \in T : y <= Max(T)
<1> DEFINE above(x) == {y \in T : x < y}
           count == {Cardinality(above(x)) : x \in T}
<1>1. ASSUME NEW x \in T
      PROVE  IsFiniteSet(above(x)) /\ Cardinality(above(x)) \in Nat
  <2>1. IsFiniteSet(above(x))
    BY FS_Subset
  <2> QED
    BY <2>1, FS_CardinalityType
<1>2. count \in SUBSET Nat /\ count # {}
  BY <1>1
<1>3. PICK x \in T : \A y \in T : Cardinality(above(x)) <= Cardinality(above(y))
  <2>1. PICK a \in count : \A b \in count : a <= b
    <3> HIDE DEF count
    <3> QED
      BY <1>2, LeastNumber
  <2> QED
    BY <2>1
<1>4. ASSUME NEW y \in T, x < y
      PROVE  FALSE
  <2>1. above(y) \in SUBSET above(x) /\ y \in above(x) /\ y \notin above(y)
    <3>1. \A z \in T : z \in Nat
      OBVIOUS
    <3>2. \A z \in T : y < z => x < z
      BY <1>4, <3>1
    <3>3. ~(y < y)
      BY <3>1
    <3> QED
      BY <1>4, <3>2, <3>3
  <2>2. /\ IsFiniteSet(above(x)) /\ Cardinality(above(x)) \in Nat
        /\ IsFiniteSet(above(y)) /\ Cardinality(above(y)) \in Nat
        /\ Cardinality(above(x)) <= Cardinality(above(y))
    BY <1>1, <1>3
  <2> HIDE DEF above
  <2>3. /\ Cardinality(above(y)) <= Cardinality(above(x))
        /\ Cardinality(above(x)) = Cardinality(above(y)) => above(x) = above(y)
    BY <2>1, <2>2, FS_Subset
  <2> QED
    BY <2>1, <2>2, <2>3
<1>5. \A y \in T : x >= y /\ y <= x
  <2> HIDE DEF above, count
  <2>1. x \in Nat /\ \A y \in T : y \in Nat /\ ~(x < y)
    BY <1>4
  <2> QED
    BY <2>1
<1> QED
  BY <1>5 DEF Max

(* The place of an element of a sequence is one of its places.             *)
LEMMA PlacesOfSeq ==
  ASSUME NEW S, NEW s \in Seq(S)
  PROVE  /\ Len(s) \in Nat /\ DOMAIN s = 1..Len(s)
         /\ IsFiniteSet(DOMAIN s) /\ Cardinality(DOMAIN s) = Len(s)
         /\ \A k \in DOMAIN s : s[k] \in S
<1>1. Len(s) \in Nat /\ DOMAIN s = 1..Len(s) /\ \A k \in DOMAIN s : s[k] \in S
  OBVIOUS
<1>2. 1 \in Int /\ Len(s) \in Int
  BY <1>1
<1>3. IsFiniteSet(1..Len(s)) /\ Cardinality(1..Len(s)) = IF 1 > Len(s) THEN 0 ELSE Len(s) - 1 + 1
  BY <1>2, FS_Interval
<1> QED
  BY <1>1, <1>3

(* What is picked has a place for each place, and only those.              *)
LEMMA PickedPlaces ==
  ASSUME NEW S, NEW s \in Seq(S), NEW I \in SUBSET (DOMAIN s)
  PROVE  /\ Picked(s, I) \in Seq(S)
         /\ Len(Picked(s, I)) = Cardinality(I)
         /\ \E at : Enumerates(at, I) /\ \A k \in DOMAIN Picked(s, I) : Picked(s, I)[k] = s[at[k]]
<1>1. Places(I)
  BY PlacesOfSeq, SomePlaces
<1>2. PICK at : Enumerates(at, I) /\ Picked(s, I) = [k \in 1..Cardinality(I) |-> s[at[k]]]
  <2>1. PickOf(Picked(s, I), s, I)
    BY <1>1, PickedIs
  <2> QED
    BY <2>1 DEF PickOf
<1>3. \A k \in I : s[k] \in S
  BY PlacesOfSeq
<1>4. Picked(s, I) \in Seq(S)
  BY <1>1, <1>3, PickedType
<1>5. DOMAIN Picked(s, I) = 1..Cardinality(I) /\ Cardinality(I) \in Nat
  BY <1>2 DEF Enumerates
<1>6. Len(Picked(s, I)) = Cardinality(I)
  BY <1>4, <1>5
<1> QED
  BY <1>2, <1>4, <1>5, <1>6

(* The range of what is picked.                                            *)
LEMMA PickedRange ==
  ASSUME NEW S, NEW s \in Seq(S), NEW I \in SUBSET (DOMAIN s)
  PROVE  /\ \A k \in DOMAIN Picked(s, I) : \E i \in I : Picked(s, I)[k] = s[i]
         /\ \A i \in I : \E k \in DOMAIN Picked(s, I) : Picked(s, I)[k] = s[i]
         /\ I # {} => Len(Picked(s, I)) >= 1
<1> DEFINE p == Picked(s, I)
<1>1. /\ p \in Seq(S) /\ Len(p) = Cardinality(I)
      /\ \E at : Enumerates(at, I) /\ \A k \in DOMAIN p : p[k] = s[at[k]]
  BY PickedPlaces
<1> HIDE DEF p
<1>2. PICK at : Enumerates(at, I) /\ \A k \in DOMAIN p : p[k] = s[at[k]]
  BY <1>1
<1>3. DOMAIN p = 1..Cardinality(I)
  BY <1>1
<1>4. \A k \in DOMAIN p : at[k] \in I /\ p[k] = s[at[k]]
  BY <1>2, <1>3 DEF Enumerates
<1>5. \A i \in I : \E k \in DOMAIN p : at[k] = i
  BY <1>2, <1>3 DEF Enumerates
<1>6. I # {} => \E k : k \in DOMAIN p
  BY <1>5
<1>7. Len(p) \in Nat /\ DOMAIN p = 1..Len(p)
  BY <1>1
<1>8. I # {} => Len(p) >= 1
  BY <1>6, <1>7
<1> QED
  BY <1>4, <1>5, <1>8 DEF p

-----------------------------------------------------------------------------
(* The records of a form.                                                  *)

\* What a text is made of, on the page too.
ValueSet     == Texts \union {"", "Base", "Flat"}
ProductsSet   == [id : Nat, drawing : ValueSet, name : ValueSet, custom : BOOLEAN,
                 difference : ValueSet]
FanSet       == [id : Nat, location : ValueSet, rpm : ValueSet]
KindSet      == Range(CardTypes)
ScopeSet     == STRING \union {""}
FieldsSet(t) == [Range(FieldsOf[t]) -> ValueSet]
HexSet       == {"", MicroChannel, FinAndTube}
ModeSet      == {"", "common", "individual"}

\* What the parts of a card are.
CardParts(i, t, s, h, m, F, X) ==
  /\ i \in Nat /\ t \in KindSet /\ s \in ScopeSet /\ h \in HexSet /\ m \in ModeSet
  /\ F \in FieldsSet(t) /\ X \in Seq(FanSet)
  /\ (t = "operating") = (X # <<>>)
Card(i, t, s, h, m, F, X) ==
  [id |-> i, type |-> t, scope |-> s, hex |-> h, mode |-> m, fields |-> F, fans |-> X]
IsCard(c) == CardParts(c.id, c.type, c.scope, c.hex, c.mode, c.fields, c.fans)
CardSet ==
  {c \in [id : Nat, type : KindSet, scope : ScopeSet, hex : HexSet, mode : ModeSet,
          fields : UNION {FieldsSet(t) : t \in KindSet}, fans : Seq(FanSet)] : IsCard(c)}

\* A card made of these parts.
Made(c, i, t, s, h, m, F, X) ==
  /\ c \in CardSet
  /\ c.id = i /\ c.type = t /\ c.scope = s /\ c.hex = h /\ c.mode = m
  /\ c.fields = F /\ c.fans = X

\* The parts of a card, one by one.
LEMMA CardIs ==
  ASSUME NEW c \in CardSet
  PROVE  CardParts(c.id, c.type, c.scope, c.hex, c.mode, c.fields, c.fans)
BY DEF CardSet, IsCard

\* A card put together from its parts.
LEMMA CardMade ==
  ASSUME NEW i, NEW t, NEW s, NEW h, NEW m, NEW F, NEW X, CardParts(i, t, s, h, m, F, X)
  PROVE  Made(Card(i, t, s, h, m, F, X), i, t, s, h, m, F, X)
<1> DEFINE c == Card(i, t, s, h, m, F, X)
<1>1. /\ c.id = i /\ c.type = t /\ c.scope = s /\ c.hex = h /\ c.mode = m
      /\ c.fields = F /\ c.fans = X
  BY DEF Card
<1>3. CardParts(c.id, c.type, c.scope, c.hex, c.mode, c.fields, c.fans)
  <2> HIDE DEF c
  <2> QED
    BY <1>1
<1>4. /\ i \in Nat /\ t \in KindSet /\ s \in ScopeSet /\ h \in HexSet /\ m \in ModeSet
      /\ F \in UNION {FieldsSet(u) : u \in KindSet} /\ X \in Seq(FanSet)
  <2>1. t \in KindSet /\ F \in FieldsSet(t)
    BY DEF CardParts
  <2> QED
    BY <2>1 DEF CardParts
<1>5. c \in [id : Nat, type : KindSet, scope : ScopeSet, hex : HexSet, mode : ModeSet,
             fields : UNION {FieldsSet(u) : u \in KindSet}, fans : Seq(FanSet)]
  <2> DEFINE Fs == UNION {FieldsSet(u) : u \in KindSet}
             Xs == Seq(FanSet)
  <2>1. F \in Fs /\ X \in Xs
    BY <1>4
  <2> HIDE DEF Fs, Xs
  <2>2. c \in [id : Nat, type : KindSet, scope : ScopeSet, hex : HexSet, mode : ModeSet,
             fields : Fs, fans : Xs]
    BY <1>4, <2>1 DEF Card
  <2> QED
    BY <2>2 DEF Fs, Xs
<1> HIDE DEF c
<1>6. IsCard(c)
  BY <1>3 DEF IsCard
<1>7. c \in CardSet
  BY <1>5, <1>6 DEF CardSet
<1> QED
  BY <1>1, <1>7 DEF Made, c

\* A card under another id.
LEMMA CardWithId ==
  ASSUME NEW c \in CardSet, NEW i,
         CardParts(i, c.type, c.scope, c.hex, c.mode, c.fields, c.fans)
  PROVE  Made([c EXCEPT !.id = i],
              i, c.type, c.scope, c.hex, c.mode, c.fields, c.fans)
<1> DEFINE d == [c EXCEPT !.id = i]
           Fs == UNION {FieldsSet(u) : u \in KindSet}
           Xs == Seq(FanSet)
<1>1. c \in [id : Nat, type : KindSet, scope : ScopeSet, hex : HexSet, mode : ModeSet,
             fields : Fs, fans : Xs]
  BY DEF CardSet
<1>2. i \in Nat
  BY DEF CardParts
<1> HIDE DEF Fs, Xs
<1>3. /\ d.id = i /\ d.type = c.type /\ d.scope = c.scope
      /\ d.hex = c.hex /\ d.mode = c.mode /\ d.fields = c.fields /\ d.fans = c.fans
  BY ONLY <1>1 DEF d
<1>4. d \in [id : Nat, type : KindSet, scope : ScopeSet, hex : HexSet, mode : ModeSet,
             fields : Fs, fans : Xs]
  BY ONLY <1>1, <1>2 DEF d
<1> HIDE DEF d
<1>5. IsCard(d)
  BY <1>3 DEF IsCard
<1>6. d \in CardSet
  BY <1>4, <1>5 DEF CardSet, Fs, Xs
<1> QED
  BY <1>3, <1>6 DEF Made, d

\* A card with another kind of exchanger.
LEMMA CardWithHex ==
  ASSUME NEW c \in CardSet, NEW h,
         CardParts(c.id, c.type, c.scope, h, c.mode, c.fields, c.fans)
  PROVE  Made([c EXCEPT !.hex = h],
              c.id, c.type, c.scope, h, c.mode, c.fields, c.fans)
<1> DEFINE d == [c EXCEPT !.hex = h]
           Fs == UNION {FieldsSet(u) : u \in KindSet}
           Xs == Seq(FanSet)
<1>1. c \in [id : Nat, type : KindSet, scope : ScopeSet, hex : HexSet, mode : ModeSet,
             fields : Fs, fans : Xs]
  BY DEF CardSet
<1>2. h \in HexSet
  BY DEF CardParts
<1> HIDE DEF Fs, Xs
<1>3. /\ d.id = c.id /\ d.type = c.type /\ d.scope = c.scope
      /\ d.hex = h /\ d.mode = c.mode /\ d.fields = c.fields /\ d.fans = c.fans
  BY ONLY <1>1 DEF d
<1>4. d \in [id : Nat, type : KindSet, scope : ScopeSet, hex : HexSet, mode : ModeSet,
             fields : Fs, fans : Xs]
  BY ONLY <1>1, <1>2 DEF d
<1> HIDE DEF d
<1>5. IsCard(d)
  BY <1>3 DEF IsCard
<1>6. d \in CardSet
  BY <1>4, <1>5 DEF CardSet, Fs, Xs
<1> QED
  BY <1>3, <1>6 DEF Made, d

\* A card whose fan speeds are entered another way.
LEMMA CardWithMode ==
  ASSUME NEW c \in CardSet, NEW m,
         CardParts(c.id, c.type, c.scope, c.hex, m, c.fields, c.fans)
  PROVE  Made([c EXCEPT !.mode = m],
              c.id, c.type, c.scope, c.hex, m, c.fields, c.fans)
<1> DEFINE d == [c EXCEPT !.mode = m]
           Fs == UNION {FieldsSet(u) : u \in KindSet}
           Xs == Seq(FanSet)
<1>1. c \in [id : Nat, type : KindSet, scope : ScopeSet, hex : HexSet, mode : ModeSet,
             fields : Fs, fans : Xs]
  BY DEF CardSet
<1>2. m \in ModeSet
  BY DEF CardParts
<1> HIDE DEF Fs, Xs
<1>3. /\ d.id = c.id /\ d.type = c.type /\ d.scope = c.scope
      /\ d.hex = c.hex /\ d.mode = m /\ d.fields = c.fields /\ d.fans = c.fans
  BY ONLY <1>1 DEF d
<1>4. d \in [id : Nat, type : KindSet, scope : ScopeSet, hex : HexSet, mode : ModeSet,
             fields : Fs, fans : Xs]
  BY ONLY <1>1, <1>2 DEF d
<1> HIDE DEF d
<1>5. IsCard(d)
  BY <1>3 DEF IsCard
<1>6. d \in CardSet
  BY <1>4, <1>5 DEF CardSet, Fs, Xs
<1> QED
  BY <1>3, <1>6 DEF Made, d

\* A card with other fields.
LEMMA CardWithFields ==
  ASSUME NEW c \in CardSet, NEW F,
         CardParts(c.id, c.type, c.scope, c.hex, c.mode, F, c.fans)
  PROVE  Made([c EXCEPT !.fields = F],
              c.id, c.type, c.scope, c.hex, c.mode, F, c.fans)
<1> DEFINE d == [c EXCEPT !.fields = F]
           Fs == UNION {FieldsSet(u) : u \in KindSet}
           Xs == Seq(FanSet)
<1>1. c \in [id : Nat, type : KindSet, scope : ScopeSet, hex : HexSet, mode : ModeSet,
             fields : Fs, fans : Xs]
  BY DEF CardSet
<1>2. F \in Fs
  BY DEF CardParts
<1> HIDE DEF Fs, Xs
<1>3. /\ d.id = c.id /\ d.type = c.type /\ d.scope = c.scope
      /\ d.hex = c.hex /\ d.mode = c.mode /\ d.fields = F /\ d.fans = c.fans
  BY ONLY <1>1 DEF d
<1>4. d \in [id : Nat, type : KindSet, scope : ScopeSet, hex : HexSet, mode : ModeSet,
             fields : Fs, fans : Xs]
  BY ONLY <1>1, <1>2 DEF d
<1> HIDE DEF d
<1>5. IsCard(d)
  BY <1>3 DEF IsCard
<1>6. d \in CardSet
  BY <1>4, <1>5 DEF CardSet, Fs, Xs
<1> QED
  BY <1>3, <1>6 DEF Made, d

\* A card with other fans.
LEMMA CardWithFans ==
  ASSUME NEW c \in CardSet, NEW X,
         CardParts(c.id, c.type, c.scope, c.hex, c.mode, c.fields, X)
  PROVE  Made([c EXCEPT !.fans = X],
              c.id, c.type, c.scope, c.hex, c.mode, c.fields, X)
<1> DEFINE d == [c EXCEPT !.fans = X]
           Fs == UNION {FieldsSet(u) : u \in KindSet}
           Xs == Seq(FanSet)
<1>1. c \in [id : Nat, type : KindSet, scope : ScopeSet, hex : HexSet, mode : ModeSet,
             fields : Fs, fans : Xs]
  BY DEF CardSet
<1>2. X \in Xs
  BY DEF CardParts
<1> HIDE DEF Fs, Xs
<1>3. /\ d.id = c.id /\ d.type = c.type /\ d.scope = c.scope
      /\ d.hex = c.hex /\ d.mode = c.mode /\ d.fields = c.fields /\ d.fans = X
  BY ONLY <1>1 DEF d
<1>4. d \in [id : Nat, type : KindSet, scope : ScopeSet, hex : HexSet, mode : ModeSet,
             fields : Fs, fans : Xs]
  BY ONLY <1>1, <1>2 DEF d
<1> HIDE DEF d
<1>5. IsCard(d)
  BY <1>3 DEF IsCard
<1>6. d \in CardSet
  BY <1>4, <1>5 DEF CardSet, Fs, Xs
<1> QED
  BY <1>3, <1>6 DEF Made, d

\* A card with another kind of exchanger and its fields.
LEMMA CardWithHexFields ==
  ASSUME NEW c \in CardSet, NEW h, NEW F,
         CardParts(c.id, c.type, c.scope, h, c.mode, F, c.fans)
  PROVE  Made([c EXCEPT !.hex = h, !.fields = F],
              c.id, c.type, c.scope, h, c.mode, F, c.fans)
<1> DEFINE d == [c EXCEPT !.hex = h, !.fields = F]
           Fs == UNION {FieldsSet(u) : u \in KindSet}
           Xs == Seq(FanSet)
<1>1. c \in [id : Nat, type : KindSet, scope : ScopeSet, hex : HexSet, mode : ModeSet,
             fields : Fs, fans : Xs]
  BY DEF CardSet
<1>2. h \in HexSet /\ F \in Fs
  BY DEF CardParts
<1> HIDE DEF Fs, Xs
<1>3. /\ d.id = c.id /\ d.type = c.type /\ d.scope = c.scope
      /\ d.hex = h /\ d.mode = c.mode /\ d.fields = F /\ d.fans = c.fans
  BY ONLY <1>1 DEF d
<1>4. d \in [id : Nat, type : KindSet, scope : ScopeSet, hex : HexSet, mode : ModeSet,
             fields : Fs, fans : Xs]
  BY ONLY <1>1, <1>2 DEF d
<1> HIDE DEF d
<1>5. IsCard(d)
  BY <1>3 DEF IsCard
<1>6. d \in CardSet
  BY <1>4, <1>5 DEF CardSet, Fs, Xs
<1> QED
  BY <1>3, <1>6 DEF Made, d

\* A card with other fans, entered another way.
LEMMA CardWithModeFans ==
  ASSUME NEW c \in CardSet, NEW m, NEW X,
         CardParts(c.id, c.type, c.scope, c.hex, m, c.fields, X)
  PROVE  Made([c EXCEPT !.mode = m, !.fans = X],
              c.id, c.type, c.scope, c.hex, m, c.fields, X)
<1> DEFINE d == [c EXCEPT !.mode = m, !.fans = X]
           Fs == UNION {FieldsSet(u) : u \in KindSet}
           Xs == Seq(FanSet)
<1>1. c \in [id : Nat, type : KindSet, scope : ScopeSet, hex : HexSet, mode : ModeSet,
             fields : Fs, fans : Xs]
  BY DEF CardSet
<1>2. m \in ModeSet /\ X \in Xs
  BY DEF CardParts
<1> HIDE DEF Fs, Xs
<1>3. /\ d.id = c.id /\ d.type = c.type /\ d.scope = c.scope
      /\ d.hex = c.hex /\ d.mode = m /\ d.fields = c.fields /\ d.fans = X
  BY ONLY <1>1 DEF d
<1>4. d \in [id : Nat, type : KindSet, scope : ScopeSet, hex : HexSet, mode : ModeSet,
             fields : Fs, fans : Xs]
  BY ONLY <1>1, <1>2 DEF d
<1> HIDE DEF d
<1>5. IsCard(d)
  BY <1>3 DEF IsCard
<1>6. d \in CardSet
  BY <1>4, <1>5 DEF CardSet, Fs, Xs
<1> QED
  BY <1>3, <1>6 DEF Made, d

\* A card with other fields and fans.
LEMMA CardWithFieldsFans ==
  ASSUME NEW c \in CardSet, NEW F, NEW X,
         CardParts(c.id, c.type, c.scope, c.hex, c.mode, F, X)
  PROVE  Made([c EXCEPT !.fields = F, !.fans = X],
              c.id, c.type, c.scope, c.hex, c.mode, F, X)
<1> DEFINE d == [c EXCEPT !.fields = F, !.fans = X]
           Fs == UNION {FieldsSet(u) : u \in KindSet}
           Xs == Seq(FanSet)
<1>1. c \in [id : Nat, type : KindSet, scope : ScopeSet, hex : HexSet, mode : ModeSet,
             fields : Fs, fans : Xs]
  BY DEF CardSet
<1>2. F \in Fs /\ X \in Xs
  BY DEF CardParts
<1> HIDE DEF Fs, Xs
<1>3. /\ d.id = c.id /\ d.type = c.type /\ d.scope = c.scope
      /\ d.hex = c.hex /\ d.mode = c.mode /\ d.fields = F /\ d.fans = X
  BY ONLY <1>1 DEF d
<1>4. d \in [id : Nat, type : KindSet, scope : ScopeSet, hex : HexSet, mode : ModeSet,
             fields : Fs, fans : Xs]
  BY ONLY <1>1, <1>2 DEF d
<1> HIDE DEF d
<1>5. IsCard(d)
  BY <1>3 DEF IsCard
<1>6. d \in CardSet
  BY <1>4, <1>5 DEF CardSet, Fs, Xs
<1> QED
  BY <1>3, <1>6 DEF Made, d

\* A card with all that the normal form may change of it.
LEMMA CardNormalized ==
  ASSUME NEW c \in CardSet, NEW s, NEW h, NEW m, NEW F,
         CardParts(c.id, c.type, s, h, m, F, c.fans)
  PROVE  Made([c EXCEPT !.scope = s, !.hex = h, !.mode = m, !.fields = F],
              c.id, c.type, s, h, m, F, c.fans)
<1> DEFINE d == [c EXCEPT !.scope = s, !.hex = h, !.mode = m, !.fields = F]
           Fs == UNION {FieldsSet(u) : u \in KindSet}
           Xs == Seq(FanSet)
<1>1. c \in [id : Nat, type : KindSet, scope : ScopeSet, hex : HexSet, mode : ModeSet,
             fields : Fs, fans : Xs]
  BY DEF CardSet
<1>2. s \in ScopeSet /\ h \in HexSet /\ m \in ModeSet /\ F \in Fs
  BY DEF CardParts
<1> HIDE DEF Fs, Xs
<1>3. /\ d.id = c.id /\ d.type = c.type /\ d.scope = s
      /\ d.hex = h /\ d.mode = m /\ d.fields = F /\ d.fans = c.fans
  BY ONLY <1>1 DEF d
<1>4. d \in [id : Nat, type : KindSet, scope : ScopeSet, hex : HexSet, mode : ModeSet,
             fields : Fs, fans : Xs]
  BY ONLY <1>1, <1>2 DEF d
<1> HIDE DEF d
<1>5. IsCard(d)
  BY <1>3 DEF IsCard
<1>6. d \in CardSet
  BY <1>4, <1>5 DEF CardSet, Fs, Xs
<1> QED
  BY <1>3, <1>6 DEF Made, d

\* A product with another drawing, name or description.
LEMMA ProductWith ==
  ASSUME NEW p \in ProductsSet, NEW v \in ValueSet, NEW w \in ValueSet, NEW b \in BOOLEAN
  PROVE  /\ [p EXCEPT !.drawing = v] \in ProductsSet
         /\ [p EXCEPT !.difference = v] \in ProductsSet
         /\ [p EXCEPT !.name = v, !.custom = b] \in ProductsSet
         /\ [p EXCEPT !.name = v, !.custom = b, !.difference = w] \in ProductsSet
         /\ [p EXCEPT !.name = v, !.custom = b, !.difference = w].drawing = p.drawing
         /\ [p EXCEPT !.name = v, !.custom = b, !.difference = w].difference = w
         /\ [p EXCEPT !.name = v, !.custom = b, !.difference = w].id = p.id
BY DEF ProductsSet

-----------------------------------------------------------------------------
(* Normal cards.                                                           *)

NormalHex(c) ==
  IF c.type # "heat_exchanger" THEN "" ELSE IF c.hex # "" THEN c.hex ELSE FinAndTube
NormalFields(c) ==
  [f \in DOMAIN c.fields |->
     IF NormalHex(c) = MicroChannel /\ f = "fin" THEN "Flat" ELSE c.fields[f]]
NormalMode(c) == IF Len(c.fans) = 1 THEN "" ELSE c.mode

\* The normal form of a card: its id, kind and fans stay.
LEMMA NormalCardIs ==
  ASSUME NEW c \in CardSet, NEW s \in ScopeSet
  PROVE  Made(NormalCard(c, s), c.id, c.type, s, NormalHex(c), NormalMode(c),
              NormalFields(c), c.fans)
<1> DEFINE h == NormalHex(c)
           m == NormalMode(c)
           F == NormalFields(c)
<1>1. CardParts(c.id, c.type, c.scope, c.hex, c.mode, c.fields, c.fans)
  BY CardIs
<1>2. h \in HexSet /\ m \in ModeSet
  BY <1>1 DEF CardParts, NormalHex, NormalMode, HexSet, ModeSet
<1>3. F \in FieldsSet(c.type)
  <2>1. c.fields \in [Range(FieldsOf[c.type]) -> ValueSet]
    BY <1>1 DEF CardParts, FieldsSet
  <2>2. \A f \in Range(FieldsOf[c.type]) : c.fields[f] \in ValueSet
    BY ONLY <2>1
  <2>3. DOMAIN c.fields = Range(FieldsOf[c.type]) /\ "Flat" \in ValueSet
    BY ONLY <2>1 DEF ValueSet
  <2> QED
    BY ONLY <2>2, <2>3 DEF NormalFields, FieldsSet
<1>4. CardParts(c.id, c.type, s, h, m, F, c.fans)
  <2> HIDE DEF h, m, F
  <2> QED
    BY <1>1, <1>2, <1>3 DEF CardParts
<1>5. NormalCard(c, s) = [c EXCEPT !.scope = s, !.hex = h, !.mode = m, !.fields = F]
  BY DEF NormalCard, NormalHex, NormalMode, NormalFields
<1> HIDE DEF h, m, F
<1>6. Made([c EXCEPT !.scope = s, !.hex = h, !.mode = m, !.fields = F],
           c.id, c.type, s, h, m, F, c.fans)
  BY <1>4, CardNormalized
<1> QED
  BY <1>5, <1>6 DEF h, m, F

BlankFields(t) == [f \in Range(FieldsOf[t]) |-> ""]
BlankFans(t)   == IF t = "operating" THEN <<Fan(1)>> ELSE <<>>

\* A blank card has nothing filled in.
LEMMA BlankCardIs ==
  ASSUME NEW t \in KindSet, NEW s \in ScopeSet, NEW i \in Nat
  PROVE  /\ Made(BlankCard(t, s, i), i, t, s, "", "", BlankFields(t), BlankFans(t))
         /\ ~HasContent(BlankCard(t, s, i))
<1> DEFINE F == BlankFields(t)
           X == BlankFans(t)
<1>1. "" \in HexSet /\ "" \in ModeSet
  BY DEF HexSet, ModeSet
<1>2. F \in FieldsSet(t) /\ \A f \in DOMAIN F : F[f] = ""
  BY DEF BlankFields, FieldsSet, ValueSet
<1>3. X \in Seq(FanSet) /\ (t = "operating") = (X # <<>>)
      /\ \A k \in DOMAIN X : X[k].rpm = "" /\ X[k].location = ""
  <2>1. Fan(1) \in FanSet /\ Fan(1).rpm = "" /\ Fan(1).location = ""
    BY DEF Fan, FanSet, ValueSet
  <2> HIDE DEF FanSet
  <2>2. DOMAIN <<Fan(1)>> = {1} /\ <<Fan(1)>>[1] = Fan(1)
    OBVIOUS
  <2>3. DOMAIN <<>> = {} /\ <<>> \in Seq(FanSet)
    OBVIOUS
  <2>4. <<Fan(1)>> \in Seq(FanSet) /\ <<Fan(1)>> # <<>>
    <3> DEFINE x == Fan(1)
    <3>1. x \in FanSet
      BY <2>1
    <3> HIDE DEF x
    <3>2. <<x>> \in Seq(FanSet) /\ <<x>> # <<>>
      BY ONLY <3>1
    <3> QED
      BY <3>2 DEF x
  <2>5. CASE t = "operating"
    <3>1. X = <<Fan(1)>>
      BY <2>5 DEF BlankFans
    <3> HIDE DEF X
    <3> QED
      BY <2>1, <2>2, <2>4, <2>5, <3>1
  <2>6. CASE t # "operating"
    <3>1. X = <<>>
      BY <2>6 DEF BlankFans
    <3> HIDE DEF X
    <3> QED
      BY <2>3, <2>6, <3>1
  <2> QED
    BY <2>5, <2>6
<1>4. CardParts(i, t, s, "", "", F, X)
  <2> HIDE DEF F, X
  <2> QED
    BY <1>1, <1>2, <1>3 DEF CardParts
<1>5. BlankCard(t, s, i) = Card(i, t, s, "", "", F, X)
  BY DEF BlankCard, Card, BlankFields, BlankFans
<1> HIDE DEF F, X
<1>6. Made(BlankCard(t, s, i), i, t, s, "", "", F, X)
  BY <1>4, <1>5, CardMade
<1>7. ~HasContent(BlankCard(t, s, i))
  BY <1>2, <1>3, <1>6 DEF Made, HasContent
<1> QED
  BY <1>6, <1>7 DEF F, X

\* Nothing filled in stays nothing, and a normal card has what it had.
LEMMA NormalCardContent ==
  ASSUME NEW c \in CardSet, NEW s \in ScopeSet, ~HasContent(c)
  PROVE  ~HasContent(NormalCard(c, s))
<1>1. Made(NormalCard(c, s), c.id, c.type, s, NormalHex(c), NormalMode(c),
           NormalFields(c), c.fans)
  BY NormalCardIs
<1>2. \A f \in DOMAIN NormalFields(c) : f \in DOMAIN c.fields
        /\ NormalFields(c)[f] \in {c.fields[f], "Flat"}
  BY DEF NormalFields
<1> QED
  BY <1>1, <1>2 DEF Made, HasContent

-----------------------------------------------------------------------------
(* Ids.                                                                    *)

NewId(cards, k) ==
  IF Granted(cards, k) THEN Wish(cards[k])
  ELSE Max({Wish(cards[j]) : j \in OfType(cards, cards[k].type)})
       + Cardinality({j \in OfType(cards, cards[k].type) : j <= k /\ ~Granted(cards, j)})

\* Wishes.
LEMMA WishIs ==
  ASSUME NEW c \in CardSet
  PROVE  Wish(c) \in Nat \ {0}
<1>1. c.id \in Nat
  BY CardIs DEF CardParts
<1> QED
  BY <1>1 DEF Wish, NoId

\* The cards of a kind.
LEMMA OfTypeIs ==
  ASSUME NEW cards \in Seq(CardSet), NEW t
  PROVE  /\ OfType(cards, t) \in SUBSET (DOMAIN cards)
         /\ IsFiniteSet(OfType(cards, t))
         /\ \A k \in OfType(cards, t) : k \in DOMAIN cards /\ k \in Nat /\ cards[k].type = t
                                        /\ cards[k] \in CardSet
         /\ \A k \in DOMAIN cards : cards[k].type = t => k \in OfType(cards, t)
<1>1. IsFiniteSet(DOMAIN cards) /\ DOMAIN cards = 1..Len(cards) /\ Len(cards) \in Nat
      /\ \A k \in DOMAIN cards : cards[k] \in CardSet
  BY PlacesOfSeq
<1>2. OfType(cards, t) \in SUBSET (DOMAIN cards)
  BY DEF OfType
<1>3. IsFiniteSet(OfType(cards, t))
  BY <1>1, <1>2, FS_Subset
<1> QED
  BY <1>1, <1>2, <1>3 DEF OfType

\* The greatest wish of a kind.
LEMMA WishesIs ==
  ASSUME NEW cards \in Seq(CardSet), NEW t, OfType(cards, t) # {}
  PROVE  LET wishes == {Wish(cards[j]) : j \in OfType(cards, t)} IN
         Max(wishes) \in Nat \ {0} /\ \A j \in OfType(cards, t) : Wish(cards[j]) <= Max(wishes)
<1> DEFINE I == OfType(cards, t)
           wishes == {Wish(cards[j]) : j \in I}
           w == [j \in I |-> Wish(cards[j])]
<1>1. \A j \in I : Wish(cards[j]) \in Nat \ {0}
  BY OfTypeIs, WishIs
<1>2. wishes \in SUBSET Nat /\ wishes # {} /\ \A x \in wishes : x # 0
  BY <1>1
<1>3. IsFiniteSet(wishes)
  <2>1. w \in Surjection(I, wishes)
    BY DEF Surjection
  <2>2. IsFiniteSet(I)
    BY OfTypeIs
  <2> HIDE DEF w, wishes, I
  <2> QED
    BY <2>1, <2>2, FS_Surjection
<1>4. Max(wishes) \in wishes /\ \A y \in wishes : y <= Max(wishes)
  <2> HIDE DEF wishes
  <2> QED
    BY <1>2, <1>3, MaxIs
<1>5. \A j \in I : Wish(cards[j]) \in wishes
  OBVIOUS
<1> QED
  BY <1>2, <1>4, <1>5
\* New ids are ids, different for cards of one kind, and what was wished for
\* when it is granted.
LEMMA NewIdIs ==
  ASSUME NEW cards \in Seq(CardSet), NEW k \in DOMAIN cards
  PROVE  /\ NewId(cards, k) \in Nat \ {0}
         /\ \A j \in DOMAIN cards :
              j < k /\ cards[j].type = cards[k].type => NewId(cards, j) # NewId(cards, k)
<1> DEFINE t == cards[k].type
           I == OfType(cards, t)
           top == Max({Wish(cards[j]) : j \in I})
           over(n) == {j \in I : j <= n /\ ~Granted(cards, j)}
<1>1. k \in I /\ I # {}
  BY OfTypeIs
<1>2. top \in Nat \ {0} /\ \A j \in I : Wish(cards[j]) <= top
  BY <1>1, WishesIs
<1>3. \A n : IsFiniteSet(over(n)) /\ Cardinality(over(n)) \in Nat
  <2> TAKE n
  <2>1. over(n) \in SUBSET I /\ IsFiniteSet(I)
    BY OfTypeIs
  <2>2. IsFiniteSet(over(n))
    BY <2>1, FS_Subset
  <2> QED
    BY <2>2, FS_CardinalityType
<1>4. \A j \in I : /\ j \in DOMAIN cards /\ j \in Nat /\ cards[j].type = t
                   /\ Wish(cards[j]) \in Nat \ {0}
  BY OfTypeIs, WishIs
<1>5. \A j \in I : NewId(cards, j) = IF Granted(cards, j) THEN Wish(cards[j])
                                      ELSE top + Cardinality(over(j))
  BY <1>4 DEF NewId
<1>6. \A j \in DOMAIN cards : cards[j].type = t => j \in I
  BY OfTypeIs
<1>7. \A j \in I : ~Granted(cards, j) => Cardinality(over(j)) # 0
  <2> SUFFICES ASSUME NEW j \in I, ~Granted(cards, j)
               PROVE  Cardinality(over(j)) # 0
    OBVIOUS
  <2>1. j \in over(j)
    BY <1>4
  <2> HIDE DEF over
  <2> QED
    BY <1>3, <2>1, FS_EmptySet
<1>8. ASSUME NEW j \in I, j < k, Granted(cards, k)
      PROVE  Wish(cards[j]) # Wish(cards[k])
  <2>1. k \in Nat /\ j \in Nat /\ k \in DOMAIN cards /\ j \in DOMAIN cards
    BY <1>1, <1>4
  <2>2. j \in 1..k - 1
    <3>1. DOMAIN cards = 1..Len(cards)
      BY PlacesOfSeq
    <3> QED
      BY <1>8, <2>1, <3>1
  <2> QED
    BY <1>8, <2>2 DEF Granted
<1>9. ASSUME NEW j \in I, j < k, ~Granted(cards, k)
      PROVE  Cardinality(over(j)) < Cardinality(over(k))
  <2>1. k \in Nat /\ j \in Nat /\ \A i \in I : i \in Nat
    BY <1>1, <1>4
  <2>2. over(j) \in SUBSET over(k)
    <3>1. \A i \in I : i <= j => i <= k
      BY <1>9, <2>1
    <3> QED
      BY <3>1
  <2>3. k \in over(k) /\ k \notin over(j)
    BY <1>1, <1>9, <2>1
  <2>4. /\ IsFiniteSet(over(k)) /\ Cardinality(over(k)) \in Nat /\ Cardinality(over(j)) \in Nat
    BY <1>3
  <2> HIDE DEF over
  <2>5. /\ Cardinality(over(j)) <= Cardinality(over(k))
        /\ Cardinality(over(k)) = Cardinality(over(j)) => over(k) = over(j)
    BY <2>2, <2>4, FS_Subset
  <2> QED
    BY <2>3, <2>4, <2>5
<1> HIDE DEF top, over, I
<1>10. ASSUME NEW j \in I, j < k
       PROVE  NewId(cards, j) # NewId(cards, k)
  <2>1. CASE Granted(cards, k)
    <3>1. NewId(cards, k) = Wish(cards[k]) /\ Wish(cards[k]) <= top
      BY <1>1, <1>2, <1>5, <2>1
    <3>2. CASE Granted(cards, j)
      <4>1. NewId(cards, j) = Wish(cards[j])
        BY <1>5, <3>2
      <4> QED
        BY <1>8, <1>10, <2>1, <3>1, <4>1
    <3>3. CASE ~Granted(cards, j)
      <4>1. NewId(cards, j) = top + Cardinality(over(j))
            /\ Cardinality(over(j)) \in Nat /\ Cardinality(over(j)) # 0
        BY <1>3, <1>5, <1>7, <3>3
      <4> QED
        BY <1>1, <1>2, <1>4, <3>1, <4>1
    <3> QED
      BY <3>2, <3>3
  <2>2. CASE ~Granted(cards, k)
    <3>1. /\ NewId(cards, k) = top + Cardinality(over(k))
          /\ Cardinality(over(j)) < Cardinality(over(k))
          /\ Cardinality(over(j)) \in Nat /\ Cardinality(over(k)) \in Nat
      BY <1>1, <1>3, <1>5, <1>9, <1>10, <2>2
    <3>2. NewId(cards, j) \in {Wish(cards[j]), top + Cardinality(over(j))}
          /\ Wish(cards[j]) <= top /\ Wish(cards[j]) \in Nat
      BY <1>2, <1>4, <1>5
    <3> QED
      BY <1>2, <3>1, <3>2
  <2> QED
    BY <2>1, <2>2
<1>11. NewId(cards, k) \in Nat \ {0}
  BY <1>1, <1>2, <1>3, <1>4, <1>5
<1> QED
  BY <1>6, <1>10, <1>11

\* What has its id is as it was but for the id.
LEMMA IdentifiedIs ==
  ASSUME NEW cards \in Seq(CardSet)
  PROVE  /\ Identified(cards) \in Seq(CardSet)
         /\ Len(Identified(cards)) = Len(cards)
         /\ \A k \in DOMAIN cards : LET c == cards[k] IN
              /\ Made(Identified(cards)[k], NewId(cards, k), c.type, c.scope, c.hex, c.mode,
                      c.fields, c.fans)
              /\ NewId(cards, k) = c.id => Identified(cards)[k] = c
<1> DEFINE r == Identified(cards)
<1>1. r = [k \in DOMAIN cards |-> [cards[k] EXCEPT !.id = NewId(cards, k)]]
  BY DEF Identified, NewId
<1>2. ASSUME NEW k \in DOMAIN cards
      PROVE  /\ r[k] = [cards[k] EXCEPT !.id = NewId(cards, k)]
             /\ Made(r[k], NewId(cards, k), cards[k].type, cards[k].scope, cards[k].hex,
                     cards[k].mode, cards[k].fields, cards[k].fans)
  <2> DEFINE c == cards[k]
             i == NewId(cards, k)
  <2>1. c \in CardSet /\ i \in Nat
    BY PlacesOfSeq, NewIdIs
  <2>2. r[k] = [c EXCEPT !.id = i]
    BY <1>1
  <2> HIDE DEF c, i, r
  <2>3. CardParts(c.id, c.type, c.scope, c.hex, c.mode, c.fields, c.fans)
    BY <2>1, CardIs
  <2>4. CardParts(i, c.type, c.scope, c.hex, c.mode, c.fields, c.fans)
    BY <2>1, <2>3 DEF CardParts
  <2>5. Made([c EXCEPT !.id = i], i, c.type, c.scope, c.hex, c.mode, c.fields, c.fans)
    BY <2>1, <2>4, CardWithId
  <2> QED
    BY <2>2, <2>5 DEF c, i
<1>3. ASSUME NEW k \in DOMAIN cards, NewId(cards, k) = cards[k].id
      PROVE  r[k] = cards[k]
  <2> DEFINE c == cards[k]
  <2>1. c \in CardSet
    BY PlacesOfSeq
  <2>2. r[k] = [c EXCEPT !.id = c.id]
    BY <1>2, <1>3
  <2> HIDE DEF c, r
  <2>3. [c EXCEPT !.id = c.id] = c
    BY <2>1 DEF CardSet
  <2> QED
    BY <2>2, <2>3 DEF c
<1>4. \A k \in DOMAIN cards : r[k] \in CardSet
  BY <1>2 DEF Made
<1>5. DOMAIN r = DOMAIN cards
  BY <1>1
<1> HIDE DEF r
<1>6. DOMAIN cards = 1..Len(cards) /\ Len(cards) \in Nat
  BY PlacesOfSeq
<1>7. r = [k \in 1..Len(cards) |-> r[k]]
  <2>1. r = [k \in DOMAIN cards |-> r[k]]
    BY <1>1 DEF r
  <2> QED
    BY <1>6, <2>1
<1>8. r \in Seq(CardSet) /\ Len(r) = Len(cards)
  BY <1>4, <1>6, <1>7
<1> QED
  BY <1>2, <1>3, <1>8 DEF r

-----------------------------------------------------------------------------
(* Forms.                                                                  *)

ContextSet == Contexts \union {NoContext}
GeneralSet == [Range(General) -> Texts \union {""}]
FormSet ==
  [general : GeneralSet, products : Seq(ProductsSet) \ {<<>>}, cards : Seq(CardSet),
   context : ContextSet, locked : BOOLEAN]

\* The parts of a form, one by one.
LEMMA FormIs ==
  ASSUME NEW g \in FormSet
  PROVE  /\ g.general \in GeneralSet
         /\ g.products \in Seq(ProductsSet) /\ g.products # <<>>
         /\ g.cards \in Seq(CardSet)
         /\ g.context \in ContextSet
         /\ g.locked \in BOOLEAN
<1> DEFINE Ps == Seq(ProductsSet) \ {<<>>}
           Cs == Seq(CardSet)
<1>1. g \in [general : GeneralSet, products : Ps, cards : Cs, context : ContextSet,
             locked : BOOLEAN]
  BY DEF FormSet
<1> HIDE DEF Ps, Cs
<1>2. g.general \in GeneralSet /\ g.products \in Ps /\ g.cards \in Cs
      /\ g.context \in ContextSet /\ g.locked \in BOOLEAN
  BY ONLY <1>1
<1> QED
  BY <1>2 DEF Ps, Cs

\* A form with other parts is a form.
LEMMA FormWithCards ==
  ASSUME NEW g \in FormSet, NEW cards \in Seq(CardSet)
  PROVE  /\ [g EXCEPT !.cards = cards] \in FormSet
         /\ [g EXCEPT !.cards = cards].cards = cards
         /\ [g EXCEPT !.cards = cards].general = g.general
         /\ [g EXCEPT !.cards = cards].products = g.products
         /\ [g EXCEPT !.cards = cards].context = g.context
         /\ [g EXCEPT !.cards = cards].locked = g.locked
<1> DEFINE Ps == Seq(ProductsSet) \ {<<>>}
           Cs == Seq(CardSet)
<1>1. g \in [general : GeneralSet, products : Ps, cards : Cs, context : ContextSet,
             locked : BOOLEAN] /\ cards \in Cs
  BY DEF FormSet
<1> HIDE DEF Ps, Cs
<1>2. /\ [g EXCEPT !.cards = cards] \in [general : GeneralSet, products : Ps, cards : Cs,
                                         context : ContextSet, locked : BOOLEAN]
      /\ [g EXCEPT !.cards = cards].cards = cards
      /\ [g EXCEPT !.cards = cards].general = g.general
      /\ [g EXCEPT !.cards = cards].products = g.products
      /\ [g EXCEPT !.cards = cards].context = g.context
      /\ [g EXCEPT !.cards = cards].locked = g.locked
  BY ONLY <1>1
<1> QED
  BY <1>2 DEF FormSet, Ps, Cs

\* A form with other products.
LEMMA FormWithProducts ==
  ASSUME NEW g \in FormSet, NEW products \in Seq(ProductsSet), products # <<>>
  PROVE  /\ [g EXCEPT !.products = products] \in FormSet
         /\ [g EXCEPT !.products = products].cards = g.cards
         /\ [g EXCEPT !.products = products].general = g.general
         /\ [g EXCEPT !.products = products].products = products
         /\ [g EXCEPT !.products = products].context = g.context
         /\ [g EXCEPT !.products = products].locked = g.locked
<1> DEFINE Ps == Seq(ProductsSet) \ {<<>>}
           Cs == Seq(CardSet)
<1>1. g \in [general : GeneralSet, products : Ps, cards : Cs, context : ContextSet,
             locked : BOOLEAN] /\ products \in Ps
  BY DEF FormSet
<1> HIDE DEF Ps, Cs
<1>2. /\ [g EXCEPT !.products = products] \in [general : GeneralSet, products : Ps, cards : Cs,
                                         context : ContextSet, locked : BOOLEAN]
      /\ [g EXCEPT !.products = products].cards = g.cards
      /\ [g EXCEPT !.products = products].general = g.general
      /\ [g EXCEPT !.products = products].products = products
      /\ [g EXCEPT !.products = products].context = g.context
      /\ [g EXCEPT !.products = products].locked = g.locked
  BY ONLY <1>1
<1> QED
  BY <1>2 DEF FormSet, Ps, Cs

\* A form with other products and other cards.
FormWith(h, g, products, cards) ==
  /\ h \in FormSet
  /\ h.cards = cards /\ h.products = products
  /\ h.general = g.general /\ h.context = g.context /\ h.locked = g.locked

\* Its parts.
LEMMA FormWithBoth ==
  ASSUME NEW g \in FormSet, NEW cards \in Seq(CardSet), NEW products \in Seq(ProductsSet),
         products # <<>>
  PROVE  FormWith([g EXCEPT !.products = products, !.cards = cards], g, products, cards)
<1> DEFINE Ps == Seq(ProductsSet) \ {<<>>}
           Cs == Seq(CardSet)
           h == [g EXCEPT !.products = products, !.cards = cards]
<1>1. g \in [general : GeneralSet, products : Ps, cards : Cs, context : ContextSet,
             locked : BOOLEAN] /\ products \in Ps /\ cards \in Cs
  BY DEF FormSet
<1> HIDE DEF Ps, Cs
<1>2. /\ h \in [general : GeneralSet, products : Ps, cards : Cs,
                context : ContextSet, locked : BOOLEAN]
      /\ h.cards = cards /\ h.products = products
      /\ h.general = g.general /\ h.context = g.context /\ h.locked = g.locked
  BY ONLY <1>1
<1> QED
  BY <1>2 DEF FormSet, Ps, Cs, FormWith

\* A form with another general field.
LEMMA FormWithGeneral ==
  ASSUME NEW g \in FormSet, NEW f \in Range(General), NEW v \in Texts
  PROVE  LET h == [g EXCEPT !.general[f] = v] IN
         /\ h \in FormSet /\ h.cards = g.cards /\ h.products = g.products
         /\ h.context = g.context /\ h.locked = g.locked
<1> DEFINE Ps == Seq(ProductsSet) \ {<<>>}
           Cs == Seq(CardSet)
           h == [g EXCEPT !.general[f] = v]
<1>1. g \in [general : GeneralSet, products : Ps, cards : Cs, context : ContextSet,
             locked : BOOLEAN]
  BY DEF FormSet
<1> HIDE DEF Ps, Cs
<1>2. [g.general EXCEPT ![f] = v] \in GeneralSet
  <2>1. g.general \in [Range(General) -> Texts \union {""}]
    BY <1>1 DEF GeneralSet
  <2> QED
    BY <2>1 DEF GeneralSet
<1>3. h = [g EXCEPT !.general = [g.general EXCEPT ![f] = v]]
  OBVIOUS
<1>4. /\ h \in [general : GeneralSet, products : Ps, cards : Cs,
                context : ContextSet, locked : BOOLEAN]
      /\ h.cards = g.cards /\ h.products = g.products
      /\ h.context = g.context /\ h.locked = g.locked
  <2> DEFINE G == [g.general EXCEPT ![f] = v]
  <2>1. G \in GeneralSet /\ h = [g EXCEPT !.general = G]
    BY <1>2, <1>3
  <2> HIDE DEF G, h
  <2> QED
    BY ONLY <1>1, <2>1
<1> QED
  BY <1>4 DEF FormSet, Ps, Cs

\* Its context: requested kinds and scopes, each once.
LEMMA ContextIs ==
  ASSUME NEW context \in ContextSet
  PROVE  /\ context.types \subseteq KindSet
         /\ context.scopes \in Seq(ScopeSet) /\ context.scopes # <<>>
         /\ \A i, j \in DOMAIN context.scopes : i # j => context.scopes[i] # context.scopes[j]
<1>1. CASE context \in Contexts
  <2>1. /\ context.types \subseteq KindSet
        /\ context.scopes \in Seq(STRING) /\ context.scopes # <<>>
        /\ \A i, j \in DOMAIN context.scopes : i # j => context.scopes[i] # context.scopes[j]
    BY <1>1, ContextsAssumption DEF KindSet
  <2>2. \A i \in DOMAIN context.scopes : context.scopes[i] \in ScopeSet
    BY <2>1, PlacesOfSeq DEF ScopeSet
  <2>3. context.scopes \in Seq(ScopeSet)
    BY <2>1, <2>2
  <2> QED
    BY <2>1, <2>3
<1>2. CASE context = NoContext
  <2>1. NoContext.types = KindSet /\ NoContext.scopes = <<"">>
    BY DEF NoContext, KindSet
  <2> DEFINE x == ""
             ss == <<x>>
  <2>2. x \in ScopeSet
    BY DEF ScopeSet
  <2> HIDE DEF x
  <2>3. ss \in Seq(ScopeSet) /\ ss # <<>> /\ DOMAIN ss = {1}
    BY ONLY <2>2
  <2>4. context.types = KindSet /\ context.scopes = ss
    BY <1>2, <2>1 DEF x
  <2> HIDE DEF ss
  <2> QED
    BY <2>3, <2>4
<1> QED
  BY <1>1, <1>2 DEF ContextSet

\* The scopes of a context.
LEMMA ScopesAre ==
  ASSUME NEW context \in ContextSet
  PROVE  /\ \A i \in DOMAIN context.scopes : /\ i \in Nat /\ context.scopes[i] \in ScopeSet
                                             /\ context.scopes[i] \in Range(context.scopes)
         /\ \A s \in Range(context.scopes) : \E i \in DOMAIN context.scopes : s = context.scopes[i]
         /\ 1 \in DOMAIN context.scopes
         /\ IsFiniteSet(DOMAIN context.scopes)
<1> DEFINE ss == context.scopes
<1>1. ss \in Seq(ScopeSet) /\ ss # <<>>
  BY ContextIs
<1> HIDE DEF ss
<1>2. /\ \A i \in DOMAIN ss : i \in Nat /\ ss[i] \in ScopeSet
      /\ 1 \in DOMAIN ss
      /\ IsFiniteSet(DOMAIN ss)
  BY <1>1, PlacesOfSeq
<1>3. /\ \A i \in DOMAIN ss : ss[i] \in Range(ss)
      /\ \A s \in Range(ss) : \E i \in DOMAIN ss : s = ss[i]
  BY DEF Range
<1> QED
  BY <1>2, <1>3 DEF ss

\* The kinds of cards: finitely many, and none twice.
LEMMA KindsAre ==
  /\ \A t \in DOMAIN CardTypes : t \in Nat /\ CardTypes[t] \in KindSet
  /\ \A type \in KindSet : type \in STRING /\ \E t \in DOMAIN CardTypes : CardTypes[t] = type
  /\ \A t, u \in DOMAIN CardTypes : CardTypes[t] = CardTypes[u] => t = u
  /\ IsFiniteSet(DOMAIN CardTypes)
<1>1. CardTypes \in Seq(STRING)
  BY KindsAssumption
<1>2. IsFiniteSet(DOMAIN CardTypes) /\ DOMAIN CardTypes = 1..Len(CardTypes)
      /\ Len(CardTypes) \in Nat /\ \A t \in DOMAIN CardTypes : CardTypes[t] \in STRING
  BY <1>1, PlacesOfSeq
<1>3. \A t, u \in DOMAIN CardTypes : CardTypes[t] = CardTypes[u] => t = u
  BY KindsAssumption
<1> QED
  BY <1>2, <1>3 DEF KindSet, Range

-----------------------------------------------------------------------------
(* Places of cards.                                                        *)

Requested(g, t) == t \in DOMAIN CardTypes /\ CardTypes[t] \in g.context.types

\* The cards of a scope and kind, or place 0 for the one that is made when there is none.
LEMMA GroupIs ==
  ASSUME NEW g \in FormSet, NEW i, NEW t
  PROVE  /\ Group(g, i, t) # {}
         /\ \A k \in Group(g, i, t) :
              /\ k \in 0..Len(g.cards)
              /\ k # 0 => k \in DOMAIN g.cards /\ g.cards[k] \in CardSet
                          /\ g.cards[k].type = CardTypes[t]
                          /\ ScopeOf(g.cards[k], g.context.scopes) = g.context.scopes[i]
         /\ \A k \in DOMAIN g.cards :
              g.cards[k].type = CardTypes[t]
              /\ ScopeOf(g.cards[k], g.context.scopes) = g.context.scopes[i] =>
                k \in OwnCards(g, i, t) /\ Group(g, i, t) = OwnCards(g, i, t)
<1>1. g.cards \in Seq(CardSet)
  BY FormIs
<1>2. Len(g.cards) \in Nat /\ DOMAIN g.cards = 1..Len(g.cards)
      /\ \A k \in DOMAIN g.cards : g.cards[k] \in CardSet
  BY <1>1, PlacesOfSeq
<1>3. \A k \in OwnCards(g, i, t) : /\ k \in DOMAIN g.cards /\ g.cards[k].type = CardTypes[t]
        /\ ScopeOf(g.cards[k], g.context.scopes) = g.context.scopes[i]
  BY DEF OwnCards, OfType
<1>4. \A k \in DOMAIN g.cards :
        g.cards[k].type = CardTypes[t]
        /\ ScopeOf(g.cards[k], g.context.scopes) = g.context.scopes[i] => k \in OwnCards(g, i, t)
  BY DEF OwnCards, OfType
<1> QED
  BY <1>2, <1>3, <1>4 DEF Group

\* A place is a scope, a kind and a card of them.
LEMMA PlacesKnown ==
  ASSUME NEW g \in FormSet
  PROVE  /\ \A p \in CardPlaces(g) :
              /\ p = <<p[1], p[2], p[3]>>
              /\ p[1] \in DOMAIN g.context.scopes /\ Requested(g, p[2])
              /\ p[3] \in Group(g, p[1], p[2])
         /\ \A i \in DOMAIN g.context.scopes, t \in DOMAIN CardTypes :
              Requested(g, t) => \A k \in Group(g, i, t) : <<i, t, k>> \in CardPlaces(g)
<1> DEFINE A == DOMAIN g.context.scopes
           B == {u \in DOMAIN CardTypes : CardTypes[u] \in g.context.types}
           at(i, t) == {<<i, t, k>> : k \in Group(g, i, t)}
<1>1. CardPlaces(g) = UNION {at(i, t) : i \in A, t \in B}
  BY DEF CardPlaces
<1>2. \A t : t \in B <=> Requested(g, t)
  BY DEF Requested
<1> HIDE DEF A, B
<1>3. \A p \in CardPlaces(g) : \E i \in A, t \in B : p \in at(i, t)
  <2> HIDE DEF at
  <2> QED
    BY <1>1
<1>4. \A i \in A, t \in B : \A p \in at(i, t) :
        p = <<i, t, p[3]>> /\ p[1] = i /\ p[2] = t /\ p[3] \in Group(g, i, t)
  OBVIOUS
<1>5. \A i \in A, t \in B : \A k \in Group(g, i, t) : <<i, t, k>> \in CardPlaces(g)
  <2>1. \A i \in A, t \in B : \A k \in Group(g, i, t) : <<i, t, k>> \in at(i, t)
    OBVIOUS
  <2>2. \A i \in A, t \in B : at(i, t) \subseteq CardPlaces(g)
    <3> HIDE DEF at
    <3> QED
      BY <1>1
  <2> HIDE DEF at
  <2> QED
    BY <2>1, <2>2
<1>6. ASSUME NEW p \in CardPlaces(g)
      PROVE  /\ p = <<p[1], p[2], p[3]>> /\ p[1] \in A /\ p[2] \in B
             /\ p[3] \in Group(g, p[1], p[2])
  <2>1. PICK i \in A, t \in B : p \in at(i, t)
    BY <1>3
  <2>2. p = <<i, t, p[3]>> /\ p[1] = i /\ p[2] = t /\ p[3] \in Group(g, i, t)
    BY <1>4, <2>1
  <2> QED
    BY ONLY <2>1, <2>2
<1>7. \A p \in CardPlaces(g) :
        /\ p = <<p[1], p[2], p[3]>> /\ p[1] \in A /\ Requested(g, p[2])
        /\ p[3] \in Group(g, p[1], p[2])
  BY <1>2, <1>6
<1>8. \A i \in A, t \in DOMAIN CardTypes :
        Requested(g, t) => \A k \in Group(g, i, t) : <<i, t, k>> \in CardPlaces(g)
  BY <1>2, <1>5
<1> QED
  BY <1>7, <1>8 DEF A

\* There are finitely many places for cards.
LEMMA PlacesFinite ==
  ASSUME NEW g \in FormSet
  PROVE  IsFiniteSet(CardPlaces(g))
<1> DEFINE A == DOMAIN g.context.scopes
           B == DOMAIN CardTypes
           C == 0..Len(g.cards)
           f == [p \in CardPlaces(g) |-> <<p[1], <<p[2], p[3]>>>>]
<1>1. IsFiniteSet(A) /\ IsFiniteSet(B) /\ IsFiniteSet(C)
  <2>1. g.context \in ContextSet /\ g.cards \in Seq(CardSet)
    BY FormIs
  <2>2. Len(g.cards) \in Int /\ 0 \in Int
    BY <2>1, PlacesOfSeq
  <2>3. IsFiniteSet(C)
    BY <2>2, FS_Interval
  <2> QED
    BY <2>1, <2>3, ScopesAre, KindsAre
<1>2. \A p \in CardPlaces(g) : p = <<p[1], p[2], p[3]>> /\ p[1] \in A /\ p[2] \in B /\ p[3] \in C
  BY PlacesKnown, GroupIs DEF Requested
<1> HIDE DEF A, B, C
<1>3. IsFiniteSet(B \X C)
  BY <1>1, FS_Product
<1>4. IsFiniteSet(A \X (B \X C))
  BY <1>1, <1>3, FS_Product
<1>5. f \in [CardPlaces(g) -> A \X (B \X C)]
  BY <1>2
<1>6. ASSUME NEW p \in CardPlaces(g), NEW q \in CardPlaces(g), f[p] = f[q]
      PROVE  p = q
  <2>1. p[1] = q[1] /\ p[2] = q[2] /\ p[3] = q[3]
    BY <1>6
  <2> QED
    BY <1>2, <2>1
<1>7. f \in Injection(CardPlaces(g), A \X (B \X C))
  BY <1>5, <1>6 DEF Injection, IsInjective
<1> HIDE DEF f
<1> QED
  BY <1>4, <1>7, FS_Injection

\* In the order of scopes, kinds and cards every place has its place.
LEMMA OrderIs ==
  ASSUME NEW g \in FormSet
  PROVE  Enumerates(InOrder(CardPlaces(g), [p \in CardPlaces(g) |-> p]), CardPlaces(g))
<1> DEFINE I == CardPlaces(g)
           key == [p \in I |-> p]
<1>1. \A p \in I : p = <<p[1], p[2], p[3]>> /\ p[1] \in Int /\ p[2] \in Int /\ p[3] \in Int
  <2>1. g.context \in ContextSet
    BY FormIs
  <2>2. \A i \in DOMAIN g.context.scopes : i \in Int
    BY <2>1, ScopesAre
  <2>3. \A t \in DOMAIN CardTypes : t \in Int
    BY KindsAre
  <2>4. \A i, t : \A k \in Group(g, i, t) : k \in Int
    BY GroupIs
  <2> QED
    BY <2>2, <2>3, <2>4, PlacesKnown DEF Requested
<1>2. \A p \in I : p \in Keys(3)
  <2> SUFFICES ASSUME NEW p \in I
               PROVE  p \in Keys(3)
    OBVIOUS
  <2>1. PICK a, b, c \in Int : p = <<a, b, c>>
    BY <1>1
  <2> QED
    BY <2>1 DEF Keys
<1> HIDE DEF I
<1>3. key \in [I -> Keys(3)] /\ \A p, q \in I : p # q => key[p] # key[q]
  BY <1>2
<1>4. IsFiniteSet(I) /\ 3 \in Nat
  BY PlacesFinite DEF I
<1> HIDE DEF key
<1>5. Enumerates(InOrder(I, key), I)
  BY <1>3, <1>4, InOrderIs
<1> QED
  BY <1>5 DEF I, key

\* A card at a place.
Placed(c, g, i, t, k) ==
  /\ c \in CardSet
  /\ c.type = CardTypes[t] /\ c.scope = g.context.scopes[i]
  /\ Len(c.fans) = 1 => c.mode = ""
  /\ c.id = IF k = 0 THEN 0 ELSE g.cards[k].id
  /\ HasContent(c) => k # 0 /\ HasContent(g.cards[k])

\* The card that comes to a place is of its scope and kind.
LEMMA CardAtIs ==
  ASSUME NEW g \in FormSet, NEW i \in DOMAIN g.context.scopes, NEW t, Requested(g, t),
         NEW k \in Group(g, i, t)
  PROVE  Placed(CardAt(g, i, t, k), g, i, t, k)
<1> DEFINE s == g.context.scopes[i]
           type == CardTypes[t]
           b == IF k = 0 THEN BlankCard(type, s, NoId) ELSE g.cards[k]
           c == NormalCard(b, s)
<1>1. s \in ScopeSet /\ type \in KindSet
  BY FormIs, ScopesAre, KindsAre DEF Requested
<1>2. CardAt(g, i, t, k) = c
  BY DEF CardAt
<1>3. /\ b \in CardSet /\ b.type = type /\ b.id = IF k = 0 THEN 0 ELSE g.cards[k].id
      /\ HasContent(b) => k # 0 /\ HasContent(g.cards[k])
  <2>1. CASE k = 0
    <3>1. NoId = 0 /\ NoId \in Nat
      BY DEF NoId
    <3>2. /\ Made(BlankCard(type, s, NoId), NoId, type, s, "", "", BlankFields(type), BlankFans(type))
          /\ ~HasContent(BlankCard(type, s, NoId))
      BY <1>1, <3>1, BlankCardIs
    <3>3. b = BlankCard(type, s, NoId)
      BY <2>1
    <3> HIDE DEF b
    <3> QED
      BY <2>1, <3>1, <3>2, <3>3 DEF Made
  <2>2. CASE k # 0
    <3>1. b = g.cards[k]
      BY <2>2
    <3> HIDE DEF b
    <3> QED
      BY <2>2, <3>1, GroupIs
  <2> QED
    BY <2>1, <2>2
<1> HIDE DEF b, s, type
<1>4. Made(c, b.id, b.type, s, NormalHex(b), NormalMode(b), NormalFields(b), b.fans)
  BY <1>1, <1>3, NormalCardIs
<1>5. HasContent(c) => HasContent(b)
  BY <1>1, <1>3, NormalCardContent
<1> HIDE DEF c
<1>6. /\ c \in CardSet /\ c.type = type /\ c.scope = s
      /\ Len(c.fans) = 1 => c.mode = ""
      /\ c.id = b.id
  BY <1>3, <1>4 DEF Made, NormalMode
<1> QED
  BY <1>2, <1>3, <1>5, <1>6 DEF Placed, s, type

-----------------------------------------------------------------------------
(* Normal forms.                                                           *)

\* The cards of a normal form, before they have their ids, by their places.
ArrangedBy(g, order) ==
  /\ Enumerates(order, CardPlaces(g))
  /\ Arranged(g) \in Seq(CardSet)
  /\ Len(Arranged(g)) = Cardinality(CardPlaces(g))
  /\ \A n \in DOMAIN Arranged(g) :
       /\ order[n] \in CardPlaces(g)
       /\ Arranged(g)[n] = CardAt(g, order[n][1], order[n][2], order[n][3])
       /\ Placed(Arranged(g)[n], g, order[n][1], order[n][2], order[n][3])

\* The cards of a normal form stand in some order, each place once.
LEMMA ArrangedIs ==
  ASSUME NEW g \in FormSet
  PROVE  \E order : ArrangedBy(g, order)
<1> DEFINE I == CardPlaces(g)
           order == InOrder(I, [p \in I |-> p])
           r == Arranged(g)
<1>1. Enumerates(order, I)
  BY OrderIs
<1>2. r = [n \in DOMAIN order |-> CardAt(g, order[n][1], order[n][2], order[n][3])]
  BY DEF Arranged
<1> HIDE DEF order, r, I
<1>3. DOMAIN order = 1..Cardinality(I) /\ Cardinality(I) \in Nat
      /\ \A n \in DOMAIN order : order[n] \in I
  BY <1>1 DEF Enumerates
<1>4. ASSUME NEW n \in DOMAIN order
      PROVE  /\ r[n] = CardAt(g, order[n][1], order[n][2], order[n][3])
             /\ Placed(r[n], g, order[n][1], order[n][2], order[n][3])
  <2>1. r[n] = CardAt(g, order[n][1], order[n][2], order[n][3])
    BY <1>2
  <2>2. order[n] \in CardPlaces(g)
    BY <1>3 DEF I
  <2>3. order[n][1] \in DOMAIN g.context.scopes /\ Requested(g, order[n][2])
        /\ order[n][3] \in Group(g, order[n][1], order[n][2])
    BY <2>2, PlacesKnown
  <2> QED
    BY <2>1, <2>3, CardAtIs
<1>5. \A n \in DOMAIN order : r[n] \in CardSet
  BY <1>4 DEF Placed
<1>6. r \in Seq(CardSet) /\ Len(r) = Cardinality(I)
  <2>1. r = [n \in 1..Cardinality(I) |-> r[n]]
    BY <1>2, <1>3
  <2> QED
    BY <1>3, <1>5, <2>1
<1>7. DOMAIN r = DOMAIN order
  BY <1>2
<1> QED
  BY <1>1, <1>3, <1>4, <1>6, <1>7 DEF ArrangedBy, I, r

\* Products in normal form.
LEMMA NormalProductsAre ==
  ASSUME NEW products \in Seq(ProductsSet), products # <<>>
  PROVE  /\ NormalProducts(products) \in Seq(ProductsSet) /\ NormalProducts(products) # <<>>
         /\ Len(NormalProducts(products)) = Len(products)
         /\ \A k \in DOMAIN products :
              /\ NormalProducts(products)[k].id = products[k].id
              /\ NormalProducts(products)[k].drawing = products[k].drawing
              /\ NormalProducts(products)[k].difference
                 = IF k = 1 THEN "" ELSE products[k].difference
<1> DEFINE r == NormalProducts(products)
           name(k) == IF products[k].custom THEN products[k].name ELSE products[k].drawing
           diff(k) == IF k = 1 THEN "" ELSE products[k].difference
<1>1. Len(products) \in Nat /\ DOMAIN products = 1..Len(products)
      /\ \A k \in DOMAIN products : products[k] \in ProductsSet
  BY PlacesOfSeq
<1>2. r = [k \in DOMAIN products |-> [products[k] EXCEPT !.name = name(k), !.difference = diff(k)]]
  BY DEF NormalProducts
<1>3. ASSUME NEW k \in DOMAIN products
      PROVE  /\ r[k] \in ProductsSet /\ r[k].id = products[k].id
             /\ r[k].drawing = products[k].drawing /\ r[k].difference = diff(k)
  <2> DEFINE p == products[k]
             v == name(k)
             w == diff(k)
  <2>1. p \in ProductsSet
    BY <1>1
  <2>2. v \in ValueSet /\ w \in ValueSet
    BY <2>1 DEF ProductsSet, ValueSet
  <2>3. r[k] = [p EXCEPT !.name = v, !.difference = w]
    BY <1>2
  <2> HIDE DEF p, v, w, r
  <2>4. /\ [p EXCEPT !.name = v, !.difference = w] \in ProductsSet
        /\ [p EXCEPT !.name = v, !.difference = w].drawing = p.drawing
        /\ [p EXCEPT !.name = v, !.difference = w].difference = w
        /\ [p EXCEPT !.name = v, !.difference = w].id = p.id
    BY ONLY <2>1, <2>2 DEF ProductsSet
  <2> QED
    BY <2>3, <2>4 DEF p, w
<1>4. DOMAIN r = DOMAIN products /\ r = [k \in DOMAIN products |-> r[k]]
  BY <1>2
<1> HIDE DEF r, name
<1>5. r \in Seq(ProductsSet) /\ Len(r) = Len(products)
  <2>1. r = [k \in 1..Len(products) |-> r[k]]
    BY <1>1, <1>4
  <2>2. \A k \in 1..Len(products) : r[k] \in ProductsSet
    BY <1>1, <1>3
  <2> QED
    BY <1>1, <2>1, <2>2
<1>6. r # <<>>
  BY <1>5
<1> QED
  BY <1>3, <1>5, <1>6 DEF r

\* What a normal form is.
CardKnown(g, c) ==
  /\ c.id # 0 /\ c.type \in g.context.types /\ c.scope \in Range(g.context.scopes)
  /\ Len(c.fans) = 1 => c.mode = ""
OneId(cards) ==
  \A j, k \in DOMAIN cards : cards[j].type = cards[k].type /\ cards[j].id = cards[k].id => j = k
EveryGroup(g) ==
  \A s \in Range(g.context.scopes), t \in g.context.types :
    \E k \in DOMAIN g.cards : g.cards[k].scope = s /\ g.cards[k].type = t
IsNormal(g) ==
  /\ g \in FormSet
  /\ g.products[1].difference = ""
  /\ \A k \in DOMAIN g.cards : CardKnown(g, g.cards[k])
  /\ OneId(g.cards)
  /\ EveryGroup(g)

\* The parts of a normal form.
NormalOf(h, g) ==
  /\ h \in FormSet
  /\ h.general = g.general /\ h.context = g.context /\ h.locked = g.locked
  /\ h.products = NormalProducts(g.products)
  /\ h.cards = Identified(Arranged(g))

\* What a normal form is made of.
LEMMA NormalParts ==
  ASSUME NEW g \in FormSet
  PROVE  NormalOf(Normal(g), g)
<1> DEFINE P == NormalProducts(g.products)
           C == Identified(Arranged(g))
<1>1. P \in Seq(ProductsSet) /\ P # <<>>
  BY FormIs, NormalProductsAre
<1>2. C \in Seq(CardSet)
  BY ArrangedIs, IdentifiedIs DEF ArrangedBy
<1>3. Normal(g) = [g EXCEPT !.products = P, !.cards = C]
  BY DEF Normal
<1> HIDE DEF P, C
<1>4. FormWith([g EXCEPT !.products = P, !.cards = C], g, P, C)
  BY <1>1, <1>2, FormWithBoth
<1> QED
  BY <1>3, <1>4 DEF NormalOf, FormWith, P, C

(***************************************************************************)
(* Whatever is written is brought to a normal form, and nothing filled in  *)
(* comes of nothing.                                                       *)
(***************************************************************************)
LEMMA NormalIs ==
  ASSUME NEW g \in FormSet
  PROVE  /\ IsNormal(Normal(g))
         /\ (\A k \in DOMAIN g.cards : ~HasContent(g.cards[k])) =>
              \A n \in DOMAIN Normal(g).cards : ~HasContent(Normal(g).cards[n])
<1> DEFINE h == Normal(g)
           a == Arranged(g)
           r == Identified(a)
<1>1. NormalOf(h, g)
  BY NormalParts
<1>2. PICK order : ArrangedBy(g, order)
  BY ArrangedIs
<1>3. a \in Seq(CardSet)
  BY <1>2 DEF ArrangedBy
<1>4. h.cards = r /\ h.context = g.context /\ h \in FormSet /\ h.products = NormalProducts(g.products)
  BY <1>1 DEF NormalOf
<1>5. r \in Seq(CardSet) /\ Len(r) = Len(a)
  BY <1>3, IdentifiedIs
<1>6. DOMAIN r = DOMAIN a /\ DOMAIN a = 1..Len(a) /\ Len(a) \in Nat
  BY <1>3, <1>5, PlacesOfSeq
<1>7. Len(a) = Cardinality(CardPlaces(g)) /\ Enumerates(order, CardPlaces(g))
  BY <1>2 DEF ArrangedBy
<1>8. ASSUME NEW n \in DOMAIN a
      PROVE  /\ r[n].id = NewId(a, n) /\ r[n].type = a[n].type
             /\ a[n].type = CardTypes[order[n][2]] /\ r[n].scope = g.context.scopes[order[n][1]]
             /\ order[n][1] \in DOMAIN g.context.scopes /\ Requested(g, order[n][2])
             /\ Len(r[n].fans) = 1 => r[n].mode = ""
             /\ HasContent(r[n]) => order[n][3] # 0 /\ HasContent(g.cards[order[n][3]])
             /\ order[n][3] \in Group(g, order[n][1], order[n][2])
  <2>1. Made(r[n], NewId(a, n), a[n].type, a[n].scope, a[n].hex, a[n].mode, a[n].fields, a[n].fans)
    BY <1>3, <1>8, IdentifiedIs
  <2>2. Placed(a[n], g, order[n][1], order[n][2], order[n][3]) /\ order[n] \in CardPlaces(g)
    BY <1>2, <1>8 DEF ArrangedBy
  <2>3. order[n][1] \in DOMAIN g.context.scopes /\ Requested(g, order[n][2])
        /\ order[n][3] \in Group(g, order[n][1], order[n][2])
    BY <2>2, PlacesKnown
  <2> HIDE DEF r, a
  <2>4. HasContent(r[n]) => HasContent(a[n])
    BY <2>1 DEF Made, HasContent
  <2> QED
    BY <2>1, <2>2, <2>3, <2>4 DEF Made, Placed
<1>9. \A k \in DOMAIN r : CardKnown(h, r[k])
  <2> SUFFICES ASSUME NEW k \in DOMAIN r
               PROVE  CardKnown(h, r[k])
    OBVIOUS
  <2>1. k \in DOMAIN a
    BY <1>6
  <2>2. NewId(a, k) # 0
    BY <1>3, <2>1, NewIdIs
  <2>3. r[k].scope \in Range(g.context.scopes)
    BY <1>8, <2>1, FormIs, ScopesAre
  <2> HIDE DEF h, r, a
  <2> QED
    BY <1>4, <1>8, <2>1, <2>2, <2>3 DEF CardKnown, Requested
<1>10. OneId(r)
  <2>1. \A j, k \in DOMAIN a : j < k /\ a[j].type = a[k].type => NewId(a, j) # NewId(a, k)
    BY <1>3, NewIdIs
  <2>2. \A j, k \in DOMAIN a : j < k /\ r[j].type = r[k].type => r[j].id # r[k].id
    <3>1. \A n \in DOMAIN a : r[n].id = NewId(a, n) /\ r[n].type = a[n].type
      BY <1>8
    <3> HIDE DEF r, a
    <3> QED
      BY <2>1, <3>1
  <2> HIDE DEF r, a
  <2>3. \A j, k \in DOMAIN r : j # k => j < k \/ k < j
    BY <1>6
  <2> QED
    BY <1>6, <2>2, <2>3 DEF OneId
<1>11. EveryGroup(h)
  <2> SUFFICES ASSUME NEW s \in Range(g.context.scopes), NEW type \in g.context.types
               PROVE  \E k \in DOMAIN r : r[k].scope = s /\ r[k].type = type
    <3> HIDE DEF h, r
    <3> QED
      BY <1>4 DEF EveryGroup
  <2>1. g.context \in ContextSet
    BY FormIs
  <2>2. PICK i \in DOMAIN g.context.scopes : s = g.context.scopes[i]
    BY <2>1, ScopesAre
  <2>3. PICK t \in DOMAIN CardTypes : CardTypes[t] = type
    BY <2>1, ContextIs, KindsAre
  <2>4. Requested(g, t)
    BY <2>3 DEF Requested
  <2>5. PICK k \in Group(g, i, t) : TRUE
    BY GroupIs
  <2>6. <<i, t, k>> \in CardPlaces(g)
    BY <2>4, <2>5, PlacesKnown
  <2>7. PICK n \in 1..Cardinality(CardPlaces(g)) : order[n] = <<i, t, k>>
    BY <1>7, <2>6 DEF Enumerates
  <2>8. n \in DOMAIN a /\ order[n][1] = i /\ order[n][2] = t
    BY <1>6, <1>7, <2>7
  <2> HIDE DEF a, r, h
  <2> QED
    BY <1>6, <1>8, <2>2, <2>3, <2>8, ZenonT(40)
<1>12. h.products[1].difference = ""
  <2>1. g.products \in Seq(ProductsSet) /\ g.products # <<>>
    BY FormIs
  <2>2. 1 \in DOMAIN g.products
    BY <2>1
  <2> QED
    BY <1>4, <2>1, <2>2, NormalProductsAre
<1>13. ASSUME \A k \in DOMAIN g.cards : ~HasContent(g.cards[k]), NEW n \in DOMAIN r
       PROVE  ~HasContent(r[n])
  <2>1. n \in DOMAIN a
    BY <1>6
  <2>2. order[n][3] # 0 => order[n][3] \in DOMAIN g.cards
    <3>1. order[n][3] \in Group(g, order[n][1], order[n][2])
      BY <1>8, <2>1
    <3>2. \A i, t : \A k \in Group(g, i, t) : k # 0 => k \in DOMAIN g.cards
      BY GroupIs
    <3> QED
      BY <3>1, <3>2
  <2> HIDE DEF r, a
  <2> QED
    BY <1>8, <1>13, <2>1, <2>2
<1> HIDE DEF r, a
<1>14. IsNormal(h)
  <2> HIDE DEF h
  <2> QED
    BY <1>4, <1>9, <1>10, <1>11, <1>12 DEF IsNormal
<1> QED
  BY <1>4, <1>13, <1>14

-----------------------------------------------------------------------------
(* What a normal form keeps.                                               *)

\* The cards of a kind are told apart, and are there for every scope.
Settled(g, type) ==
  /\ \A j, k \in DOMAIN g.cards :
       g.cards[j].type = type /\ g.cards[k].type = type /\ g.cards[j].id = g.cards[k].id => j = k
  /\ \A k \in DOMAIN g.cards : g.cards[k].type = type => g.cards[k].id # 0
  /\ \A s \in Range(g.context.scopes) :
       \E k \in DOMAIN g.cards : g.cards[k].type = type /\ g.cards[k].scope = s

\* A card of a requested scope belongs to it.
LEMMA ScopeOfOwn ==
  ASSUME NEW c, NEW scopes, c.scope \in Range(scopes)
  PROVE  ScopeOf(c, scopes) = c.scope
BY DEF ScopeOf

\* Then no place is blank.
LEMMA SettledPlaces ==
  ASSUME NEW g \in FormSet, NEW type, Settled(g, type),
         NEW p \in CardPlaces(g), CardTypes[p[2]] = type
  PROVE  p[3] # 0 /\ p[3] \in DOMAIN g.cards /\ g.cards[p[3]].type = type
         /\ g.cards[p[3]].id # 0
         /\ ScopeOf(g.cards[p[3]], g.context.scopes) = g.context.scopes[p[1]]
<1>1. p[1] \in DOMAIN g.context.scopes /\ p[3] \in Group(g, p[1], p[2])
  BY PlacesKnown
<1>2. g.context \in ContextSet /\ g.cards \in Seq(CardSet)
  BY FormIs
<1>3. g.context.scopes[p[1]] \in Range(g.context.scopes)
  BY <1>1, <1>2, ScopesAre
<1>4. PICK k \in DOMAIN g.cards :
        g.cards[k].type = type /\ g.cards[k].scope = g.context.scopes[p[1]]
  BY <1>3 DEF Settled
<1>5. ScopeOf(g.cards[k], g.context.scopes) = g.context.scopes[p[1]]
  BY <1>3, <1>4, ScopeOfOwn
<1>6. Group(g, p[1], p[2]) = OwnCards(g, p[1], p[2])
  BY <1>4, <1>5, GroupIs
<1>7. \A j \in OwnCards(g, p[1], p[2]) : j \in DOMAIN g.cards
  BY DEF OwnCards, OfType
<1>8. 0 \notin DOMAIN g.cards
  BY <1>2, PlacesOfSeq
<1>9. p[3] # 0
  BY <1>1, <1>6, <1>7, <1>8
<1>10. p[3] \in DOMAIN g.cards /\ g.cards[p[3]].type = CardTypes[p[2]]
       /\ ScopeOf(g.cards[p[3]], g.context.scopes) = g.context.scopes[p[1]]
  BY <1>1, <1>9, GroupIs
<1> QED
  BY <1>9, <1>10 DEF Settled

\* A card has a place.
LEMMA PlaceOfCard ==
  ASSUME NEW g \in FormSet, NEW k \in DOMAIN g.cards,
         g.cards[k].type \in g.context.types,
         g.cards[k].scope \in Range(g.context.scopes)
  PROVE  \E i \in DOMAIN g.context.scopes, t \in DOMAIN CardTypes :
           /\ <<i, t, k>> \in CardPlaces(g)
           /\ CardTypes[t] = g.cards[k].type
           /\ g.context.scopes[i] = g.cards[k].scope
<1> DEFINE c == g.cards[k]
<1>1. g.context \in ContextSet /\ g.cards \in Seq(CardSet)
  BY FormIs
<1>2. PICK i \in DOMAIN g.context.scopes : c.scope = g.context.scopes[i]
  BY <1>1, ScopesAre
<1>3. PICK t \in DOMAIN CardTypes : CardTypes[t] = c.type
  BY <1>1, ContextIs, KindsAre
<1>4. ScopeOf(c, g.context.scopes) = g.context.scopes[i]
  BY <1>2, ScopeOfOwn
<1>5. k \in OwnCards(g, i, t) /\ Group(g, i, t) = OwnCards(g, i, t)
  BY <1>3, <1>4, GroupIs
<1>6. Requested(g, t)
  BY <1>3 DEF Requested
<1>7. <<i, t, k>> \in CardPlaces(g)
  BY <1>5, <1>6, PlacesKnown
<1> QED
  BY <1>2, <1>3, <1>7

(***************************************************************************)
(* A card whose kind is settled is in the normal form as it is, normal.    *)
(***************************************************************************)
LEMMA CardKept ==
  ASSUME NEW g \in FormSet, NEW k \in DOMAIN g.cards,
         g.cards[k].type \in g.context.types,
         g.cards[k].scope \in Range(g.context.scopes),
         Settled(g, g.cards[k].type)
  PROVE  \E m \in DOMAIN Normal(g).cards :
           Normal(g).cards[m] = NormalCard(g.cards[k], g.cards[k].scope)
<1> DEFINE c == g.cards[k]
           kind == c.type
           a == Arranged(g)
           r == Identified(a)
<1>1. PICK i \in DOMAIN g.context.scopes, t \in DOMAIN CardTypes :
           /\ <<i, t, k>> \in CardPlaces(g)
           /\ CardTypes[t] = kind
           /\ g.context.scopes[i] = c.scope
  BY PlaceOfCard
<1>2. PICK order : ArrangedBy(g, order)
  BY ArrangedIs
<1>3. a \in Seq(CardSet) /\ Len(a) = Cardinality(CardPlaces(g)) /\ Enumerates(order, CardPlaces(g))
  BY <1>2 DEF ArrangedBy
<1>4. DOMAIN a = 1..Cardinality(CardPlaces(g)) /\ \A n \in DOMAIN a : a[n] \in CardSet /\ n \in Nat
  BY <1>3, PlacesOfSeq
<1>5. PICK n \in DOMAIN a : order[n] = <<i, t, k>>
  BY <1>1, <1>3, <1>4 DEF Enumerates
<1>6. \A m \in DOMAIN a : /\ order[m] \in CardPlaces(g)
                         /\ a[m] = CardAt(g, order[m][1], order[m][2], order[m][3])
                         /\ Placed(a[m], g, order[m][1], order[m][2], order[m][3])
  BY <1>2 DEF ArrangedBy
<1>7. g.cards \in Seq(CardSet) /\ \A j \in DOMAIN g.cards : g.cards[j] \in CardSet
  BY FormIs, PlacesOfSeq
<1>8. k # 0 /\ c.id # 0
  <2>1. k # 0
    BY <1>7, PlacesOfSeq
  <2> QED
    BY <2>1 DEF Settled
<1>9. a[n] = NormalCard(c, c.scope)
  <2>1. a[n] = CardAt(g, i, t, k)
    BY <1>5, <1>6
  <2> QED
    BY <1>1, <1>8, <2>1 DEF CardAt
<1>10. a[n].type = kind /\ a[n].id = c.id
  <2>1. order[n][2] = t /\ order[n][3] = k
    BY <1>5
  <2>2. Placed(a[n], g, order[n][1], order[n][2], order[n][3])
    BY <1>6
  <2> HIDE DEF a, c
  <2> QED
    BY <1>1, <1>8, <2>1, <2>2 DEF Placed, c
<1>11. Granted(a, n)
  <2> SUFFICES ASSUME NEW j \in 1..n - 1, j \in OfType(a, kind)
               PROVE  Wish(a[j]) # Wish(a[n])
    BY <1>10 DEF Granted
  <2>1. j \in DOMAIN a /\ a[j].type = kind
    BY DEF OfType
  <2>2. j # n
    BY <1>4
  <2> DEFINE p == order[j]
  <2>3. p \in CardPlaces(g) /\ Placed(a[j], g, p[1], p[2], p[3])
    BY <1>6, <2>1
  <2>4. CardTypes[p[2]] = kind
    BY <2>1, <2>3 DEF Placed
  <2>5. /\ p[3] # 0 /\ p[3] \in DOMAIN g.cards /\ g.cards[p[3]].type = kind
        /\ g.cards[p[3]].id # 0
        /\ ScopeOf(g.cards[p[3]], g.context.scopes) = g.context.scopes[p[1]]
    BY <2>3, <2>4, SettledPlaces
  <2>6. a[j].id = g.cards[p[3]].id
    BY <2>3, <2>5 DEF Placed
  <2>7. p[3] # k
    <3> SUFFICES ASSUME p[3] = k
                 PROVE  FALSE
      OBVIOUS
    <3>1. ScopeOf(c, g.context.scopes) = c.scope
      BY ScopeOfOwn
    <3>2. g.context.scopes[p[1]] = g.context.scopes[i]
      BY <1>1, <2>5, <3>1
    <3>3. p[1] \in DOMAIN g.context.scopes /\ p[2] \in DOMAIN CardTypes /\ p = <<p[1], p[2], p[3]>>
      BY <2>3, PlacesKnown DEF Requested
    <3>4. p[1] = i
      BY <3>2, <3>3, FormIs, ContextIs
    <3>5. p[2] = t
      BY <1>1, <2>4, <3>3, KindsAre
    <3>6. order[j] = order[n]
      BY <1>5, <3>3, <3>4, <3>5
    <3> QED
      BY <1>3, <1>4, <2>1, <2>2, <3>6 DEF Enumerates
  <2>8. g.cards[p[3]].id # c.id
    BY <2>5, <2>7 DEF Settled
  <2> HIDE DEF a, c, p
  <2> QED
    BY <1>8, <1>10, <2>5, <2>6, <2>8 DEF Wish, NoId
<1>12. NewId(a, n) = a[n].id
  <2> HIDE DEF a, c
  <2> QED
    BY <1>8, <1>10, <1>11 DEF NewId, Wish, NoId
<1>13. r[n] = a[n]
  BY <1>3, <1>12, IdentifiedIs
<1>14. DOMAIN r = DOMAIN a
  BY <1>3, IdentifiedIs, PlacesOfSeq
<1>15. Normal(g).cards = r
  BY NormalParts DEF NormalOf
<1>16. n \in DOMAIN r /\ r[n] = NormalCard(c, c.scope)
  BY <1>9, <1>13, <1>14
<1>17. \E m \in DOMAIN Normal(g).cards : Normal(g).cards[m] = NormalCard(c, c.scope)
  <2> HIDE DEF r, c
  <2> QED
    BY <1>15, <1>16
<1> QED
  BY <1>17

-----------------------------------------------------------------------------
(* Reading at a slot.                                                      *)

ProductAt(f, i) == SelectInSeq(f.products, LAMBDA q : q.id = i)
CardIndex(f, type, i) == SelectInSeq(f.cards, LAMBDA d : d.type = type /\ d.id = i)
FanAt(c, i) == SelectInSeq(c.fans, LAMBDA y : y.id = i)

\* A set of numbers that is not empty has a smallest one.
LEMMA MinIs ==
  ASSUME NEW T \in SUBSET Nat, T # {}
  PROVE  Min(T) \in T /\ \A x \in T : Min(T) <= x
<1>1. PICK x \in T : \A y \in T : x <= y
  BY LeastNumber
<1> QED
  BY <1>1 DEF Min

\* What is looked for is found if it is there.
LEMMA ProductFound ==
  ASSUME NEW f, NEW S, f.products \in Seq(S), NEW i,
         \E k \in DOMAIN f.products : f.products[k].id = i
  PROVE  ProductAt(f, i) \in DOMAIN f.products /\ f.products[ProductAt(f, i)].id = i
<1> DEFINE I == {k \in 1..Len(f.products) : f.products[k].id = i}
<1>1. ProductAt(f, i) = IF I # {} THEN Min(I) ELSE 0
  BY DEF ProductAt, SelectInSeq
<1>2. DOMAIN f.products = 1..Len(f.products)
  BY PlacesOfSeq
<1>3. I # {} /\ I \in SUBSET Nat
  BY <1>2
<1>4. Min(I) \in I
  <2> HIDE DEF I
  <2> QED
    BY <1>3, MinIs
<1> QED
  BY <1>1, <1>2, <1>3, <1>4

\* A card is found by its kind and id.
LEMMA CardFound ==
  ASSUME NEW f, NEW S, f.cards \in Seq(S), NEW type, NEW i,
         \E k \in DOMAIN f.cards : f.cards[k].type = type /\ f.cards[k].id = i
  PROVE  /\ CardIndex(f, type, i) \in DOMAIN f.cards
         /\ f.cards[CardIndex(f, type, i)].type = type
         /\ f.cards[CardIndex(f, type, i)].id = i
<1> DEFINE I == {k \in 1..Len(f.cards) : f.cards[k].type = type /\ f.cards[k].id = i}
<1>1. CardIndex(f, type, i) = IF I # {} THEN Min(I) ELSE 0
  BY DEF CardIndex, SelectInSeq
<1>2. DOMAIN f.cards = 1..Len(f.cards)
  BY PlacesOfSeq
<1>3. I # {} /\ I \in SUBSET Nat
  BY <1>2
<1>4. Min(I) \in I
  <2> HIDE DEF I
  <2> QED
    BY <1>3, MinIs
<1> QED
  BY <1>1, <1>2, <1>3, <1>4

\* A fan is found by its id.
LEMMA FanFound ==
  ASSUME NEW c, NEW S, c.fans \in Seq(S), NEW i,
         \E k \in DOMAIN c.fans : c.fans[k].id = i
  PROVE  FanAt(c, i) \in DOMAIN c.fans /\ c.fans[FanAt(c, i)].id = i
<1> DEFINE I == {k \in 1..Len(c.fans) : c.fans[k].id = i}
<1>1. FanAt(c, i) = IF I # {} THEN Min(I) ELSE 0
  BY DEF FanAt, SelectInSeq
<1>2. DOMAIN c.fans = 1..Len(c.fans)
  BY PlacesOfSeq
<1>3. I # {} /\ I \in SUBSET Nat
  BY <1>2
<1>4. Min(I) \in I
  <2> HIDE DEF I
  <2> QED
    BY <1>3, MinIs
<1> QED
  BY <1>1, <1>2, <1>3, <1>4

\* Where the ids are the same, what is looked for is at the same place.
LEMMA SameProductPlace ==
  ASSUME NEW f, NEW h, NEW i, Len(f.products) = Len(h.products),
         \A k \in 1..Len(f.products) : f.products[k].id = h.products[k].id
  PROVE  ProductAt(f, i) = ProductAt(h, i)
<1>1. {k \in 1..Len(f.products) : f.products[k].id = i}
      = {k \in 1..Len(h.products) : h.products[k].id = i}
  OBVIOUS
<1> QED
  BY <1>1 DEF ProductAt, SelectInSeq

\* Cards whose fans have the same ids have each of them at the same place.
LEMMA SameFanPlace ==
  ASSUME NEW c, NEW d, NEW i, Len(c.fans) = Len(d.fans),
         \A k \in 1..Len(c.fans) : c.fans[k].id = d.fans[k].id
  PROVE  FanAt(c, i) = FanAt(d, i)
<1>1. {k \in 1..Len(c.fans) : c.fans[k].id = i} = {k \in 1..Len(d.fans) : d.fans[k].id = i}
  OBVIOUS
<1> QED
  BY <1>1 DEF FanAt, SelectInSeq

\* What is read.
LEMMA ReadsGeneral ==
  ASSUME NEW f, NEW g
  PROVE  ReadAt(f, GeneralSlot(g)) = f.general[g]
<1>1. GeneralSlot(g).kind = "general" /\ GeneralSlot(g).field = g
  BY DEF GeneralSlot, Slot
<1> QED
  BY <1>1 DEF ReadAt

\* What is read at a slot of a product.
LEMMA ReadsProduct ==
  ASSUME NEW f, NEW p
  PROVE  /\ ReadAt(f, ProductSlot(p, "drawing")) = f.products[ProductAt(f, p.id)].drawing
         /\ ReadAt(f, ProductSlot(p, "difference")) = f.products[ProductAt(f, p.id)].difference
<1>1. \A u : LET s == ProductSlot(p, u) IN s.kind = "product" /\ s.field = u /\ s.id = p.id
  BY DEF ProductSlot, Slot
<1>2. ASSUME NEW u
      PROVE  ReadAt(f, ProductSlot(p, u)) =
               LET q == f.products[ProductAt(f, p.id)]
               IN  IF u = "drawing" THEN q.drawing
                   ELSE IF u = "difference" THEN q.difference ELSE q.name
  <2> DEFINE s == ProductSlot(p, u)
  <2>1. s.kind = "product" /\ s.field = u /\ s.id = p.id
    BY <1>1
  <2> HIDE DEF s
  <2>2. ReadAt(f, s) =
               LET q == f.products[SelectInSeq(f.products, LAMBDA w : w.id = s.id)]
               IN  IF s.field = "drawing" THEN q.drawing
                   ELSE IF s.field = "difference" THEN q.difference ELSE q.name
    BY <2>1 DEF ReadAt
  <2>3. SelectInSeq(f.products, LAMBDA w : w.id = s.id) = ProductAt(f, p.id)
    BY <2>1 DEF ProductAt, SelectInSeq
  <2> QED
    BY <2>1, <2>2, <2>3 DEF s
<1> QED
  BY <1>2

\* What is read at a slot of a card, or of one of its fans.
LEMMA ReadsCard ==
  ASSUME NEW f, NEW c, NEW s, s.kind \in {"card", "fan"}, s.type = c.type, s.id = c.id
  PROVE  ReadAt(f, s) =
           LET d == f.cards[CardIndex(f, c.type, c.id)]
           IN  IF s.kind = "card" THEN d.fields[s.field]
               ELSE LET x == d.fans[FanAt(d, s.fan)]
                    IN  IF s.field = "location" THEN x.location ELSE x.rpm
<1>1. ReadAt(f, s) =
        LET d == f.cards[SelectInSeq(f.cards, LAMBDA e : e.type = s.type /\ e.id = s.id)]
        IN  IF s.kind = "card" THEN d.fields[s.field]
            ELSE LET x == d.fans[SelectInSeq(d.fans, LAMBDA y : y.id = s.fan)]
                 IN  IF s.field = "location" THEN x.location ELSE x.rpm
  BY DEF ReadAt
<1>2. SelectInSeq(f.cards, LAMBDA e : e.type = s.type /\ e.id = s.id)
      = CardIndex(f, c.type, c.id)
  BY DEF CardIndex, SelectInSeq
<1>3. \A d : SelectInSeq(d.fans, LAMBDA y : y.id = s.fan) = FanAt(d, s.fan)
  BY DEF FanAt, SelectInSeq
<1> QED
  BY <1>1, <1>2, <1>3

\* What is read at a field of a card.
LEMMA ReadsField ==
  ASSUME NEW f, NEW c, NEW g
  PROVE  ReadAt(f, CardSlot(c, g)) = f.cards[CardIndex(f, c.type, c.id)].fields[g]
<1> DEFINE s == CardSlot(c, g)
<1>1. s.kind = "card" /\ s.type = c.type /\ s.id = c.id /\ s.field = g
  BY DEF CardSlot, Slot
<1> HIDE DEF s
<1>2. ReadAt(f, s) = f.cards[CardIndex(f, c.type, c.id)].fields[g]
  BY <1>1, ReadsCard
<1> QED
  BY <1>2 DEF s

\* What is read at a field of a fan.
LEMMA ReadsFan ==
  ASSUME NEW f, NEW c, NEW fan, NEW g
  PROVE  ReadAt(f, FanSlot(c, fan, g)) =
           LET d == f.cards[CardIndex(f, c.type, c.id)]
               x == d.fans[FanAt(d, fan.id)]
           IN  IF g = "location" THEN x.location ELSE x.rpm
<1> DEFINE s == FanSlot(c, fan, g)
<1>1. s.kind = "fan" /\ s.type = c.type /\ s.id = c.id /\ s.field = g /\ s.fan = fan.id
  BY DEF FanSlot, Slot
<1> HIDE DEF s
<1>2. ReadAt(f, s) =
        LET d == f.cards[CardIndex(f, c.type, c.id)]
            x == d.fans[FanAt(d, fan.id)]
        IN  IF g = "location" THEN x.location ELSE x.rpm
  BY <1>1, ReadsCard
<1> QED
  BY <1>2 DEF s

-----------------------------------------------------------------------------
(* What the page sends.                                                    *)

\* The speed shown for all fans.
LEMMA CommonSpeedIs ==
  ASSUME NEW fans \in Seq(FanSet), fans # <<>>
  PROVE  CommonSpeed(fans) \in ValueSet
<1>1. fans[1] \in FanSet
  BY PlacesOfSeq
<1>2. fans[1].rpm \in ValueSet /\ "" \in ValueSet
  BY <1>1 DEF FanSet, ValueSet
<1> QED
  BY <1>2 DEF CommonSpeed

SentFields(c) == IF c.scope # shown THEN c.fields ELSE CollectedFields(c)
Together(c)   == c.scope = shown /\ Len(c.fans) > 1 /\ c.mode = "common"
SentFans(c)   ==
  IF Together(c) THEN [k \in DOMAIN c.fans |-> [c.fans[k] EXCEPT !.rpm = CommonSpeed(c.fans)]]
  ELSE c.fans

\* The fans sent are those there are.
LEMMA SentFansAre ==
  ASSUME NEW c \in CardSet
  PROVE  /\ SentFans(c) \in Seq(FanSet)
         /\ Len(SentFans(c)) = Len(c.fans)
         /\ (SentFans(c) # <<>>) = (c.fans # <<>>)
         /\ \A k \in DOMAIN c.fans :
              /\ SentFans(c)[k].id = c.fans[k].id
              /\ SentFans(c)[k].location = c.fans[k].location
              /\ SentFans(c)[k].rpm = IF Together(c) THEN CommonSpeed(c.fans) ELSE c.fans[k].rpm
<1> DEFINE X == c.fans
           v == CommonSpeed(X)
           Y == [k \in DOMAIN X |-> [X[k] EXCEPT !.rpm = v]]
<1>1. X \in Seq(FanSet)
  BY CardIs DEF CardParts
<1>2. CASE ~Together(c)
  <2>1. SentFans(c) = X
    BY <1>2 DEF SentFans
  <2> HIDE DEF X
  <2> QED
    BY <1>1, <1>2, <2>1 DEF X
<1>3. CASE Together(c)
  <2>1. SentFans(c) = Y
    BY <1>3 DEF SentFans
  <2>2. DOMAIN X = 1..Len(X) /\ Len(X) \in Nat /\ Len(X) > 1 /\ \A k \in DOMAIN X : X[k] \in FanSet
    BY <1>1, <1>3, PlacesOfSeq DEF Together
  <2>3. v \in ValueSet
    <3> HIDE DEF X
    <3>1. X # <<>>
      BY <2>2
    <3> QED
      BY <1>1, <3>1, CommonSpeedIs
  <2>4. \A k \in DOMAIN X : /\ Y[k] \in FanSet /\ Y[k].id = X[k].id
                            /\ Y[k].location = X[k].location /\ Y[k].rpm = v
    <3> SUFFICES ASSUME NEW k \in DOMAIN X
                 PROVE  /\ Y[k] \in FanSet /\ Y[k].id = X[k].id
                        /\ Y[k].location = X[k].location /\ Y[k].rpm = v
      OBVIOUS
    <3> DEFINE x == X[k]
    <3>1. x \in FanSet /\ Y[k] = [x EXCEPT !.rpm = v]
      BY <2>2
    <3> HIDE DEF x, v, Y, X
    <3> QED
      BY <2>3, <3>1 DEF FanSet, x
  <2>5. Y = [k \in 1..Len(X) |-> Y[k]]
    BY <2>2
  <2> HIDE DEF Y, v, X
  <2>6. Y \in Seq(FanSet) /\ Len(Y) = Len(X)
    BY <2>2, <2>4, <2>5
  <2>7. Y # <<>> /\ X # <<>>
    BY <1>1, <2>2, <2>6
  <2> QED
    BY <1>3, <2>1, <2>4, <2>6, <2>7 DEF X, v
<1> QED
  BY <1>2, <1>3

\* The fields the page sends are fields of the card; an enabled one is sent as it is.
LEMMA SentFieldsAre ==
  ASSUME NEW c \in CardSet
  PROVE  /\ SentFields(c) \in FieldsSet(c.type)
         /\ \A f \in DOMAIN c.fields :
              c.scope # shown \/ Enabled(c, f) \/ ReadOnly(c, f) => SentFields(c)[f] = c.fields[f]
<1>1. c.fields \in FieldsSet(c.type)
  BY CardIs DEF CardParts
<1>2. CollectedFields(c) \in FieldsSet(c.type)
  BY <1>1 DEF CollectedFields, FieldsSet, ValueSet
<1>3. \A f \in DOMAIN c.fields : Enabled(c, f) \/ ReadOnly(c, f) =>
        CollectedFields(c)[f] = c.fields[f]
  BY DEF CollectedFields
<1> QED
  BY <1>1, <1>2, <1>3 DEF SentFields

\* What the page sends of a card keeps its id, kind, scope, exchanger and mode.
LEMMA CollectedCardIs ==
  ASSUME NEW c \in CardSet
  PROVE  Made(CollectedCard(c), c.id, c.type, c.scope, c.hex, c.mode, SentFields(c), SentFans(c))
<1> DEFINE F == SentFields(c)
           X == SentFans(c)
<1>1. CardParts(c.id, c.type, c.scope, c.hex, c.mode, c.fields, c.fans)
  BY CardIs
<1>2. /\ F \in FieldsSet(c.type) /\ X \in Seq(FanSet) /\ (X # <<>>) = (c.fans # <<>>)
  BY SentFieldsAre, SentFansAre
<1> HIDE DEF F, X
<1>3. CardParts(c.id, c.type, c.scope, c.hex, c.mode, F, X)
  BY <1>1, <1>2 DEF CardParts
<1>4. Made([c EXCEPT !.fields = F, !.fans = X], c.id, c.type, c.scope, c.hex, c.mode, F, X)
  BY <1>3, CardWithFieldsFans
<1>5. CASE c.scope # shown
  <2>1. CollectedCard(c) = c /\ F = c.fields /\ X = c.fans
    BY <1>5 DEF CollectedCard, SentFields, SentFans, Together, F, X
  <2> QED
    BY <2>1 DEF Made, F, X
<1>6. CASE c.scope = shown
  <2>1. F = CollectedFields(c)
    BY <1>6 DEF F, SentFields
  <2>2. X = IF Len(c.fans) > 1 /\ c.mode = "common"
            THEN [k \in DOMAIN c.fans |-> [c.fans[k] EXCEPT !.rpm = CommonSpeed(c.fans)]]
            ELSE c.fans
    BY <1>6 DEF X, SentFans, Together
  <2>3. CollectedCard(c) = [c EXCEPT !.fields = F, !.fans = X]
    BY <1>6, <2>1, <2>2 DEF CollectedCard, Mapped
  <2> QED
    BY <1>4, <2>3 DEF F, X
<1> QED
  BY <1>5, <1>6

\* Products as the page has them.
LEMMA CollectedProductsAre ==
  ASSUME NEW products \in Seq(ProductsSet), products # <<>>
  PROVE  /\ CollectedProducts(products) \in Seq(ProductsSet) /\ CollectedProducts(products) # <<>>
         /\ Len(CollectedProducts(products)) = Len(products)
         /\ \A k \in DOMAIN products :
              /\ CollectedProducts(products)[k].id = products[k].id
              /\ CollectedProducts(products)[k].drawing = products[k].drawing
              /\ k # 1 /\ products[k].difference # "" =>
                   CollectedProducts(products)[k].difference = products[k].difference
<1> DEFINE r == CollectedProducts(products)
           said(k) == IF k = 1 THEN "Base" ELSE Description(products[k])
           diff(k) == IF k = 1 THEN "" ELSE said(k)
<1>1. Len(products) \in Nat /\ DOMAIN products = 1..Len(products)
      /\ \A k \in DOMAIN products : products[k] \in ProductsSet
  BY PlacesOfSeq
<1>2. r = [k \in DOMAIN products |->
             [products[k] EXCEPT !.name = said(k), !.custom = TRUE, !.difference = diff(k)]]
  BY DEF CollectedProducts
<1>3. ASSUME NEW k \in DOMAIN products
      PROVE  /\ r[k] \in ProductsSet /\ r[k].id = products[k].id
             /\ r[k].drawing = products[k].drawing /\ r[k].difference = diff(k)
  <2> DEFINE p == products[k]
             v == said(k)
             w == diff(k)
  <2>1. p \in ProductsSet
    BY <1>1
  <2>2. v \in ValueSet /\ w \in ValueSet
    BY <2>1 DEF ProductsSet, ValueSet, Description
  <2>3. r[k] = [p EXCEPT !.name = v, !.custom = TRUE, !.difference = w]
    BY <1>2
  <2> HIDE DEF p, v, w, r
  <2>4. /\ [p EXCEPT !.name = v, !.custom = TRUE, !.difference = w] \in ProductsSet
        /\ [p EXCEPT !.name = v, !.custom = TRUE, !.difference = w].drawing = p.drawing
        /\ [p EXCEPT !.name = v, !.custom = TRUE, !.difference = w].difference = w
        /\ [p EXCEPT !.name = v, !.custom = TRUE, !.difference = w].id = p.id
    BY ONLY <2>1, <2>2 DEF ProductsSet
  <2> QED
    BY <2>3, <2>4 DEF p, w
<1>4. DOMAIN r = DOMAIN products /\ r = [k \in DOMAIN products |-> r[k]]
  BY <1>2
<1>5. \A k \in DOMAIN products :
        k # 1 /\ products[k].difference # "" => diff(k) = products[k].difference
  BY DEF Description
<1> HIDE DEF r, said, diff
<1>6. r \in Seq(ProductsSet) /\ Len(r) = Len(products)
  <2>1. r = [k \in 1..Len(products) |-> r[k]]
    BY <1>1, <1>4
  <2>2. \A k \in 1..Len(products) : r[k] \in ProductsSet
    BY <1>1, <1>3
  <2> QED
    BY <1>1, <2>1, <2>2
<1>7. r # <<>>
  BY <1>6
<1> QED
  BY <1>3, <1>5, <1>6, <1>7 DEF r

\* The form as the page has it.
CollectedParts(h) ==
  /\ h \in FormSet
  /\ h.general = form.general /\ h.context = form.context /\ h.locked = form.locked
  /\ h.products = CollectedProducts(form.products)
  /\ Len(h.cards) = Len(form.cards) /\ DOMAIN h.cards = DOMAIN form.cards
  /\ \A k \in DOMAIN form.cards : h.cards[k] = CollectedCard(form.cards[k])

\* What the page sends of the form, part by part.
LEMMA CollectedIs ==
  ASSUME form \in FormSet
  PROVE  CollectedParts(Collected)
<1> DEFINE P == CollectedProducts(form.products)
           C == [k \in DOMAIN form.cards |-> CollectedCard(form.cards[k])]
<1>1. form.cards \in Seq(CardSet) /\ form.products \in Seq(ProductsSet) /\ form.products # <<>>
  BY FormIs
<1>2. P \in Seq(ProductsSet) /\ P # <<>>
  BY <1>1, CollectedProductsAre
<1>3. DOMAIN form.cards = 1..Len(form.cards) /\ Len(form.cards) \in Nat
      /\ \A k \in DOMAIN form.cards : form.cards[k] \in CardSet
  BY <1>1, PlacesOfSeq
<1>4. \A k \in DOMAIN form.cards : CollectedCard(form.cards[k]) \in CardSet
  BY <1>3, CollectedCardIs DEF Made
<1>5. C \in Seq(CardSet) /\ Len(C) = Len(form.cards)
  BY <1>3, <1>4
<1>6. Collected = [form EXCEPT !.products = P, !.cards = C]
  BY DEF Collected, Mapped
<1>7. DOMAIN C = DOMAIN form.cards /\ \A k \in DOMAIN form.cards : C[k] = CollectedCard(form.cards[k])
  OBVIOUS
<1> HIDE DEF P, C
<1>8. FormWith([form EXCEPT !.products = P, !.cards = C], form, P, C)
  <2>1. form \in FormSet /\ P \in Seq(ProductsSet) /\ P # <<>> /\ C \in Seq(CardSet)
    BY <1>2, <1>5
  <2> QED
    BY ONLY <2>1, FormWithBoth
<1> QED
  BY <1>5, <1>6, <1>7, <1>8 DEF CollectedParts, FormWith, P

-----------------------------------------------------------------------------
(* A save that edits nothing.                                              *)

\* Cards with the same names of theirs, one by one.
SameCards(h, g) ==
  /\ h.context = g.context
  /\ DOMAIN h.cards = DOMAIN g.cards
  /\ \A k \in DOMAIN g.cards : /\ h.cards[k].id = g.cards[k].id
                               /\ h.cards[k].type = g.cards[k].type
                               /\ h.cards[k].scope = g.cards[k].scope

\* Cards that stay where a normal form has them are settled.
LEMMA SameCardsSettled ==
  ASSUME NEW g, IsNormal(g), NEW h, SameCards(h, g)
  PROVE  \A k \in DOMAIN g.cards :
           /\ h.cards[k].type \in h.context.types
           /\ h.cards[k].scope \in Range(h.context.scopes)
           /\ Settled(h, h.cards[k].type)
<1>1. \A k \in DOMAIN g.cards : CardKnown(g, g.cards[k])
  BY DEF IsNormal
<1>2. OneId(g.cards) /\ EveryGroup(g)
  BY DEF IsNormal
<1>3. ASSUME NEW k \in DOMAIN g.cards
      PROVE  /\ h.cards[k].type \in h.context.types
             /\ h.cards[k].scope \in Range(h.context.scopes)
             /\ Settled(h, h.cards[k].type)
  <2> DEFINE type == h.cards[k].type
  <2>1. type \in g.context.types /\ h.cards[k].scope \in Range(g.context.scopes)
        /\ h.context = g.context
    BY <1>1 DEF CardKnown, SameCards
  <2>2. \A i, j \in DOMAIN h.cards :
          h.cards[i].type = type /\ h.cards[j].type = type /\ h.cards[i].id = h.cards[j].id => i = j
    BY <1>2 DEF OneId, SameCards
  <2>3. \A j \in DOMAIN h.cards : h.cards[j].type = type => h.cards[j].id # 0
    BY <1>1 DEF CardKnown, SameCards
  <2>4. \A s \in Range(h.context.scopes) :
          \E j \in DOMAIN h.cards : h.cards[j].type = type /\ h.cards[j].scope = s
    <3>1. \A s \in Range(g.context.scopes) :
            \E j \in DOMAIN g.cards : g.cards[j].scope = s /\ g.cards[j].type = type
      BY <1>2, <2>1 DEF EveryGroup
    <3> QED
      BY <3>1 DEF SameCards
  <2>5. Settled(h, type)
    BY <2>2, <2>3, <2>4 DEF Settled
  <2> QED
    BY <2>1, <2>5
<1> QED
  BY <1>3

\* The page sends every card in its place.
LEMMA CollectedSame ==
  ASSUME IsNormal(form)
  PROVE  CollectedParts(Collected) /\ Collected \in FormSet /\ SameCards(Collected, form)
<1>1. form \in FormSet
  BY DEF IsNormal
<1>2. CollectedParts(Collected)
  BY <1>1, CollectedIs
<1>3. \A k \in DOMAIN form.cards :
        Made(CollectedCard(form.cards[k]), form.cards[k].id, form.cards[k].type,
             form.cards[k].scope, form.cards[k].hex, form.cards[k].mode,
             SentFields(form.cards[k]), SentFans(form.cards[k]))
  BY <1>1, FormIs, PlacesOfSeq, CollectedCardIs
<1> QED
  BY <1>2, <1>3 DEF CollectedParts, SameCards, Made

\* The card of a slot, in the form and in what is saved of it.
SavedOf(saved, k) ==
  LET c == form.cards[k]
      d == saved.cards[CardIndex(saved, c.type, c.id)]
  IN  /\ CardIndex(form, c.type, c.id) = k
      /\ d.fields = NormalFields(CollectedCard(c))
      /\ d.fans = SentFans(c)

\* What a save that edits nothing leaves of a card.
LEMMA SavedCard ==
  ASSUME IsNormal(form), NEW k \in DOMAIN form.cards
  PROVE  SavedOf(Resaved, k)
<1> DEFINE g == Collected
           h == Resaved
           c == form.cards[k]
           e == CollectedCard(c)
<1>1. CollectedParts(g) /\ g \in FormSet /\ SameCards(g, form) /\ h = Normal(g)
  BY CollectedSame DEF Resaved
<1>2. k \in DOMAIN g.cards /\ g.cards[k] = e
  BY <1>1 DEF CollectedParts
<1>3. c \in CardSet
  BY FormIs, PlacesOfSeq DEF IsNormal
<1>4. Made(e, c.id, c.type, c.scope, c.hex, c.mode, SentFields(c), SentFans(c))
  BY <1>3, CollectedCardIs
<1>5. g.cards[k].type \in g.context.types /\ g.cards[k].scope \in Range(g.context.scopes)
      /\ Settled(g, g.cards[k].type)
  <2> HIDE DEF g, c
  <2> QED
    BY <1>1, SameCardsSettled
<1>6. PICK n \in DOMAIN h.cards : h.cards[n] = NormalCard(e, e.scope)
  <2>1. \E m \in DOMAIN Normal(g).cards : Normal(g).cards[m] = NormalCard(g.cards[k], g.cards[k].scope)
    <3> HIDE DEF g
    <3> QED
      BY ONLY <1>1, <1>2, <1>5, CardKept
  <2> QED
    BY <1>1, <1>2, <2>1
<1>7. e \in CardSet /\ e.scope \in ScopeSet
  BY <1>4, CardIs DEF Made, CardParts
<1>8. Made(h.cards[n], e.id, e.type, e.scope, NormalHex(e), NormalMode(e), NormalFields(e), e.fans)
  BY <1>6, <1>7, NormalCardIs
<1>9. IsNormal(h)
  BY <1>1, NormalIs
<1>10. h.cards[n].type = c.type /\ h.cards[n].id = c.id
       /\ h.cards[n].fields = NormalFields(e) /\ h.cards[n].fans = SentFans(c)
  <2> HIDE DEF h, e, c
  <2> QED
    BY <1>4, <1>8 DEF Made
<1> HIDE DEF h, e, g
<1>11. CardIndex(h, c.type, c.id) = n
  <2> DEFINE j == CardIndex(h, c.type, c.id)
  <2>1. h.cards \in Seq(CardSet)
    BY <1>9, FormIs DEF IsNormal
  <2>2. j \in DOMAIN h.cards /\ h.cards[j].type = c.type /\ h.cards[j].id = c.id
    BY <1>10, <2>1, CardFound
  <2> HIDE DEF j
  <2> QED
    BY <1>9, <1>10, <2>2 DEF IsNormal, OneId, j
<1>12. CardIndex(form, c.type, c.id) = k
  <2> DEFINE j == CardIndex(form, c.type, c.id)
  <2>1. form.cards \in Seq(CardSet)
    BY FormIs DEF IsNormal
  <2>2. j \in DOMAIN form.cards /\ form.cards[j].type = c.type /\ form.cards[j].id = c.id
    BY <2>1, CardFound
  <2> HIDE DEF j
  <2> QED
    BY <2>2 DEF IsNormal, OneId, j
<1> QED
  BY <1>10, <1>11, <1>12 DEF SavedOf, h, e

\* A field of a card that is not the one a kind of exchanger fixes.
LEMMA SavedField ==
  ASSUME IsNormal(form), NEW k \in DOMAIN form.cards, NEW f \in DOMAIN form.cards[k].fields,
         ~ReadOnly(form.cards[k], f),
         form.cards[k].scope # shown \/ Enabled(form.cards[k], f)
  PROVE  NormalFields(CollectedCard(form.cards[k]))[f] = form.cards[k].fields[f]
<1> DEFINE c == form.cards[k]
           e == CollectedCard(c)
<1>1. c \in CardSet
  BY FormIs, PlacesOfSeq DEF IsNormal
<1>2. Made(e, c.id, c.type, c.scope, c.hex, c.mode, SentFields(c), SentFans(c))
  BY <1>1, CollectedCardIs
<1>3. SentFields(c)[f] = c.fields[f] /\ SentFields(c) \in FieldsSet(c.type)
  BY <1>1, SentFieldsAre
<1>4. DOMAIN c.fields = DOMAIN SentFields(c)
  BY <1>1, <1>3, CardIs DEF CardParts, FieldsSet
<1>5. ~(NormalHex(c) = MicroChannel /\ f = "fin")
  <2>1. NormalHex(c) = MicroChannel => c.hex = MicroChannel
    BY DEF NormalHex, MicroChannel, FinAndTube
  <2> QED
    BY <2>1 DEF ReadOnly
<1> HIDE DEF e, c
<1>6. e.fields = SentFields(c) /\ NormalHex(e) = NormalHex(c)
  BY <1>2 DEF Made, NormalHex
<1>7. f \in DOMAIN e.fields
  BY <1>4, <1>6 DEF c
<1> QED
  BY <1>3, <1>5, <1>6, <1>7 DEF NormalFields, e, c

\* Fans that are to have one speed and do have it are shown with it.
LEMMA SavedFan ==
  ASSUME NEW c \in CardSet, NEW j \in DOMAIN c.fans, ~(Together(c) /\ ~FansGiven(c))
  PROVE  SentFans(c)[j].rpm = c.fans[j].rpm
<1> DEFINE X == c.fans
           speeds == {X[i].rpm : i \in DOMAIN X}
           w == [i \in DOMAIN X |-> X[i].rpm]
<1>1. X \in Seq(FanSet)
  BY CardIs DEF CardParts
<1>2. SentFans(c)[j].rpm = IF Together(c) THEN CommonSpeed(X) ELSE X[j].rpm
  BY SentFansAre
<1>3. CASE Together(c)
  <2>1. FansGiven(c) /\ Len(X) > 1 /\ c.mode = "common"
    BY <1>3 DEF Together
  <2>2. Cardinality(speeds) = 1
    BY <2>1 DEF FansGiven
  <2>3. IsFiniteSet(speeds)
    <3>1. w \in Surjection(DOMAIN X, speeds)
      BY DEF Surjection
    <3>2. IsFiniteSet(DOMAIN X)
      BY <1>1, PlacesOfSeq
    <3> HIDE DEF w, speeds, X
    <3> QED
      BY <3>1, <3>2, FS_Surjection
  <2>4. PICK v : speeds = {v}
    <3> HIDE DEF speeds
    <3> QED
      BY <2>2, <2>3, FS_Singleton
  <2>5. \A i \in DOMAIN X : X[i].rpm = v
    BY <2>4
  <2>6. 1 \in DOMAIN X
    BY <1>1, <2>1
  <2>7. CommonSpeed(X) = v
    <3> HIDE DEF X
    <3> QED
      BY <2>5, <2>6 DEF CommonSpeed
  <2> QED
    BY <1>2, <1>3, <2>5, <2>7
<1>4. CASE ~Together(c)
  BY <1>2, <1>4
<1> QED
  BY <1>3, <1>4

\* The places that take a value, kind by kind.
LEMMA SlotIs ==
  ASSUME NEW slot \in SlotsOf(form)
  PROVE  \/ \E f \in Range(General) : slot = GeneralSlot(f)
         \/ \E k \in DOMAIN form.products, f \in {"drawing", "name"} :
              slot = ProductSlot(form.products[k], f)
         \/ \E k \in 2..Len(form.products) : slot = ProductSlot(form.products[k], "difference")
         \/ \E k \in DOMAIN form.cards : form.locked /\
              \E f \in Range(FieldsOf[form.cards[k].type]) :
                ~ReadOnly(form.cards[k], f) /\ slot = CardSlot(form.cards[k], f)
         \/ \E k \in DOMAIN form.cards : form.locked /\
              \E j \in DOMAIN form.cards[k].fans, f \in {"location", "rpm"} :
                slot = FanSlot(form.cards[k], form.cards[k].fans[j], f)
<1> DEFINE cs == {d \in Range(form.cards) : form.locked}
           fields(c) == {CardSlot(c, f) : f \in {g \in Range(FieldsOf[c.type]) : ~ReadOnly(c, g)}}
           fans(c) == {FanSlot(c, fan, f) : fan \in Range(c.fans), f \in {"location", "rpm"}}
           G == {GeneralSlot(f) : f \in Range(General)}
           P == {ProductSlot(form.products[k], f) :
                   k \in DOMAIN form.products, f \in {"drawing", "name"}}
           D == {ProductSlot(form.products[k], "difference") : k \in 2 .. Len(form.products)}
           C == UNION {fields(c) : c \in cs}
           F == UNION {fans(c) : c \in cs}
<1>1. SlotsOf(form) = G \union P \union D \union C \union F
  BY DEF SlotsOf
<1>2. \A c \in cs : form.locked /\ \E k \in DOMAIN form.cards : c = form.cards[k]
  BY DEF Range
<1>3. slot \in G \/ slot \in P \/ slot \in D \/ slot \in C \/ slot \in F
  <2> HIDE DEF G, P, D, C, F
  <2> QED
    BY <1>1
<1>4. CASE slot \in G
  BY <1>4
<1>5. CASE slot \in P
  BY <1>5
<1>6. CASE slot \in D
  BY <1>6
<1>7. CASE slot \in C
  <2>1. PICK c \in cs : slot \in fields(c)
    BY <1>7
  <2>2. PICK k \in DOMAIN form.cards : c = form.cards[k] /\ form.locked
    BY <1>2
  <2>3. \E f \in Range(FieldsOf[c.type]) : ~ReadOnly(c, f) /\ slot = CardSlot(c, f)
    BY <2>1
  <2> QED
    BY <2>2, <2>3
<1>8. CASE slot \in F
  <2>1. PICK c \in cs : slot \in fans(c)
    BY <1>8
  <2>2. PICK k \in DOMAIN form.cards : c = form.cards[k] /\ form.locked
    BY <1>2
  <2>3. PICK fan \in Range(c.fans), f \in {"location", "rpm"} : slot = FanSlot(c, fan, f)
    BY <2>1
  <2>4. PICK j \in DOMAIN c.fans : fan = c.fans[j]
    BY DEF Range
  <2>5. j \in DOMAIN form.cards[k].fans /\ fan = form.cards[k].fans[j]
    BY <2>2, <2>4
  <2> QED
    BY <2>2, <2>3, <2>5
<1> QED
  BY <1>3, <1>4, <1>5, <1>6, <1>7, <1>8

\* A product is read where it was.
LEMMA SavedProduct ==
  ASSUME IsNormal(form), NEW k \in DOMAIN form.products
  PROVE  LET p == form.products[k] IN
         /\ ReadAt(Resaved, ProductSlot(p, "drawing")) = ReadAt(form, ProductSlot(p, "drawing"))
         /\ ReadAt(form, ProductSlot(p, "difference")) # "" =>
              ReadAt(Resaved, ProductSlot(p, "difference")) = ReadAt(form, ProductSlot(p, "difference"))
<1> DEFINE g == Collected
           h == Resaved
           p == form.products[k]
           j == ProductAt(form, p.id)
<1>1. CollectedParts(g) /\ g \in FormSet /\ h = Normal(g)
  BY CollectedSame DEF Resaved
<1>2. NormalOf(h, g)
  BY <1>1, NormalParts
<1>3. form \in FormSet /\ form.products[1].difference = ""
  BY DEF IsNormal
<1>4. form.products \in Seq(ProductsSet) /\ form.products # <<>>
      /\ g.products \in Seq(ProductsSet) /\ g.products # <<>>
  BY <1>1, <1>3, FormIs
<1>5. g.products = CollectedProducts(form.products) /\ h.products = NormalProducts(g.products)
  BY <1>1, <1>2 DEF CollectedParts, NormalOf
<1>6. /\ Len(g.products) = Len(form.products)
      /\ \A i \in DOMAIN form.products :
           /\ g.products[i].id = form.products[i].id
           /\ g.products[i].drawing = form.products[i].drawing
           /\ i # 1 /\ form.products[i].difference # "" =>
                g.products[i].difference = form.products[i].difference
  <2> DEFINE q == form.products
  <2>1. q \in Seq(ProductsSet) /\ q # <<>> /\ g.products = CollectedProducts(q)
    BY <1>4, <1>5
  <2> HIDE DEF q
  <2>2. /\ Len(CollectedProducts(q)) = Len(q)
        /\ \A i \in DOMAIN q :
           /\ CollectedProducts(q)[i].id = q[i].id
           /\ CollectedProducts(q)[i].drawing = q[i].drawing
           /\ i # 1 /\ q[i].difference # "" => CollectedProducts(q)[i].difference = q[i].difference
    BY ONLY <2>1, CollectedProductsAre
  <2> HIDE DEF g
  <2> QED
    BY <2>1, <2>2 DEF q
<1>7. /\ Len(h.products) = Len(g.products)
      /\ \A i \in DOMAIN g.products :
           /\ h.products[i].id = g.products[i].id
           /\ h.products[i].drawing = g.products[i].drawing
           /\ h.products[i].difference = IF i = 1 THEN "" ELSE g.products[i].difference
  <2> DEFINE q == g.products
  <2>1. q \in Seq(ProductsSet) /\ q # <<>> /\ h.products = NormalProducts(q)
    BY <1>4, <1>5
  <2> HIDE DEF q
  <2>2. /\ Len(NormalProducts(q)) = Len(q)
        /\ \A i \in DOMAIN q :
           /\ NormalProducts(q)[i].id = q[i].id
           /\ NormalProducts(q)[i].drawing = q[i].drawing
           /\ NormalProducts(q)[i].difference = IF i = 1 THEN "" ELSE q[i].difference
    BY ONLY <2>1, NormalProductsAre
  <2> HIDE DEF g, h
  <2> QED
    BY <2>1, <2>2 DEF q
<1> HIDE DEF g, h
<1>8. DOMAIN form.products = 1..Len(form.products) /\ DOMAIN g.products = 1..Len(form.products)
  <2>1. DOMAIN form.products = 1..Len(form.products) /\ DOMAIN g.products = 1..Len(g.products)
    BY <1>4, PlacesOfSeq
  <2> QED
    BY <1>6, <2>1
<1>9. /\ Len(form.products) = Len(h.products)
      /\ \A i \in 1..Len(form.products) :
           /\ form.products[i].id = h.products[i].id
           /\ form.products[i].drawing = h.products[i].drawing
           /\ i # 1 /\ form.products[i].difference # "" =>
                h.products[i].difference = form.products[i].difference
  BY <1>6, <1>7, <1>8
<1>10. ProductAt(h, p.id) = j
  <2>1. /\ Len(form.products) = Len(h.products)
        /\ \A i \in 1..Len(form.products) : form.products[i].id = h.products[i].id
    BY <1>9
  <2> HIDE DEF p
  <2> QED
    BY ONLY <2>1, SameProductPlace
<1>11. j \in DOMAIN form.products
  BY <1>4, ProductFound
<1>12. /\ ReadAt(form, ProductSlot(p, "drawing")) = form.products[j].drawing
       /\ ReadAt(form, ProductSlot(p, "difference")) = form.products[j].difference
       /\ ReadAt(h, ProductSlot(p, "drawing")) = h.products[j].drawing
       /\ ReadAt(h, ProductSlot(p, "difference")) = h.products[j].difference
  BY <1>10, ReadsProduct
<1> HIDE DEF p, j
<1>13. form.products[j].difference # "" => h.products[j].difference = form.products[j].difference
  BY <1>3, <1>8, <1>9, <1>11
<1>14. h.products[j].drawing = form.products[j].drawing
  BY <1>8, <1>9, <1>11
<1> QED
  BY <1>12, <1>13, <1>14 DEF p, h

(***************************************************************************)
(* In a form of normal form a save that edits nothing takes nothing away   *)
(* but what the page cannot show.                                          *)
(***************************************************************************)
LEMMA SaveIs ==
  ASSUME IsNormal(form)
  PROVE  SaveTakesNothingAway
<1> DEFINE h == Resaved
<1> SUFFICES ASSUME NEW slot \in SlotsOf(form),
                    slot.field # "name", ReadAt(form, slot) \notin {"", ReadAt(h, slot)}
             PROVE  \E c \in Range(form.cards) :
                      /\ c.type = slot.type /\ c.id = slot.id /\ c.scope = shown
                      /\ \/ slot.field = "rpm" /\ c.mode = "common" /\ ~FansGiven(c)
                         \/ slot.kind = "card" /\ ~Enabled(c, slot.field)
  BY DEF SaveTakesNothingAway
<1>1. CollectedParts(Collected) /\ Collected \in FormSet /\ h = Normal(Collected)
  BY CollectedSame DEF Resaved
<1>2. h.general = form.general
  <2>1. NormalOf(h, Collected)
    BY <1>1, NormalParts
  <2> QED
    BY <1>1, <2>1 DEF NormalOf, CollectedParts
<1>3. ASSUME NEW f \in Range(General), slot = GeneralSlot(f)
      PROVE  FALSE
  <2>1. ReadAt(form, slot) = form.general[f] /\ ReadAt(h, slot) = h.general[f]
    BY <1>3, ReadsGeneral
  <2> HIDE DEF h
  <2> QED
    BY <1>2, <2>1
<1>4. ASSUME NEW k \in DOMAIN form.products, NEW f \in {"drawing", "name", "difference"},
             slot = ProductSlot(form.products[k], f)
      PROVE  FALSE
  <2> DEFINE p == form.products[k]
  <2>1. slot.field = f
    BY <1>4 DEF ProductSlot, Slot
  <2>2. f \in {"drawing", "difference"}
    BY <2>1
  <2>3. /\ ReadAt(h, ProductSlot(p, "drawing")) = ReadAt(form, ProductSlot(p, "drawing"))
        /\ ReadAt(form, ProductSlot(p, "difference")) # "" =>
              ReadAt(h, ProductSlot(p, "difference")) = ReadAt(form, ProductSlot(p, "difference"))
    BY SavedProduct
  <2> HIDE DEF h, p
  <2> QED
    BY <1>4, <2>2, <2>3 DEF p
<1>5. ASSUME NEW k \in DOMAIN form.cards, NEW f \in Range(FieldsOf[form.cards[k].type]),
             ~ReadOnly(form.cards[k], f), slot = CardSlot(form.cards[k], f)
      PROVE  form.cards[k].scope = shown /\ ~Enabled(form.cards[k], f)
             /\ slot.type = form.cards[k].type /\ slot.id = form.cards[k].id
             /\ slot.kind = "card" /\ slot.field = f
  <2> DEFINE c == form.cards[k]
  <2>1. c \in CardSet
    BY FormIs, PlacesOfSeq DEF IsNormal
  <2>2. f \in DOMAIN c.fields
    BY <2>1, CardIs DEF CardParts, FieldsSet
  <2>3. SavedOf(h, k)
    BY SavedCard
  <2>4. ReadAt(form, slot) = form.cards[CardIndex(form, c.type, c.id)].fields[f]
        /\ ReadAt(h, slot) = h.cards[CardIndex(h, c.type, c.id)].fields[f]
    <3>1. slot = CardSlot(c, f)
      BY <1>5
    <3> HIDE DEF c, h
    <3>2. ReadAt(form, CardSlot(c, f)) = form.cards[CardIndex(form, c.type, c.id)].fields[f]
      BY ONLY ReadsField, ZenonT(40)
    <3>3. ReadAt(h, CardSlot(c, f)) = h.cards[CardIndex(h, c.type, c.id)].fields[f]
      BY ONLY ReadsField, ZenonT(40)
    <3> QED
      BY <3>1, <3>2, <3>3
  <2>5. ReadAt(form, slot) = c.fields[f] /\ ReadAt(h, slot) = NormalFields(CollectedCard(c))[f]
    <3> HIDE DEF h
    <3> QED
      BY <2>3, <2>4 DEF SavedOf
  <2>6. c.scope # shown \/ Enabled(c, f) => NormalFields(CollectedCard(c))[f] = c.fields[f]
    BY <1>5, <2>2, SavedField
  <2>7. /\ slot.type = c.type /\ slot.id = c.id /\ slot.kind = "card" /\ slot.field = f
    BY <1>5 DEF CardSlot, Slot
  <2> HIDE DEF h, c
  <2> QED
    BY <2>5, <2>6, <2>7 DEF c
<1>6. ASSUME NEW k \in DOMAIN form.cards, NEW j \in DOMAIN form.cards[k].fans,
             NEW f \in {"location", "rpm"},
             slot = FanSlot(form.cards[k], form.cards[k].fans[j], f)
      PROVE  form.cards[k].scope = shown /\ form.cards[k].mode = "common"
             /\ ~FansGiven(form.cards[k])
             /\ slot.type = form.cards[k].type /\ slot.id = form.cards[k].id
             /\ slot.field = "rpm"
  <2> DEFINE c == form.cards[k]
             fan == c.fans[j]
             d == h.cards[CardIndex(h, c.type, c.id)]
             i == FanAt(c, fan.id)
  <2>1. c \in CardSet /\ c.fans \in Seq(FanSet)
    BY FormIs, PlacesOfSeq, CardIs DEF IsNormal, CardParts
  <2>2. CardIndex(form, c.type, c.id) = k /\ d.fans = SentFans(c)
    <3>1. SavedOf(h, k)
      BY SavedCard
    <3> HIDE DEF h
    <3> QED
      BY <3>1 DEF SavedOf
  <2>3. /\ Len(SentFans(c)) = Len(c.fans)
        /\ \A n \in DOMAIN c.fans : SentFans(c)[n].id = c.fans[n].id
                                   /\ SentFans(c)[n].location = c.fans[n].location
    BY <2>1, SentFansAre
  <2>4. DOMAIN c.fans = 1..Len(c.fans)
    BY <2>1, PlacesOfSeq
  <2>5. i \in DOMAIN c.fans
    BY <2>1, FanFound
  <2>6. FanAt(d, fan.id) = i
    <3> HIDE DEF d, fan, c
    <3>1. Len(c.fans) = Len(d.fans)
          /\ \A n \in 1..Len(c.fans) : c.fans[n].id = d.fans[n].id
      BY <2>2, <2>3, <2>4
    <3>2. FanAt(c, fan.id) = FanAt(d, fan.id)
      BY ONLY <3>1, SameFanPlace
    <3> QED
      BY <3>2
  <2>7. ReadAt(form, slot) = IF f = "location" THEN c.fans[i].location ELSE c.fans[i].rpm
    <3>1. ReadAt(form, slot) =
            LET e == form.cards[CardIndex(form, c.type, c.id)]
                x == e.fans[FanAt(e, fan.id)]
            IN  IF f = "location" THEN x.location ELSE x.rpm
      BY <1>6, ReadsFan, ZenonT(40)
    <3> QED
      BY <2>2, <3>1
  <2>8. ReadAt(h, slot) = IF f = "location" THEN SentFans(c)[i].location ELSE SentFans(c)[i].rpm
    <3>1. ReadAt(h, slot) =
            LET e == h.cards[CardIndex(h, c.type, c.id)]
                x == e.fans[FanAt(e, fan.id)]
            IN  IF f = "location" THEN x.location ELSE x.rpm
      BY <1>6, ReadsFan, ZenonT(40)
    <3>2. ReadAt(h, slot) = IF f = "location" THEN d.fans[FanAt(d, fan.id)].location
                            ELSE d.fans[FanAt(d, fan.id)].rpm
      BY <3>1
    <3> HIDE DEF d, i
    <3> QED
      BY <2>2, <2>6, <3>2
  <2>9. ~(Together(c) /\ ~FansGiven(c)) => SentFans(c)[i].rpm = c.fans[i].rpm
    BY <2>1, <2>5, SavedFan
  <2>10. /\ slot.type = c.type /\ slot.id = c.id /\ slot.field = f
    BY <1>6 DEF FanSlot, Slot
  <2> HIDE DEF h, i, d, fan
  <2>11. f = "rpm" /\ Together(c) /\ ~FansGiven(c)
    <3> HIDE DEF c
    <3> QED
      BY <2>3, <2>5, <2>7, <2>8, <2>9
  <2> QED
    BY <2>10, <2>11 DEF Together
<1>7. \A k \in DOMAIN form.cards : form.cards[k] \in Range(form.cards)
  BY DEF Range
<1> HIDE DEF h
<1>8. CASE \E f \in Range(General) : slot = GeneralSlot(f)
  BY <1>3, <1>8
<1>9. CASE \E k \in DOMAIN form.products, f \in {"drawing", "name"} :
              slot = ProductSlot(form.products[k], f)
  BY <1>4, <1>9
<1>10. CASE \E k \in 2..Len(form.products) : slot = ProductSlot(form.products[k], "difference")
  <2>1. \A k \in 2..Len(form.products) : k \in DOMAIN form.products
    <3>1. form.products \in Seq(ProductsSet)
      BY FormIs DEF IsNormal
    <3>2. DOMAIN form.products = 1..Len(form.products) /\ Len(form.products) \in Nat
      BY <3>1, PlacesOfSeq
    <3> DEFINE n == Len(form.products)
    <3>3. n \in Nat /\ DOMAIN form.products = 1..n
      BY <3>2
    <3> HIDE DEF n
    <3>4. \A k \in 2..n : k \in 1..n
      BY ONLY <3>3
    <3> QED
      BY <3>3, <3>4 DEF n
  <2> QED
    BY <1>4, <1>10, <2>1
<1>11. CASE \E k \in DOMAIN form.cards : form.locked /\
              \E f \in Range(FieldsOf[form.cards[k].type]) :
                ~ReadOnly(form.cards[k], f) /\ slot = CardSlot(form.cards[k], f)
  BY <1>5, <1>7, <1>11
<1>12. CASE \E k \in DOMAIN form.cards : form.locked /\
              \E j \in DOMAIN form.cards[k].fans, f \in {"location", "rpm"} :
                slot = FanSlot(form.cards[k], form.cards[k].fans[j], f)
  BY <1>6, <1>7, <1>12
<1> QED
  BY <1>8, <1>9, <1>10, <1>11, <1>12, SlotIs

-----------------------------------------------------------------------------
(* Changes of a card.                                                      *)

\* A card in the place of another.
Twin(e, d) == e \in CardSet /\ e.id = d.id /\ e.type = d.type /\ e.scope = d.scope

\* A card of the same id, kind and scope is a twin.
LEMMA MadeTwin ==
  ASSUME NEW e, NEW d, NEW h, NEW m, NEW F, NEW X,
         Made(e, d.id, d.type, d.scope, h, m, F, X)
  PROVE  Twin(e, d)
BY DEF Made, Twin

\* Other fields make a twin,
LEMMA FieldsTwin ==
  ASSUME NEW d \in CardSet, NEW F \in FieldsSet(d.type)
  PROVE  Twin([d EXCEPT !.fields = F], d)
<1>1. CardParts(d.id, d.type, d.scope, d.hex, d.mode, d.fields, d.fans)
  BY CardIs
<1>2. CardParts(d.id, d.type, d.scope, d.hex, d.mode, F, d.fans)
  BY <1>1 DEF CardParts
<1>3. Made([d EXCEPT !.fields = F], d.id, d.type, d.scope, d.hex, d.mode, F, d.fans)
  BY <1>2, CardWithFields
<1> QED
  BY <1>3, MadeTwin

\* another kind of exchanger does,
LEMMA ExchangerTwin ==
  ASSUME NEW d \in CardSet, NEW h \in HexSet, NEW F \in FieldsSet(d.type)
  PROVE  Twin([d EXCEPT !.hex = h, !.fields = F], d)
<1>1. CardParts(d.id, d.type, d.scope, d.hex, d.mode, d.fields, d.fans)
  BY CardIs
<1>2. CardParts(d.id, d.type, d.scope, h, d.mode, F, d.fans)
  BY <1>1 DEF CardParts
<1>3. Made([d EXCEPT !.hex = h, !.fields = F], d.id, d.type, d.scope, h, d.mode, F, d.fans)
  BY <1>2, CardWithHexFields
<1> QED
  BY <1>3, MadeTwin

\* another way to enter the speeds does,
LEMMA ModeTwin ==
  ASSUME NEW d \in CardSet, NEW m \in ModeSet
  PROVE  Twin([d EXCEPT !.mode = m], d)
<1>1. CardParts(d.id, d.type, d.scope, d.hex, d.mode, d.fields, d.fans)
  BY CardIs
<1>2. CardParts(d.id, d.type, d.scope, d.hex, m, d.fields, d.fans)
  BY <1>1 DEF CardParts
<1>3. Made([d EXCEPT !.mode = m], d.id, d.type, d.scope, d.hex, m, d.fields, d.fans)
  BY <1>2, CardWithMode
<1> QED
  BY <1>3, MadeTwin

\* other fans do, as long as some stay or none are there,
LEMMA FansTwin ==
  ASSUME NEW d \in CardSet, NEW X \in Seq(FanSet), (X # <<>>) = (d.fans # <<>>)
  PROVE  Twin([d EXCEPT !.fans = X], d)
<1>1. CardParts(d.id, d.type, d.scope, d.hex, d.mode, d.fields, d.fans)
  BY CardIs
<1>2. CardParts(d.id, d.type, d.scope, d.hex, d.mode, d.fields, X)
  BY <1>1 DEF CardParts
<1>3. Made([d EXCEPT !.fans = X], d.id, d.type, d.scope, d.hex, d.mode, d.fields, X)
  BY <1>2, CardWithFans
<1> QED
  BY <1>3, MadeTwin

\* other fans, entered another way, do,
LEMMA ModeFansTwin ==
  ASSUME NEW d \in CardSet, d.type = "operating", NEW m \in ModeSet, NEW X \in Seq(FanSet),
         X # <<>>
  PROVE  Twin([d EXCEPT !.mode = m, !.fans = X], d)
<1>1. CardParts(d.id, d.type, d.scope, d.hex, d.mode, d.fields, d.fans)
  BY CardIs
<1>2. CardParts(d.id, d.type, d.scope, d.hex, m, d.fields, X)
  BY <1>1 DEF CardParts
<1>3. Made([d EXCEPT !.mode = m, !.fans = X], d.id, d.type, d.scope, d.hex, m, d.fields, X)
  BY <1>2, CardWithModeFans
<1> QED
  BY <1>3, MadeTwin

\* One fan of a card, or all of them, with another speed or place.
FansLike(Y, X) ==
  /\ DOMAIN Y = DOMAIN X
  /\ Y = [k \in DOMAIN X |-> Y[k]]
  /\ \A k \in DOMAIN X : Y[k] \in FanSet

\* as many other fans do,
LEMMA FansLikeTwin ==
  ASSUME NEW d \in CardSet, NEW Y, FansLike(Y, d.fans)
  PROVE  Twin([d EXCEPT !.fans = Y], d)
<1> DEFINE X == d.fans
<1>1. X \in Seq(FanSet)
  BY CardIs DEF CardParts
<1> HIDE DEF X
<1>2. DOMAIN X = 1..Len(X) /\ Len(X) \in Nat
  BY <1>1, PlacesOfSeq
<1>3. Y = [k \in 1..Len(X) |-> Y[k]] /\ \A k \in 1..Len(X) : Y[k] \in FanSet
  BY <1>2 DEF FansLike, X
<1>4. Y \in Seq(FanSet) /\ Len(Y) = Len(X)
  BY <1>2, <1>3
<1>5. (Y # <<>>) = (X # <<>>)
  BY <1>1, <1>4
<1> QED
  BY <1>4, <1>5, FansTwin DEF X

\* another value of one fan does,
LEMMA WithFanTwin ==
  ASSUME NEW d \in CardSet, NEW fan, NEW f, NEW v \in ValueSet
  PROVE  Twin(WithFan(d, fan, f, v), d)
<1> DEFINE X == d.fans
           Y == [k \in DOMAIN X |->
                   IF X[k].id # fan THEN X[k]
                   ELSE IF f = "location" THEN [X[k] EXCEPT !.location = v]
                                          ELSE [X[k] EXCEPT !.rpm = v]]
<1>1. X \in Seq(FanSet)
  BY CardIs DEF CardParts
<1>2. WithFan(d, fan, f, v) = [d EXCEPT !.fans = Y]
  BY DEF WithFan, Mapped
<1>3. ASSUME NEW k \in DOMAIN X
      PROVE  Y[k] \in FanSet
  <2> DEFINE x == X[k]
  <2>1. x \in FanSet
    BY <1>1, PlacesOfSeq
  <2>2. Y[k] = IF x.id # fan THEN x
               ELSE IF f = "location" THEN [x EXCEPT !.location = v] ELSE [x EXCEPT !.rpm = v]
    OBVIOUS
  <2> HIDE DEF x, Y
  <2>3. [x EXCEPT !.location = v] \in FanSet /\ [x EXCEPT !.rpm = v] \in FanSet
    BY <2>1 DEF FanSet
  <2> QED
    BY <2>1, <2>2, <2>3
<1>4. FansLike(Y, X)
  BY <1>3 DEF FansLike
<1> HIDE DEF Y
<1> QED
  BY <1>2, <1>4, FansLikeTwin

\* one speed for all fans does,
LEMMA AllFansTwin ==
  ASSUME NEW d \in CardSet, NEW v \in ValueSet
  PROVE  Twin([d EXCEPT !.fans = Mapped(@, LAMBDA x : [x EXCEPT !.rpm = v])], d)
<1> DEFINE X == d.fans
           Y == [k \in DOMAIN X |-> [X[k] EXCEPT !.rpm = v]]
<1>1. X \in Seq(FanSet)
  BY CardIs DEF CardParts
<1>2. [d EXCEPT !.fans = Mapped(@, LAMBDA x : [x EXCEPT !.rpm = v])] = [d EXCEPT !.fans = Y]
  BY DEF Mapped
<1>3. ASSUME NEW k \in DOMAIN X
      PROVE  Y[k] \in FanSet
  <2> DEFINE x == X[k]
  <2>1. x \in FanSet /\ Y[k] = [x EXCEPT !.rpm = v]
    BY <1>1, PlacesOfSeq
  <2> HIDE DEF x, Y
  <2> QED
    BY <2>1 DEF FanSet
<1>4. FansLike(Y, X)
  BY <1>3 DEF FansLike
<1> HIDE DEF Y
<1> QED
  BY <1>2, <1>4, FansLikeTwin

\* An emptied card.
LEMMA EmptiedTwin ==
  ASSUME NEW c \in CardSet
  PROVE  Twin(Emptied(c), c)
<1>1. CardParts(c.id, c.type, c.scope, c.hex, c.mode, c.fields, c.fans)
  BY CardIs
<1>2. c.id \in Nat /\ c.type \in KindSet /\ c.scope \in ScopeSet /\ c.hex \in HexSet
  BY <1>1 DEF CardParts
<1> DEFINE b == BlankCard(c.type, c.scope, c.id)
<1>3. Made(b, c.id, c.type, c.scope, "", "", BlankFields(c.type), BlankFans(c.type))
  BY <1>2, BlankCardIs
<1>4. Emptied(c) = [b EXCEPT !.hex = c.hex]
  BY DEF Emptied
<1> HIDE DEF b
<1>5. b \in CardSet /\ b.id = c.id /\ b.type = c.type /\ b.scope = c.scope
  BY <1>3 DEF Made
<1>6. CardParts(b.id, b.type, b.scope, b.hex, b.mode, b.fields, b.fans)
  BY <1>5, CardIs
<1>7. CardParts(b.id, b.type, b.scope, c.hex, b.mode, b.fields, b.fans)
  BY <1>2, <1>6 DEF CardParts
<1>8. Made([b EXCEPT !.hex = c.hex], b.id, b.type, b.scope, c.hex, b.mode, b.fields, b.fans)
  BY <1>5, <1>7, CardWithHex
<1> QED
  BY <1>4, <1>5, <1>8 DEF Made, Twin

\* A fixed number of fans.
LEMMA NewFansAre ==
  ASSUME NEW n \in Nat \ {0}, NEW X, X = [k \in 1..n |-> X[k]], \A k \in 1..n : X[k] \in FanSet
  PROVE  X \in Seq(FanSet) /\ X # <<>> /\ Len(X) = n
<1>1. X \in Seq(FanSet) /\ Len(X) = n
  OBVIOUS
<1> QED
  BY <1>1

\* more or fewer fans do, not none,
LEMMA ResizedTwin ==
  ASSUME NEW d \in CardSet, d.type = "operating", NEW n \in Nat \ {0}
  PROVE  Twin([d EXCEPT !.mode = IF n = 1 \/ Len(d.fans) = 1 THEN "" ELSE @,
                        !.fans = [k \in 1 .. n |-> IF k <= Len(d.fans) THEN d.fans[k] ELSE Fan(k)]],
              d)
<1> DEFINE m == IF n = 1 \/ Len(d.fans) = 1 THEN "" ELSE d.mode
           X == [k \in 1 .. n |-> IF k <= Len(d.fans) THEN d.fans[k] ELSE Fan(k)]
<1>1. d.fans \in Seq(FanSet) /\ d.mode \in ModeSet
  BY CardIs DEF CardParts
<1>2. m \in ModeSet
  BY <1>1 DEF ModeSet
<1>3. \A k \in 1..n : X[k] \in FanSet
  <2>1. \A k \in 1..n : Fan(k) \in FanSet
    BY DEF Fan, FanSet, ValueSet
  <2>2. \A k \in 1..n : k <= Len(d.fans) => d.fans[k] \in FanSet
    BY <1>1, PlacesOfSeq
  <2> QED
    BY <2>1, <2>2
<1>4. [d EXCEPT !.mode = IF n = 1 \/ Len(d.fans) = 1 THEN "" ELSE @,
                !.fans = [k \in 1 .. n |-> IF k <= Len(d.fans) THEN d.fans[k] ELSE Fan(k)]]
      = [d EXCEPT !.mode = m, !.fans = X]
  OBVIOUS
<1>5. X = [k \in 1..n |-> X[k]]
  OBVIOUS
<1> HIDE DEF X, m
<1>6. X \in Seq(FanSet) /\ X # <<>>
  BY <1>3, <1>5, NewFansAre
<1> QED
  BY <1>2, <1>4, <1>6, ModeFansTwin

\* The fans of a card written one by one.
Refanned(d, values, places, mode) ==
  [d EXCEPT
     !.mode = IF mode = "" THEN @ ELSE mode,
     !.fans = [k \in DOMAIN values |->
      [id       |-> k,
       location |-> IF places # <<>> THEN places[k]
                    ELSE IF k <= Len(d.fans) THEN d.fans[k].location ELSE "",
       rpm      |-> values[k]]]]

\* and the fans of a list of speeds do.
LEMMA RefannedTwin ==
  ASSUME NEW d \in CardSet, d.type = "operating", NEW values \in Seq(Texts), Len(values) >= 1,
         NEW places, places = <<>> \/ \A k \in DOMAIN values : places[k] \in ValueSet,
         NEW mode \in ModeSet
  PROVE  Twin(Refanned(d, values, places, mode), d)
<1> DEFINE m == IF mode = "" THEN d.mode ELSE mode
           place(k) == IF places # <<>> THEN places[k]
                       ELSE IF k <= Len(d.fans) THEN d.fans[k].location ELSE ""
           X == [k \in DOMAIN values |-> [id |-> k, location |-> place(k), rpm |-> values[k]]]
<1>1. d.fans \in Seq(FanSet) /\ d.mode \in ModeSet
  BY CardIs DEF CardParts
<1>2. m \in ModeSet
  BY <1>1
<1>3. DOMAIN values = 1..Len(values) /\ Len(values) \in Nat
      /\ \A k \in DOMAIN values : values[k] \in Texts
  BY PlacesOfSeq
<1>4. ASSUME NEW k \in DOMAIN values
      PROVE  X[k] \in FanSet
  <2>1. k \in Nat /\ values[k] \in ValueSet
    <3>1. k \in 1..Len(values) /\ values[k] \in Texts
      BY <1>3
    <3>2. k \in Nat
      BY ONLY <1>3, <3>1
    <3> QED
      BY ONLY <3>1, <3>2 DEF ValueSet
  <2>2. place(k) \in ValueSet
    <3>1. CASE places # <<>>
      BY <3>1
    <3>2. CASE places = <<>> /\ k <= Len(d.fans)
      <4>1. k \in 1..Len(d.fans)
        BY <1>3, <3>2
      <4>2. d.fans[k] \in FanSet
        BY <1>1, <4>1, PlacesOfSeq
      <4>3. d.fans[k].location \in ValueSet
        BY <4>2 DEF FanSet
      <4> QED
        BY <3>2, <4>3
    <3>3. CASE places = <<>> /\ ~(k <= Len(d.fans))
      BY <3>3 DEF ValueSet
    <3> QED
      BY <3>1, <3>2, <3>3
  <2>3. X[k] = [id |-> k, location |-> place(k), rpm |-> values[k]]
    OBVIOUS
  <2> HIDE DEF X, place
  <2> QED
    BY <2>1, <2>2, <2>3 DEF FanSet
<1>5. Refanned(d, values, places, mode) = [d EXCEPT !.mode = m, !.fans = X]
  BY DEF Refanned
<1>6. X = [k \in DOMAIN values |-> X[k]]
  OBVIOUS
<1> HIDE DEF X, m
<1>7. X \in Seq(FanSet) /\ X # <<>>
  <2>1. X = [k \in 1..Len(values) |-> X[k]] /\ Len(values) \in Nat \ {0}
        /\ \A k \in 1..Len(values) : X[k] \in FanSet
    BY <1>3, <1>4, <1>6
  <2> QED
    BY ONLY <2>1, NewFansAre
<1>8. Twin([d EXCEPT !.mode = m, !.fans = X], d)
  BY <1>2, <1>7, ModeFansTwin
<1> QED
  BY ONLY <1>5, <1>8

-----------------------------------------------------------------------------
(* Steps that leave every card its place.                                  *)

\* A step that writes a form with the same cards, whatever they say.
SameStep ==
  /\ shown' = shown
  /\ \E next \in FormSet : /\ SameCards(next, form) /\ next.locked = form.locked
                           /\ form.locked \/ next.cards = form.cards
                           /\ form' = Normal(next)

\* A form whose cards are replaced by twins has the same cards.
LEMMA CardsReplaced ==
  ASSUME NEW g \in FormSet, NEW C, C = [k \in DOMAIN g.cards |-> C[k]],
         \A k \in DOMAIN g.cards : Twin(C[k], g.cards[k])
  PROVE  /\ [g EXCEPT !.cards = C] \in FormSet
         /\ SameCards([g EXCEPT !.cards = C], g)
         /\ [g EXCEPT !.cards = C].locked = g.locked
<1>1. g.cards \in Seq(CardSet)
  BY FormIs
<1>2. DOMAIN g.cards = 1..Len(g.cards) /\ Len(g.cards) \in Nat
  BY <1>1, PlacesOfSeq
<1>3. C = [k \in 1..Len(g.cards) |-> C[k]] /\ \A k \in 1..Len(g.cards) : C[k] \in CardSet
  BY <1>2 DEF Twin
<1>4. C \in Seq(CardSet) /\ DOMAIN C = DOMAIN g.cards
  BY <1>2, <1>3
<1> DEFINE h == [g EXCEPT !.cards = C]
<1>5. h \in FormSet /\ h.cards = C /\ h.context = g.context /\ h.locked = g.locked
  BY <1>4, FormWithCards
<1> HIDE DEF h
<1>6. SameCards(h, g)
  BY <1>4, <1>5 DEF SameCards, Twin
<1> QED
  BY <1>5, <1>6 DEF h

\* What keeps the cards of a form that keeps those of another keeps those.
LEMMA SameCardsTwice ==
  ASSUME NEW f, NEW g, NEW h, SameCards(h, g), SameCards(g, f)
  PROVE  SameCards(h, f)
BY DEF SameCards

\* A save of the page with some cards changed.
LEMMA CardsSaved ==
  ASSUME IsNormal(form), form.locked, NEW C, C = [k \in DOMAIN Collected.cards |-> C[k]],
         \A k \in DOMAIN Collected.cards : Twin(C[k], Collected.cards[k]),
         NEW slot, PageSaves([Collected EXCEPT !.cards = C], slot)
  PROVE  SameStep
<1> DEFINE g == Collected
           h == [g EXCEPT !.cards = C]
<1>1. CollectedParts(g) /\ g \in FormSet /\ SameCards(g, form)
  BY CollectedSame
<1>2. h \in FormSet /\ SameCards(h, g) /\ h.locked = g.locked
  <2>1. g \in FormSet /\ C = [k \in DOMAIN g.cards |-> C[k]]
        /\ \A k \in DOMAIN g.cards : Twin(C[k], g.cards[k])
    BY <1>1
  <2> HIDE DEF g
  <2> QED
    BY ONLY <2>1, CardsReplaced
<1>3. form' = Normal(h) /\ shown' = shown
  BY DEF PageSaves
<1> HIDE DEF g, h
<1>4. SameCards(h, form) /\ h.locked = form.locked
  BY <1>1, <1>2, SameCardsTwice DEF CollectedParts
<1> QED
  BY <1>2, <1>3, <1>4 DEF SameStep

\* The cards the page has.
LEMMA CollectedCardsAre ==
  ASSUME IsNormal(form)
  PROVE  \A k \in DOMAIN Collected.cards : Collected.cards[k] \in CardSet
<1>1. Collected \in FormSet
  BY CollectedSame
<1>2. Collected.cards \in Seq(CardSet)
  BY <1>1, FormIs
<1> QED
  BY <1>2, PlacesOfSeq

\* Every card has its place after a field of one is edited on the page,
LEMMA EditCardFieldSame ==
  ASSUME IsNormal(form), form.locked, NEW c, NEW f, NEW v \in Texts \union {""},
         EditCardField(c, f, v)
  PROVE  SameStep
<1> DEFINE E(d) == [d EXCEPT !.fields = [g \in DOMAIN d.fields |->
                   IF g = f THEN v
                   ELSE IF c.type = "heat_exchanger" /\ g \in Range(After(c, f)) THEN ""
                   ELSE d.fields[g]]]
           cards == Collected.cards
           C == [k \in DOMAIN cards |->
                   IF cards[k].type = c.type /\ cards[k].id = c.id THEN E(cards[k]) ELSE cards[k]]
<1>1. ASSUME NEW d \in CardSet, d.type = c.type
      PROVE  Twin(E(d), d)
  <2> DEFINE F == [g \in DOMAIN d.fields |->
                   IF g = f THEN v
                   ELSE IF c.type = "heat_exchanger" /\ g \in Range(After(c, f)) THEN "" ELSE d.fields[g]]
  <2>1. d.fields \in FieldsSet(d.type)
    BY CardIs DEF CardParts
  <2>2. F \in FieldsSet(d.type)
    BY <2>1 DEF FieldsSet, ValueSet
  <2> HIDE DEF F
  <2>3. Twin([d EXCEPT !.fields = F], d)
    BY <2>2, FieldsTwin
  <2> QED
    BY <2>3 DEF F
<1>2. \E slot : PageSaves([Collected EXCEPT !.cards = C], slot)
  BY DEF EditCardField, WithCard, Mapped
<1> HIDE DEF E
<1>3. C = [k \in DOMAIN cards |-> C[k]] /\ \A k \in DOMAIN cards : Twin(C[k], cards[k])
  <2>1. \A k \in DOMAIN cards : cards[k] \in CardSet
    BY CollectedCardsAre
  <2>2. \A d \in CardSet : Twin(d, d)
    BY DEF Twin
  <2> HIDE DEF cards
  <2> QED
    BY <1>1, <2>1, <2>2
<1> HIDE DEF C
<1> QED
  BY <1>2, <1>3, CardsSaved

\* after another kind of exchanger is chosen,
LEMMA ChangeExchangerSame ==
  ASSUME IsNormal(form), form.locked, NEW c, NEW hex \in {MicroChannel, FinAndTube},
         ChangeExchanger(c, hex)
  PROVE  SameStep
<1> DEFINE E(d) == [d EXCEPT !.hex = hex, !.fields = [g \in DOMAIN d.fields |-> ""]]
           cards == Collected.cards
           C == [k \in DOMAIN cards |->
                   IF cards[k].type = c.type /\ cards[k].id = c.id THEN E(cards[k]) ELSE cards[k]]
<1>1. ASSUME NEW d \in CardSet, d.type = c.type
      PROVE  Twin(E(d), d)
  <2> DEFINE F == [g \in DOMAIN d.fields |-> ""]
  <2>1. d.fields \in FieldsSet(d.type)
    BY CardIs DEF CardParts
  <2>2. F \in FieldsSet(d.type) /\ hex \in HexSet
    BY <2>1 DEF FieldsSet, ValueSet, HexSet
  <2> HIDE DEF F
  <2>3. Twin([d EXCEPT !.hex = hex, !.fields = F], d)
    BY <2>2, ExchangerTwin
  <2> QED
    BY <2>3 DEF F
<1>2. \E slot : PageSaves([Collected EXCEPT !.cards = C], slot)
  BY DEF ChangeExchanger, WithCard, Mapped
<1> HIDE DEF E
<1>3. C = [k \in DOMAIN cards |-> C[k]] /\ \A k \in DOMAIN cards : Twin(C[k], cards[k])
  <2>1. \A k \in DOMAIN cards : cards[k] \in CardSet
    BY CollectedCardsAre
  <2>2. \A d \in CardSet : Twin(d, d)
    BY DEF Twin
  <2> HIDE DEF cards
  <2> QED
    BY <1>1, <2>1, <2>2
<1> HIDE DEF C
<1> QED
  BY <1>2, <1>3, CardsSaved

\* after another number of fans is,
LEMMA ResizeFansSame ==
  ASSUME IsNormal(form), form.locked, NEW c, NEW n \in 1..MaxFans, ResizeFans(c, n)
  PROVE  SameStep
<1> DEFINE E(d) == [d EXCEPT !.mode = IF n = 1 \/ Len(d.fans) = 1 THEN "" ELSE d.mode,
                       !.fans = [i \in 1 .. n |-> IF i <= Len(d.fans) THEN d.fans[i] ELSE Fan(i)]]
           cards == Collected.cards
           C == [k \in DOMAIN cards |->
                   IF cards[k].type = c.type /\ cards[k].id = c.id THEN E(cards[k]) ELSE cards[k]]
<1>1. ASSUME NEW d \in CardSet, d.type = c.type
      PROVE  Twin(E(d), d)
  <2>1. n \in Nat \ {0} /\ c.type = "operating"
    BY BoundsAssumption DEF ResizeFans
  <2> QED
    BY <1>1, <2>1, ResizedTwin
<1>2. \E slot : PageSaves([Collected EXCEPT !.cards = C], slot)
  BY DEF ResizeFans, WithCard, Mapped
<1> HIDE DEF E
<1>3. C = [k \in DOMAIN cards |-> C[k]] /\ \A k \in DOMAIN cards : Twin(C[k], cards[k])
  <2>1. \A k \in DOMAIN cards : cards[k] \in CardSet
    BY CollectedCardsAre
  <2>2. \A d \in CardSet : Twin(d, d)
    BY DEF Twin
  <2> HIDE DEF cards
  <2> QED
    BY <1>1, <2>1, <2>2
<1> HIDE DEF C
<1> QED
  BY <1>2, <1>3, CardsSaved

\* after another way to enter their speeds is,
LEMMA ChangeModeSame ==
  ASSUME IsNormal(form), form.locked, NEW c, NEW mode \in {"", "common", "individual"},
         ChangeMode(c, mode)
  PROVE  SameStep
<1> DEFINE E(d) == [d EXCEPT !.mode = mode]
           cards == Collected.cards
           C == [k \in DOMAIN cards |->
                   IF cards[k].type = c.type /\ cards[k].id = c.id THEN E(cards[k]) ELSE cards[k]]
<1>1. ASSUME NEW d \in CardSet, d.type = c.type
      PROVE  Twin(E(d), d)
  <2>1. mode \in ModeSet
    BY DEF ModeSet
  <2> QED
    BY <2>1, ModeTwin
<1>2. \E slot : PageSaves([Collected EXCEPT !.cards = C], slot)
  BY DEF ChangeMode, WithCard, Mapped
<1> HIDE DEF E
<1>3. C = [k \in DOMAIN cards |-> C[k]] /\ \A k \in DOMAIN cards : Twin(C[k], cards[k])
  <2>1. \A k \in DOMAIN cards : cards[k] \in CardSet
    BY CollectedCardsAre
  <2>2. \A d \in CardSet : Twin(d, d)
    BY DEF Twin
  <2> HIDE DEF cards
  <2> QED
    BY <1>1, <2>1, <2>2
<1> HIDE DEF C
<1> QED
  BY <1>2, <1>3, CardsSaved

\* after one fan is edited,
LEMMA EditFanSame ==
  ASSUME IsNormal(form), form.locked, NEW c, NEW i, NEW f, NEW v \in Texts, EditFan(c, i, f, v)
  PROVE  SameStep
<1> DEFINE E(d) == WithFan(d, d.fans[i].id, f, v)
           cards == Collected.cards
           C == [k \in DOMAIN cards |->
                   IF cards[k].type = c.type /\ cards[k].id = c.id THEN E(cards[k]) ELSE cards[k]]
<1>1. ASSUME NEW d \in CardSet, d.type = c.type
      PROVE  Twin(E(d), d)
  <2>1. v \in ValueSet
    BY DEF ValueSet
  <2> QED
    BY <2>1, WithFanTwin
<1>2. \E slot : PageSaves([Collected EXCEPT !.cards = C], slot)
  BY DEF EditFan, WithCard, Mapped
<1> HIDE DEF E
<1>3. C = [k \in DOMAIN cards |-> C[k]] /\ \A k \in DOMAIN cards : Twin(C[k], cards[k])
  <2>1. \A k \in DOMAIN cards : cards[k] \in CardSet
    BY CollectedCardsAre
  <2>2. \A d \in CardSet : Twin(d, d)
    BY DEF Twin
  <2> HIDE DEF cards
  <2> QED
    BY <1>1, <2>1, <2>2
<1> HIDE DEF C
<1> QED
  BY <1>2, <1>3, CardsSaved

\* and after all are together.
LEMMA EditAllFansSame ==
  ASSUME IsNormal(form), form.locked, NEW c, NEW v \in Texts, EditAllFans(c, v)
  PROVE  SameStep
<1> DEFINE E(d) == [d EXCEPT !.fans = Mapped(d.fans, LAMBDA x : [x EXCEPT !.rpm = v])]
           cards == Collected.cards
           C == [k \in DOMAIN cards |->
                   IF cards[k].type = c.type /\ cards[k].id = c.id THEN E(cards[k]) ELSE cards[k]]
<1>1. ASSUME NEW d \in CardSet, d.type = c.type
      PROVE  Twin(E(d), d)
  <2>1. v \in ValueSet
    BY DEF ValueSet
  <2> QED
    BY <2>1, AllFansTwin
<1>2. \E slot : PageSaves([Collected EXCEPT !.cards = C], slot)
  BY DEF EditAllFans, WithCard, Mapped
<1> HIDE DEF E
<1>3. C = [k \in DOMAIN cards |-> C[k]] /\ \A k \in DOMAIN cards : Twin(C[k], cards[k])
  <2>1. \A k \in DOMAIN cards : cards[k] \in CardSet
    BY CollectedCardsAre
  <2>2. \A d \in CardSet : Twin(d, d)
    BY DEF Twin
  <2> HIDE DEF cards
  <2> QED
    BY <1>1, <2>1, <2>2
<1> HIDE DEF C
<1> QED
  BY <1>2, <1>3, CardsSaved

-----------------------------------------------------------------------------
(* Steps that write no card.                                               *)

\* A save of the page, or an operation, with other products.
LEMMA ProductsWritten ==
  ASSUME IsNormal(form), NEW g \in FormSet, SameCards(g, form), g.locked = form.locked,
         form.locked \/ g.cards = form.cards,
         NEW P \in Seq(ProductsSet), P # <<>>,
         form' = Normal([g EXCEPT !.products = P]), shown' = shown
  PROVE  SameStep
<1> DEFINE h == [g EXCEPT !.products = P]
<1>1. h \in FormSet /\ h.cards = g.cards /\ h.context = g.context /\ h.locked = g.locked
  BY FormWithProducts
<1>2. form' = Normal(h)
  OBVIOUS
<1> HIDE DEF h
<1>3. SameCards(h, form)
  BY <1>1 DEF SameCards
<1> QED
  BY <1>1, <1>2, <1>3 DEF SameStep

\* The products the page has.
LEMMA CollectedFacts ==
  ASSUME IsNormal(form)
  PROVE  /\ Collected \in FormSet /\ SameCards(Collected, form)
         /\ Collected.locked = form.locked
         /\ Collected.products \in Seq(ProductsSet) /\ Collected.products # <<>>
         /\ Len(Collected.products) = Len(form.products)
         /\ DOMAIN Collected.products = DOMAIN form.products
         /\ \A k \in DOMAIN form.products : Collected.products[k].id = form.products[k].id
<1>1. CollectedParts(Collected) /\ Collected \in FormSet /\ SameCards(Collected, form)
  BY CollectedSame
<1>2. form.products \in Seq(ProductsSet) /\ form.products # <<>>
  BY FormIs DEF IsNormal
<1>3. /\ CollectedProducts(form.products) \in Seq(ProductsSet)
      /\ CollectedProducts(form.products) # <<>>
      /\ Len(CollectedProducts(form.products)) = Len(form.products)
      /\ \A k \in DOMAIN form.products :
           CollectedProducts(form.products)[k].id = form.products[k].id
  BY <1>2, CollectedProductsAre
<1>4. Collected.products = CollectedProducts(form.products) /\ Collected.locked = form.locked
  BY <1>1 DEF CollectedParts
<1>5. DOMAIN CollectedProducts(form.products) = DOMAIN form.products
  BY <1>2, <1>3, PlacesOfSeq
<1> QED
  BY <1>1, <1>3, <1>4, <1>5

\* A sequence with other elements, one for one.
LEMMA AsMany ==
  ASSUME NEW S, NEW s \in Seq(S), NEW T, NEW r, r = [j \in DOMAIN s |-> r[j]],
         \A j \in DOMAIN s : r[j] \in T
  PROVE  r \in Seq(T) /\ Len(r) = Len(s) /\ DOMAIN r = DOMAIN s /\ (s # <<>> => r # <<>>)
<1>1. Len(s) \in Nat /\ DOMAIN s = 1..Len(s)
  BY PlacesOfSeq
<1>2. r = [j \in 1..Len(s) |-> r[j]] /\ \A j \in 1..Len(s) : r[j] \in T
  BY <1>1
<1>3. r \in Seq(T) /\ Len(r) = Len(s) /\ DOMAIN r = DOMAIN s
  BY ONLY <1>1, <1>2
<1>4. s # <<>> => Len(s) # 0
  OBVIOUS
<1> QED
  BY <1>3, <1>4

\* So it has after a general field is edited on the page,
LEMMA EditGeneralSame ==
  ASSUME IsNormal(form), form.locked, NEW f \in Range(General), NEW v \in Texts, EditGeneral(f, v)
  PROVE  SameStep
<1> DEFINE h == [Collected EXCEPT !.general[f] = v]
<1>1. Collected \in FormSet /\ SameCards(Collected, form) /\ Collected.locked = form.locked
  BY CollectedFacts
<1>2. h \in FormSet /\ h.cards = Collected.cards /\ h.context = Collected.context
      /\ h.locked = Collected.locked
  BY <1>1, FormWithGeneral
<1>3. form' = Normal(h) /\ shown' = shown
  BY DEF EditGeneral, PageSaves
<1> HIDE DEF h
<1>4. SameCards(h, form)
  BY <1>1, <1>2 DEF SameCards
<1> QED
  BY <1>1, <1>2, <1>3, <1>4 DEF SameStep

\* the drawing of a product,
LEMMA EditDrawingSame ==
  ASSUME IsNormal(form), form.locked, NEW k \in DOMAIN form.products, NEW v \in Texts \union {""},
         EditDrawing(k, v)
  PROVE  SameStep
<1> DEFINE Q == Collected.products
           q == [Q[k] EXCEPT !.drawing = v]
           P == [Q EXCEPT ![k] = q]
<1>1. /\ Collected \in FormSet /\ SameCards(Collected, form) /\ Collected.locked = form.locked
      /\ Q \in Seq(ProductsSet) /\ Q # <<>> /\ DOMAIN Q = DOMAIN form.products
  BY CollectedFacts
<1>2. [Collected EXCEPT !.products[k].drawing = v] = [Collected EXCEPT !.products = P]
  OBVIOUS
<1>3. form' = Normal([Collected EXCEPT !.products = P]) /\ shown' = shown
  BY <1>2 DEF EditDrawing, PageSaves
<1>4. q \in ProductsSet
  <2>1. Q[k] \in ProductsSet /\ v \in ValueSet
    BY <1>1, PlacesOfSeq DEF ValueSet
  <2> QED
    BY <2>1, ProductWith
<1> HIDE DEF Q, q
<1>5. P \in Seq(ProductsSet) /\ P # <<>>
  <2>1. P = [j \in DOMAIN Q |-> P[j]] /\ \A j \in DOMAIN Q : P[j] = IF j = k THEN q ELSE Q[j]
    OBVIOUS
  <2>2. \A j \in DOMAIN Q : P[j] \in ProductsSet
    BY <1>1, <1>4, <2>1, PlacesOfSeq
  <2> HIDE DEF P
  <2> QED
    BY ONLY <1>1, <2>1, <2>2, AsMany
<1> HIDE DEF P
<1> QED
  BY <1>1, <1>3, <1>5, ProductsWritten

\* or the description of one,
LEMMA EditDescriptionSame ==
  ASSUME IsNormal(form), form.locked, NEW k \in DOMAIN form.products, NEW v \in Texts \union {""},
         EditDescription(k, v)
  PROVE  SameStep
<1> DEFINE Q == Collected.products
           q == [Q[k] EXCEPT !.difference = v, !.name = v]
           P == [Q EXCEPT ![k] = q]
<1>1. /\ Collected \in FormSet /\ SameCards(Collected, form) /\ Collected.locked = form.locked
      /\ Q \in Seq(ProductsSet) /\ Q # <<>> /\ DOMAIN Q = DOMAIN form.products
  BY CollectedFacts
<1>2. [Collected EXCEPT !.products[k].difference = v, !.products[k].name = v]
      = [Collected EXCEPT !.products = P]
  <2>1. Collected \in [general : GeneralSet, products : Seq(ProductsSet) \ {<<>>},
                       cards : Seq(CardSet), context : ContextSet, locked : BOOLEAN]
    BY <1>1 DEF FormSet
  <2>2. k \in DOMAIN Collected.products
    BY <1>1
  <2> QED
    BY <2>1, <2>2
<1>3. form' = Normal([Collected EXCEPT !.products = P]) /\ shown' = shown
  BY <1>2 DEF EditDescription, PageSaves
<1>4. q \in ProductsSet
  <2>1. Q[k] \in ProductsSet /\ v \in ValueSet
    BY <1>1, PlacesOfSeq DEF ValueSet
  <2> QED
    BY <2>1 DEF ProductsSet
<1> HIDE DEF Q, q
<1>5. P \in Seq(ProductsSet) /\ P # <<>>
  <2>1. P = [j \in DOMAIN Q |-> P[j]] /\ \A j \in DOMAIN Q : P[j] = IF j = k THEN q ELSE Q[j]
    OBVIOUS
  <2>2. \A j \in DOMAIN Q : P[j] \in ProductsSet
    BY <1>1, <1>4, <2>1, PlacesOfSeq
  <2> HIDE DEF P
  <2> QED
    BY ONLY <1>1, <2>1, <2>2, AsMany
<1> HIDE DEF P
<1> QED
  BY <1>1, <1>3, <1>5, ProductsWritten

\* after a product is added
LEMMA AddComparisonSame ==
  ASSUME IsNormal(form), form.locked, AddComparison
  PROVE  SameStep
<1> DEFINE Q == Collected.products
           i == Max(Ids(form.products) \union {9}) + 1
           q == [Product(i, "") EXCEPT !.custom = TRUE]
           P == Append(Q, q)
<1>1. /\ Collected \in FormSet /\ SameCards(Collected, form) /\ Collected.locked = form.locked
      /\ Q \in Seq(ProductsSet) /\ Q # <<>>
  BY CollectedFacts
<1>2. form' = Normal([Collected EXCEPT !.products = P]) /\ shown' = shown
  BY DEF AddComparison, PageSaves
<1>3. i \in Nat
  <2> DEFINE T == Ids(form.products) \union {9}
  <2>1. form.products \in Seq(ProductsSet)
    BY FormIs DEF IsNormal
  <2>2. IsFiniteSet(DOMAIN form.products)
        /\ \A k \in DOMAIN form.products : form.products[k].id \in Nat
    <3>1. IsFiniteSet(DOMAIN form.products)
          /\ \A k \in DOMAIN form.products : form.products[k] \in ProductsSet
      BY <2>1, PlacesOfSeq
    <3> QED
      BY <3>1 DEF ProductsSet
  <2>3. Ids(form.products) = {form.products[k].id : k \in DOMAIN form.products}
    BY DEF Ids
  <2>4. IsFiniteSet(Ids(form.products)) /\ Ids(form.products) \in SUBSET Nat
    <3> DEFINE D == DOMAIN form.products
               id == [k \in D |-> form.products[k].id]
    <3>1. id \in [D -> Nat] /\ IsFiniteSet(D)
      BY <2>2
    <3>2. Ids(form.products) = {id[k] : k \in D}
      BY <2>3
    <3> HIDE DEF id, D
    <3>3. IsFiniteSet({id[k] : k \in D})
      <4> DEFINE U == {id[k] : k \in D}
      <4>1. id \in Surjection(D, U)
        BY <3>1 DEF Surjection
      <4> HIDE DEF U
      <4>2. IsFiniteSet(U)
        BY <3>1, <4>1, FS_Surjection
      <4> QED
        BY <4>2 DEF U
    <3> QED
      BY <3>1, <3>2, <3>3
  <2>5. T \in SUBSET Nat /\ T # {} /\ IsFiniteSet(T)
    BY <2>4, FS_AddElement
  <2> HIDE DEF T
  <2>6. Max(T) \in T
    BY <2>5, MaxIs
  <2>7. Max(T) \in Nat
    BY <2>5, <2>6
  <2> QED
    BY <2>7 DEF T
<1> HIDE DEF i
<1>4. q \in ProductsSet
  BY <1>3 DEF Product, ProductsSet, ValueSet
<1> HIDE DEF q
<1>5. P \in Seq(ProductsSet) /\ P # <<>>
  BY <1>1, <1>4, AppendProperties
<1> HIDE DEF P
<1> QED
  BY <1>1, <1>2, <1>5, ProductsWritten

\* or one is removed.
LEMMA RemoveComparisonSame ==
  ASSUME IsNormal(form), form.locked, NEW k \in DOMAIN form.products, RemoveComparison(k)
  PROVE  SameStep
<1> DEFINE Q == Collected.products
           A == SubSeq(Q, 1, k - 1)
           B == SubSeq(Q, k + 1, Len(Q))
           P == A \o B
<1>1. /\ Collected \in FormSet /\ SameCards(Collected, form) /\ Collected.locked = form.locked
      /\ Q \in Seq(ProductsSet) /\ Q # <<>> /\ DOMAIN Q = DOMAIN form.products
  BY CollectedFacts
<1>2. form' = Normal([Collected EXCEPT !.products = P]) /\ shown' = shown
  BY DEF RemoveComparison, PageSaves, RemoveAt
<1> HIDE DEF Q
<1>3. k \in 2..Len(Q) /\ Len(Q) \in Nat
  <2>1. k \in 1..Len(Q) /\ Len(Q) \in Nat
    BY <1>1, PlacesOfSeq
  <2> QED
    BY <2>1 DEF RemoveComparison
<1>4. A \in Seq(ProductsSet) /\ Len(A) = k - 1 /\ B \in Seq(ProductsSet)
  <2>1. \A j \in 1..Len(Q) : Q[j] \in ProductsSet
    BY <1>1, PlacesOfSeq
  <2> QED
    BY <1>1, <1>3, <2>1, SubSeqProperties
<1> HIDE DEF A, B
<1>5. P \in Seq(ProductsSet) /\ Len(P) = Len(A) + Len(B) /\ Len(B) \in Nat
  <2>1. P \in Seq(ProductsSet) /\ Len(P) = Len(A) + Len(B)
    BY ONLY <1>4, ConcatProperties DEF P
  <2>2. Len(B) \in Nat
    BY <1>4
  <2> QED
    BY <2>1, <2>2
<1>6. P # <<>>
  BY <1>3, <1>4, <1>5
<1> HIDE DEF P
<1> QED
  BY <1>1, <1>2, <1>5, <1>6, ProductsWritten

-----------------------------------------------------------------------------
(* What the assistant writes.                                              *)

\* A form has the cards it has.
LEMMA FormFacts ==
  ASSUME IsNormal(form)
  PROVE  /\ form \in FormSet /\ SameCards(form, form)
         /\ form.products \in Seq(ProductsSet) /\ form.products # <<>>
         /\ form.cards \in Seq(CardSet)
         /\ \A k \in DOMAIN form.cards : form.cards[k] \in CardSet
<1>1. form \in FormSet
  BY DEF IsNormal
<1>2. form.products \in Seq(ProductsSet) /\ form.products # <<>> /\ form.cards \in Seq(CardSet)
  BY <1>1, FormIs
<1>3. \A k \in DOMAIN form.cards : form.cards[k] \in CardSet
  BY <1>2, PlacesOfSeq
<1> QED
  BY <1>1, <1>2, <1>3 DEF SameCards

\* An operation that changes some cards.
LEMMA CardsWritten ==
  ASSUME IsNormal(form), form.locked, NEW C, C = [k \in DOMAIN form.cards |-> C[k]],
         \A k \in DOMAIN form.cards : Twin(C[k], form.cards[k]),
         form' = Normal([form EXCEPT !.cards = C]), shown' = shown
  PROVE  SameStep
<1> DEFINE h == [form EXCEPT !.cards = C]
<1>1. form \in FormSet
  BY FormFacts
<1>2. h \in FormSet /\ SameCards(h, form) /\ h.locked = form.locked
  <2>1. form \in FormSet /\ C = [k \in DOMAIN form.cards |-> C[k]]
        /\ \A k \in DOMAIN form.cards : Twin(C[k], form.cards[k])
    BY <1>1
  <2> QED
    BY ONLY <2>1, CardsReplaced
<1>3. form' = Normal(h) /\ shown' = shown
  OBVIOUS
<1> HIDE DEF h
<1> QED
  BY <1>2, <1>3 DEF SameStep

\* So it has after the assistant writes a general field,
LEMMA WriteGeneralSame ==
  ASSUME IsNormal(form), NEW f \in Range(General), NEW v \in Texts,
         WriteSlot(GeneralSlot(f), v)
  PROVE  SameStep
<1> DEFINE h == [form EXCEPT !.general[f] = v]
<1>1. form \in FormSet /\ SameCards(form, form)
  BY FormFacts
<1>2. h \in FormSet /\ h.cards = form.cards /\ h.context = form.context /\ h.locked = form.locked
  BY <1>1, FormWithGeneral
<1>3. Written(form, GeneralSlot(f), v) = h
  BY DEF Written, GeneralSlot, Slot
<1>4. form' = Normal(h) /\ shown' = shown
  BY <1>3 DEF WriteSlot, ChatApplies
<1> HIDE DEF h
<1>5. SameCards(h, form)
  BY <1>1, <1>2 DEF SameCards
<1> QED
  BY <1>2, <1>4, <1>5 DEF SameStep

\* a field of a product,
LEMMA WriteProductSame ==
  ASSUME IsNormal(form), NEW k \in DOMAIN form.products,
         NEW f \in {"drawing", "name", "difference"}, NEW v \in Texts,
         WriteSlot(ProductSlot(form.products[k], f), v)
  PROVE  SameStep
<1> DEFINE Q == form.products
           i == Q[k].id
           with(p) == CASE f = "drawing"    -> [p EXCEPT !.drawing = v]
                        [] f = "difference" -> [p EXCEPT !.difference = v]
                        [] f = "name"       -> [p EXCEPT !.name = v, !.custom = TRUE]
           P == [j \in DOMAIN Q |-> IF Q[j].id # i THEN Q[j] ELSE with(Q[j])]
<1>1. form \in FormSet /\ SameCards(form, form) /\ Q \in Seq(ProductsSet) /\ Q # <<>>
  BY FormFacts
<1>2. Written(form, ProductSlot(Q[k], f), v) = WithProduct(form, i, f, v)
  BY DEF Written, ProductSlot, Slot
<1>3. WithProduct(form, i, f, v) = [form EXCEPT !.products = P]
  BY DEF WithProduct, Mapped
<1>4. form' = Normal([form EXCEPT !.products = P]) /\ shown' = shown
  BY <1>2, <1>3 DEF WriteSlot, ChatApplies
<1>5. ASSUME NEW p \in ProductsSet
      PROVE  with(p) \in ProductsSet
  <2>1. v \in ValueSet
    BY DEF ValueSet
  <2>2. /\ [p EXCEPT !.drawing = v] \in ProductsSet /\ [p EXCEPT !.difference = v] \in ProductsSet
        /\ [p EXCEPT !.name = v, !.custom = TRUE] \in ProductsSet
    BY <2>1 DEF ProductsSet
  <2>3. CASE f = "drawing"
    BY <2>2, <2>3
  <2>4. CASE f = "difference"
    BY <2>2, <2>4
  <2>5. CASE f = "name"
    BY <2>2, <2>5
  <2> QED
    BY <2>3, <2>4, <2>5
<1> HIDE DEF with, Q, i
<1>6. P \in Seq(ProductsSet) /\ P # <<>>
  <2>1. \A j \in DOMAIN Q : P[j] = IF Q[j].id # i THEN Q[j] ELSE with(Q[j])
    OBVIOUS
  <2>2. P = [j \in DOMAIN Q |-> P[j]]
    OBVIOUS
  <2>3. \A j \in DOMAIN Q : P[j] \in ProductsSet
    <3> HIDE DEF P
    <3>1. \A j \in DOMAIN Q : Q[j] \in ProductsSet
      BY <1>1, PlacesOfSeq
    <3> QED
      BY <1>5, <2>1, <3>1
  <2> HIDE DEF P
  <2> QED
    BY ONLY <1>1, <2>2, <2>3, AsMany
<1> HIDE DEF P
<1> QED
  BY <1>1, <1>4, <1>6, ProductsWritten

\* a field of a card,
LEMMA WriteCardSame ==
  ASSUME IsNormal(form), form.locked, NEW k \in DOMAIN form.cards, NEW f, NEW v \in Texts,
         WriteSlot(CardSlot(form.cards[k], f), v)
  PROVE  SameStep
<1> DEFINE cards == form.cards
           type == cards[k].type
           i == cards[k].id
           E(d) == [d EXCEPT !.fields[f] = v]
           C == [j \in DOMAIN cards |->
                   IF cards[j].type = type /\ cards[j].id = i THEN E(cards[j]) ELSE cards[j]]
<1>1. ASSUME NEW d \in CardSet
      PROVE  Twin(E(d), d)
  <2> DEFINE F == [d.fields EXCEPT ![f] = v]
  <2>1. d.fields \in FieldsSet(d.type) /\ v \in ValueSet
    BY CardIs DEF CardParts, ValueSet
  <2>2. F \in FieldsSet(d.type)
    BY <2>1 DEF FieldsSet
  <2>3. E(d) = [d EXCEPT !.fields = F]
    OBVIOUS
  <2> HIDE DEF F, E
  <2>4. Twin([d EXCEPT !.fields = F], d)
    BY <2>2, FieldsTwin
  <2> QED
    BY <2>3, <2>4
<1>2. Written(form, CardSlot(cards[k], f), v) = [form EXCEPT !.cards = C]
  <2>1. Written(form, CardSlot(cards[k], f), v)
        = WithCard(form, type, i, LAMBDA c : [c EXCEPT !.fields[f] = v])
    BY DEF Written, CardSlot, Slot
  <2> QED
    BY <2>1 DEF WithCard, Mapped
<1>3. form' = Normal([form EXCEPT !.cards = C]) /\ shown' = shown
  BY <1>2 DEF WriteSlot, ChatApplies
<1> HIDE DEF E
<1>4. C = [j \in DOMAIN cards |-> C[j]] /\ \A j \in DOMAIN cards : Twin(C[j], cards[j])
  <2>1. \A j \in DOMAIN cards : cards[j] \in CardSet
    BY FormFacts
  <2>2. \A d \in CardSet : Twin(d, d)
    BY DEF Twin
  <2> HIDE DEF cards, type, i
  <2> QED
    BY <1>1, <2>1, <2>2
<1> HIDE DEF C
<1> QED
  BY <1>3, <1>4, CardsWritten

\* or a field of a fan,
LEMMA WriteFanSame ==
  ASSUME IsNormal(form), form.locked, NEW k \in DOMAIN form.cards, NEW x, NEW f, NEW v \in Texts,
         WriteSlot(FanSlot(form.cards[k], x, f), v)
  PROVE  SameStep
<1> DEFINE cards == form.cards
           type == cards[k].type
           i == cards[k].id
           E(d) == WithFan(d, x.id, f, v)
           C == [j \in DOMAIN cards |->
                   IF cards[j].type = type /\ cards[j].id = i THEN E(cards[j]) ELSE cards[j]]
<1>1. ASSUME NEW d \in CardSet
      PROVE  Twin(E(d), d)
  BY WithFanTwin DEF ValueSet
<1>2. Written(form, FanSlot(cards[k], x, f), v) = [form EXCEPT !.cards = C]
  <2>1. Written(form, FanSlot(cards[k], x, f), v)
        = WithCard(form, type, i, LAMBDA c : WithFan(c, x.id, f, v))
    BY DEF Written, FanSlot, Slot
  <2> QED
    BY <2>1 DEF WithCard, Mapped
<1>3. form' = Normal([form EXCEPT !.cards = C]) /\ shown' = shown
  BY <1>2 DEF WriteSlot, ChatApplies
<1> HIDE DEF E
<1>4. C = [j \in DOMAIN cards |-> C[j]] /\ \A j \in DOMAIN cards : Twin(C[j], cards[j])
  <2>1. \A j \in DOMAIN cards : cards[j] \in CardSet
    BY FormFacts
  <2>2. \A d \in CardSet : Twin(d, d)
    BY DEF Twin
  <2> HIDE DEF cards, type, i
  <2> QED
    BY <1>1, <2>1, <2>2
<1> HIDE DEF C
<1> QED
  BY <1>3, <1>4, CardsWritten

\* A value written at one place.
LEMMA WriteSlotSame ==
  ASSUME IsNormal(form), NEW slot \in SlotsOf(form), NEW v \in Texts, WriteSlot(slot, v)
  PROVE  SameStep
<1>1. form.products \in Seq(ProductsSet)
  BY FormFacts
<1>2. 2..Len(form.products) \subseteq DOMAIN form.products
  BY <1>1, PlacesOfSeq
<1>3. ASSUME NEW f \in Range(General), slot = GeneralSlot(f)
      PROVE  SameStep
  BY <1>3, WriteGeneralSame
<1>4. ASSUME NEW k \in DOMAIN form.products, NEW f \in {"drawing", "name", "difference"},
             slot = ProductSlot(form.products[k], f)
      PROVE  SameStep
  BY <1>4, WriteProductSame
<1>5. ASSUME form.locked, NEW k \in DOMAIN form.cards, NEW f, slot = CardSlot(form.cards[k], f)
      PROVE  SameStep
  BY <1>5, WriteCardSame
<1>6. ASSUME form.locked, NEW k \in DOMAIN form.cards, NEW x, NEW f, slot = FanSlot(form.cards[k], x, f)
      PROVE  SameStep
  BY <1>6, WriteFanSame
<1>7. CASE \E f \in Range(General) : slot = GeneralSlot(f)
  BY <1>3, <1>7
<1>8. CASE \E k \in DOMAIN form.products, f \in {"drawing", "name", "difference"} :
             slot = ProductSlot(form.products[k], f)
  BY <1>4, <1>8
<1>9. CASE form.locked /\ \E k \in DOMAIN form.cards : \E f : slot = CardSlot(form.cards[k], f)
  BY <1>5, <1>9
<1>10. CASE form.locked /\ \E k \in DOMAIN form.cards : \E x, f : slot = FanSlot(form.cards[k], x, f)
  BY <1>6, <1>10
<1> QED
  BY <1>2, <1>7, <1>8, <1>9, <1>10, SlotIs, ZenonT(40)

-----------------------------------------------------------------------------
(* Lists that are written.                                                 *)

\* A sequence that is not empty has a first place.
LEMMA NotEmpty ==
  ASSUME NEW S, NEW s \in Seq(S)
  PROVE  s # <<>> <=> Len(s) # 0
OBVIOUS

\* The values of a list are values.
LEMMA ListsAre ==
  ASSUME NEW values \in Lists
  PROVE  /\ values \in Seq(Texts) /\ values # <<>>
         /\ Len(values) \in Nat /\ Len(values) >= 1 /\ DOMAIN values = 1..Len(values)
         /\ \A k \in DOMAIN values : values[k] \in Texts /\ values[k] \in ValueSet /\ values[k] # ""
         /\ 1 \in DOMAIN values /\ values[1] # "" /\ values \in Seq(ValueSet)
<1>1. values \in Seq(Texts) /\ values # <<>>
  BY ListsAssumption
<1>2. Len(values) \in Nat /\ DOMAIN values = 1..Len(values)
      /\ \A k \in DOMAIN values : values[k] \in Texts
  BY <1>1, PlacesOfSeq
<1>3. Len(values) # 0
  BY <1>1, NotEmpty
<1>4. \A v \in Texts : v \in ValueSet /\ v # ""
  BY TextsAssumption DEF ValueSet
<1> DEFINE S == DOMAIN values
<1>5. \A k \in S : values[k] \in Texts /\ values[k] \in ValueSet /\ values[k] # ""
  BY <1>2, <1>4
<1>6. 1 \in S
  BY <1>2, <1>3
<1>7. values = [k \in S |-> values[k]]
  BY <1>1
<1>8. values \in Seq(ValueSet)
  BY ONLY <1>1, <1>5, <1>7, AsMany DEF S
<1> HIDE DEF S
<1>9. values[1] # ""
  BY <1>5, <1>6
<1>10. Len(values) >= 1
  <2> DEFINE n == Len(values)
  <2>1. n \in Nat /\ n # 0
    BY <1>2, <1>3
  <2> HIDE DEF n
  <2>2. n >= 1
    BY ONLY <2>1
  <2> QED
    BY <2>2 DEF n
<1> QED
  BY <1>1, <1>2, <1>5, <1>6, <1>8, <1>9, <1>10 DEF S

\* Without repetition a list with a text in it is not empty.
LEMMA DistinctAre ==
  ASSUME NEW s \in Seq(ValueSet), NEW n \in DOMAIN s, s[n] # ""
  PROVE  Distinct(s) \in Seq(ValueSet) /\ Distinct(s) # <<>>
<1> DEFINE I == {k \in DOMAIN s : s[k] # "" /\ \A j \in 1..k - 1 : s[j] # s[k]}
           same == {k \in DOMAIN s : s[k] = s[n]}
<1>1. Len(s) \in Nat /\ DOMAIN s = 1..Len(s)
  BY PlacesOfSeq
<1>2. I \in SUBSET (DOMAIN s) /\ Distinct(s) = Picked(s, I)
  BY DEF Distinct
<1>3. same \in SUBSET Nat /\ n \in same
  <2>1. \A k \in DOMAIN s : k \in Nat
    BY ONLY <1>1
  <2> QED
    BY ONLY <2>1, n \in DOMAIN s
<1>4. PICK k \in same : \A j \in same : k <= j
  <2> HIDE DEF same
  <2> QED
    BY <1>3, LeastNumber
<1>5. k \in I
  <2>1. k \in DOMAIN s /\ k \in 1..Len(s) /\ s[k] = s[n] /\ k \in Nat
    <3>1. k \in DOMAIN s /\ s[k] = s[n]
      BY ONLY <1>4
    <3> QED
      BY ONLY <1>1, <3>1
  <2>2. ASSUME NEW j \in 1..k - 1, s[j] = s[k]
        PROVE  FALSE
    <3>1. j \in Nat /\ j < k /\ j \in DOMAIN s
      BY ONLY <1>1, <2>1, j \in 1..k - 1
    <3>2. j \in same
      BY ONLY <2>1, <2>2, <3>1 DEF same
    <3>3. k <= j
      <4> HIDE DEF same
      <4> QED
        BY <1>4, <3>2
    <3> QED
      BY ONLY <2>1, <3>1, <3>3
  <2> QED
    BY <2>1, <2>2
<1> HIDE DEF I
<1>6. Picked(s, I) \in Seq(ValueSet) /\ Len(Picked(s, I)) >= 1
  BY <1>2, <1>5, PickedPlaces, PickedRange
<1>7. Picked(s, I) # <<>>
  <2> DEFINE r == Picked(s, I)
  <2>1. r \in Seq(ValueSet) /\ Len(r) >= 1
    BY <1>6
  <2> HIDE DEF r
  <2>2. r # <<>>
    BY ONLY <2>1
  <2> QED
    BY <2>2 DEF r
<1> QED
  BY <1>2, <1>6, <1>7

\* lists the comparison products
LEMMA ListProductsSame ==
  ASSUME IsNormal(form), NEW values \in Lists, NEW append \in BOOLEAN, ListProducts(values, append)
  PROVE  SameStep
<1> DEFINE Q == form.products
           D == [k \in DOMAIN Q |-> Q[k].drawing]
           A == IF append THEN D ELSE <<>>
           s == A \o values
           all == Distinct(s)
           P == [k \in DOMAIN all |-> Product(k - 1, all[k])]
<1>1. form \in FormSet /\ SameCards(form, form) /\ Q \in Seq(ProductsSet)
  BY FormFacts
<1>2. WithProducts(form, values, append) = [form EXCEPT !.products = P]
  BY DEF WithProducts, Mapped
<1>3. form' = Normal([form EXCEPT !.products = P]) /\ shown' = shown
  BY <1>2 DEF ListProducts, ChatApplies
<1>4. A \in Seq(ValueSet)
  <2>1. \A k \in DOMAIN Q : Q[k] \in ProductsSet
    BY <1>1, PlacesOfSeq
  <2>2. D = [k \in DOMAIN Q |-> D[k]] /\ \A k \in DOMAIN Q : D[k] \in ValueSet
    BY <2>1 DEF ProductsSet
  <2> HIDE DEF D, Q
  <2>3. D \in Seq(ValueSet)
    BY ONLY <1>1, <2>2, AsMany
  <2> QED
    BY <2>3
<1>5. values \in Seq(ValueSet) /\ Len(values) \in Nat /\ Len(values) >= 1 /\ values[1] # ""
  BY ListsAre
<1> HIDE DEF A
<1>6. s \in Seq(ValueSet) /\ Len(A) + 1 \in DOMAIN s /\ s[Len(A) + 1] # ""
  <2>1. A \in Seq(ValueSet) /\ values \in Seq(ValueSet)
    BY <1>4, <1>5
  <2>2. /\ s \in Seq(ValueSet) /\ Len(s) = Len(A) + Len(values)
        /\ \A i \in 1..Len(A) + Len(values) :
             s[i] = IF i <= Len(A) THEN A[i] ELSE values[i - Len(A)]
    BY ONLY <2>1, ConcatProperties DEF s
  <2>3. Len(A) \in Nat
    BY <1>4
  <2> HIDE DEF s
  <2>4. Len(A) + 1 \in 1..Len(A) + Len(values)
    <3> DEFINE a == Len(A)
               n == Len(values)
    <3>1. a \in Nat /\ n \in Nat /\ n >= 1
      BY <1>5, <2>3
    <3> HIDE DEF a, n
    <3>2. a + 1 \in 1..a + n
      BY <3>1
    <3> QED
      BY <3>2 DEF a, n
  <2>5. s[Len(A) + 1] = values[(Len(A) + 1) - Len(A)]
    BY <2>2, <2>3, <2>4
  <2>6. (Len(A) + 1) - Len(A) = 1
    BY <2>3
  <2>7. DOMAIN s = 1..Len(A) + Len(values)
    BY <2>2, PlacesOfSeq
  <2> QED
    BY <1>5, <2>2, <2>4, <2>5, <2>6, <2>7
<1> HIDE DEF s
<1>7. all \in Seq(ValueSet) /\ all # <<>>
  BY <1>6, DistinctAre
<1> HIDE DEF all
<1>8. P \in Seq(ProductsSet) /\ P # <<>>
  <2>1. DOMAIN all = 1..Len(all) /\ Len(all) \in Nat /\ \A k \in DOMAIN all : all[k] \in ValueSet
    BY <1>7, PlacesOfSeq
  <2>2. ASSUME NEW k \in DOMAIN all
        PROVE  P[k] \in ProductsSet
    <3>1. k - 1 \in Nat
      BY <2>1
    <3>2. all[k] \in ValueSet /\ P[k] = Product(k - 1, all[k])
      BY <2>1
    <3>3. Product(k - 1, all[k]) \in ProductsSet
      <4> DEFINE i == k - 1
                 v == all[k]
      <4>1. i \in Nat /\ v \in ValueSet
        BY <3>1, <3>2
      <4> HIDE DEF i, v
      <4>2. Product(i, v) \in ProductsSet
        BY <4>1 DEF Product, ProductsSet, ValueSet
      <4> QED
        BY <4>2 DEF i, v
    <3> QED
      BY <3>2, <3>3
  <2>3. P = [k \in DOMAIN all |-> P[k]]
    OBVIOUS
  <2> HIDE DEF P
  <2>4. /\ all \in Seq(ValueSet) /\ all # <<>> /\ P = [k \in DOMAIN all |-> P[k]]
        /\ \A k \in DOMAIN all : P[k] \in ProductsSet
    BY <1>7, <2>2, <2>3
  <2> QED
    BY ONLY <2>4, AsMany
<1> HIDE DEF P
<1> QED
  BY <1>1, <1>3, <1>8, ProductsWritten

\* or writes the fans of a card.
LEMMA WriteFansSame ==
  ASSUME IsNormal(form), NEW c, NEW values \in Lists, NEW mode \in {"", "common", "individual"},
         NEW places \in {<<>>, [k \in DOMAIN values |-> CHOOSE v \in Texts : TRUE]},
         WriteFans(c, values, places, mode)
  PROVE  SameStep
<1> DEFINE cards == form.cards
           E(d) == Refanned(d, values, places, mode)
           C == [k \in DOMAIN cards |->
                   IF cards[k].type = c.type /\ cards[k].id = c.id THEN E(cards[k]) ELSE cards[k]]
<1>1. values \in Seq(Texts) /\ Len(values) >= 1 /\ mode \in ModeSet
      /\ (places = <<>> \/ \A k \in DOMAIN values : places[k] \in ValueSet)
  <2>1. /\ values \in Seq(Texts) /\ Len(values) \in Nat
        /\ Len(values) >= 1 /\ DOMAIN values = 1..Len(values)
        /\ \A k \in DOMAIN values : values[k] \in Texts
    BY ListsAre
  <2> DEFINE t == CHOOSE v \in Texts : TRUE
  <2>2. \E v : v \in Texts /\ TRUE
    <3>1. values[1] \in Texts
      BY <2>1, ListsAre
    <3> QED
      BY ONLY <3>1
  <2>3. t \in Texts
    BY <2>2, Zenon
  <2>4. t \in ValueSet /\ places \in {<<>>, [k \in DOMAIN values |-> t]}
    BY <2>3 DEF ValueSet
  <2> HIDE DEF t
  <2>5. places = <<>> \/ \A k \in DOMAIN values : places[k] \in ValueSet
    BY <2>4
  <2>6. mode \in ModeSet
    BY DEF ModeSet
  <2>7. Len(values) >= 1
    BY ONLY <2>1
  <2> QED
    BY ONLY <2>1, <2>5, <2>6, <2>7
<1>2. ASSUME NEW d \in CardSet, d.type = c.type
      PROVE  Twin(E(d), d)
  <2>1. d.type = "operating"
    BY <1>2 DEF WriteFans
  <2>2. /\ d \in CardSet /\ d.type = "operating" /\ values \in Seq(Texts) /\ Len(values) >= 1
        /\ (places = <<>> \/ \A k \in DOMAIN values : places[k] \in ValueSet)
        /\ mode \in ModeSet
    BY <1>1, <2>1
  <2> QED
    BY ONLY <2>2, RefannedTwin
<1>3. form' = Normal([form EXCEPT !.cards = C]) /\ shown' = shown
  BY DEF WriteFans, ChatApplies, WithFans, WithCard, Mapped, Refanned
<1> HIDE DEF E
<1>4. C = [k \in DOMAIN cards |-> C[k]] /\ \A k \in DOMAIN cards : Twin(C[k], cards[k])
  <2>1. \A k \in DOMAIN cards : cards[k] \in CardSet
    BY FormFacts
  <2>2. \A d \in CardSet : Twin(d, d)
    BY DEF Twin
  <2> HIDE DEF cards
  <2> QED
    BY <1>2, <2>1, <2>2
<1> HIDE DEF C
<1>5. form.locked
  BY DEF WriteFans, FansAccepted
<1> QED
  BY <1>3, <1>4, <1>5, CardsWritten

\* The first card of a kind is emptied.
LEMMA RemoveFirstSame ==
  ASSUME IsNormal(form), form.locked, NEW c, c = Siblings(c)[1], RemoveCard(c)
  PROVE  SameStep
<1> DEFINE cards == Collected.cards
           C == [k \in DOMAIN cards |->
                   IF cards[k].type = c.type /\ cards[k].id = c.id THEN Emptied(cards[k]) ELSE cards[k]]
<1>1. \E slot : PageSaves([Collected EXCEPT !.cards = C], slot)
  BY DEF RemoveCard, WithCard, Mapped
<1>2. C = [k \in DOMAIN cards |-> C[k]] /\ \A k \in DOMAIN cards : Twin(C[k], cards[k])
  <2>1. \A k \in DOMAIN cards : cards[k] \in CardSet
    BY CollectedCardsAre
  <2>2. \A d \in CardSet : Twin(d, d) /\ Twin(Emptied(d), d)
    BY EmptiedTwin DEF Twin
  <2> HIDE DEF cards
  <2> QED
    BY <2>1, <2>2
<1> HIDE DEF C
<1> QED
  BY <1>1, <1>2, CardsSaved

-----------------------------------------------------------------------------
(* Every step writes a normal form.                                        *)

(***************************************************************************)
(* Between steps the form is a normal form, the page shows one of its      *)
(* scopes, and until the context is confirmed no condition is filled in.   *)
(***************************************************************************)
WriteInvariant ==
  /\ IsNormal(form)
  /\ shown \in Range(form.context.scopes)
  /\ form.locked \/ \A k \in DOMAIN form.cards : ~HasContent(form.cards[k])

\* No card is lost.
CardsStay ==
  \A k \in DOMAIN form.cards : \E m \in DOMAIN form'.cards :
    form'.cards[m].type = form.cards[k].type /\ form'.cards[m].id = form.cards[k].id

\* A step that writes a form leaves a normal one, of its scopes and without content if it is.
LEMMA NormalStep ==
  ASSUME NEW next \in FormSet, form' = Normal(next), shown' \in Range(next.context.scopes),
         next.locked \/ \A k \in DOMAIN next.cards : ~HasContent(next.cards[k])
  PROVE  WriteInvariant'
<1> DEFINE h == Normal(next)
<1>1. /\ IsNormal(h)
      /\ (\A k \in DOMAIN next.cards : ~HasContent(next.cards[k])) =>
           \A n \in DOMAIN h.cards : ~HasContent(h.cards[n])
  BY NormalIs
<1>2. h.context = next.context /\ h.locked = next.locked
  BY NormalParts DEF NormalOf
<1>3. form' = h
  OBVIOUS
<1> HIDE DEF h
<1>4. IsNormal(form')
  BY <1>1, <1>3
<1>5. (shown \in Range(form.context.scopes))'
  BY <1>2, <1>3
<1>6. form'.locked \/ \A k \in DOMAIN form'.cards : ~HasContent(form'.cards[k])
  <2>1. h.locked \/ \A n \in DOMAIN h.cards : ~HasContent(h.cards[n])
    BY <1>1, <1>2
  <2> QED
    BY <1>3, <2>1
<1> QED
  BY <1>4, <1>5, <1>6 DEF WriteInvariant

\* A card whose kind is settled in what is written.
LEMMA CardStays ==
  ASSUME NEW next \in FormSet, form' = Normal(next), NEW k \in DOMAIN next.cards,
         next.cards[k].type \in next.context.types,
         next.cards[k].scope \in Range(next.context.scopes),
         Settled(next, next.cards[k].type)
  PROVE  \E m \in DOMAIN form'.cards :
           form'.cards[m].type = next.cards[k].type /\ form'.cards[m].id = next.cards[k].id
<1> DEFINE c == next.cards[k]
           h == Normal(next)
<1>1. PICK m \in DOMAIN h.cards : h.cards[m] = NormalCard(c, c.scope)
  BY CardKept
<1>2. c \in CardSet
  <2>1. next.cards \in Seq(CardSet)
    BY FormIs
  <2> QED
    BY <2>1, PlacesOfSeq
<1>3. c.scope \in ScopeSet
  BY <1>2, CardIs DEF CardParts
<1> HIDE DEF c
<1>4. NormalCard(c, c.scope).id = c.id /\ NormalCard(c, c.scope).type = c.type
  BY <1>2, <1>3, NormalCardIs DEF Made
<1>5. form' = h
  OBVIOUS
<1> HIDE DEF h
<1> QED
  BY <1>1, <1>4, <1>5 DEF c

\* A step that leaves every card its place.
LEMMA SameStepIs ==
  ASSUME WriteInvariant, SameStep
  PROVE  WriteInvariant' /\ CardsStay
<1>1. IsNormal(form) /\ shown' = shown
  BY DEF WriteInvariant, SameStep
<1>2. PICK next \in FormSet : /\ SameCards(next, form) /\ next.locked = form.locked
                              /\ form.locked \/ next.cards = form.cards
                              /\ form' = Normal(next)
  BY DEF SameStep
<1>3. WriteInvariant'
  <2>1. shown' \in Range(next.context.scopes)
    BY <1>1, <1>2 DEF WriteInvariant, SameCards
  <2>2. next.locked \/ \A k \in DOMAIN next.cards : ~HasContent(next.cards[k])
    BY <1>2 DEF WriteInvariant
  <2> QED
    BY <1>2, <2>1, <2>2, NormalStep
<1>4. ASSUME NEW k \in DOMAIN form.cards
      PROVE  \E m \in DOMAIN form'.cards :
               form'.cards[m].type = form.cards[k].type /\ form'.cards[m].id = form.cards[k].id
  <2>1. /\ next.cards[k].type \in next.context.types
        /\ next.cards[k].scope \in Range(next.context.scopes)
        /\ Settled(next, next.cards[k].type)
    BY <1>1, <1>2, SameCardsSettled
  <2>2. k \in DOMAIN next.cards /\ next.cards[k].id = form.cards[k].id
        /\ next.cards[k].type = form.cards[k].type
    BY <1>2 DEF SameCards
  <2>3. \E m \in DOMAIN form'.cards :
           form'.cards[m].type = next.cards[k].type /\ form'.cards[m].id = next.cards[k].id
    BY <1>2, <2>1, <2>2, CardStays
  <2> QED
    BY <2>2, <2>3
<1> QED
  BY <1>3, <1>4 DEF CardsStay

\* The first form.
LEMMA NewFormIs ==
  ASSUME WritesInit
  PROVE  WriteInvariant
<1> DEFINE raw == [general  |-> [f \in Range(General) |-> ""],
                   products |-> <<Product(0, "")>>,
                   cards    |-> <<>>,
                   context  |-> NoContext,
                   locked   |-> FALSE]
<1>1. raw \in FormSet
  <2> DEFINE Ps == Seq(ProductsSet) \ {<<>>}
             Cs == Seq(CardSet)
  <2>1. [f \in Range(General) |-> ""] \in GeneralSet
    BY DEF GeneralSet
  <2>2. <<Product(0, "")>> \in Ps
    <3>1. Product(0, "") \in ProductsSet
      BY DEF Product, ProductsSet, ValueSet
    <3> DEFINE p == Product(0, "")
    <3>2. p \in ProductsSet
      BY <3>1
    <3> HIDE DEF p
    <3>3. <<p>> \in Seq(ProductsSet) /\ <<p>> # <<>>
      BY ONLY <3>2
    <3> QED
      BY <3>3 DEF p
  <2>3. <<>> \in Cs
    OBVIOUS
  <2>4. NoContext \in ContextSet
    BY DEF ContextSet
  <2> HIDE DEF Ps, Cs
  <2>5. raw \in [general : GeneralSet, products : Ps, cards : Cs, context : ContextSet,
                 locked : BOOLEAN]
    BY <2>1, <2>2, <2>3, <2>4
  <2> QED
    BY <2>5 DEF FormSet, Ps, Cs
<1>2. raw.context = NoContext /\ DOMAIN raw.cards = {}
  OBVIOUS
<1>3. form = Normal(raw) /\ shown = ""
  BY DEF WritesInit, NewForm
<1> HIDE DEF raw
<1>4. /\ IsNormal(Normal(raw))
      /\ \A n \in DOMAIN Normal(raw).cards : ~HasContent(Normal(raw).cards[n])
  BY <1>1, <1>2, NormalIs
<1>5. Normal(raw).context = NoContext
  BY <1>1, <1>2, NormalParts DEF NormalOf
<1>6. shown \in Range(NoContext.scopes)
  <2>1. NoContext.scopes = <<"">>
    BY DEF NoContext
  <2> DEFINE x == ""
             ss == <<x>>
  <2>2. 1 \in DOMAIN ss /\ ss[1] = x
    BY ONLY x = x
  <2> HIDE DEF x
  <2>3. x \in Range(ss)
    BY <2>2 DEF Range
  <2> QED
    BY <1>3, <2>1, <2>3 DEF x
<1> QED
  BY <1>3, <1>4, <1>5, <1>6 DEF WriteInvariant

\* The context is confirmed.
LEMMA ConfirmContextIs ==
  ASSUME WriteInvariant, NEW context \in Contexts, ConfirmContext(context)
  PROVE  WriteInvariant' /\ \A k \in DOMAIN form.cards : ~HasContent(form.cards[k])
<1> DEFINE next == [form EXCEPT !.context = context, !.locked = TRUE]
<1>1. form \in FormSet
  BY DEF WriteInvariant, IsNormal
<1>2. next \in FormSet /\ next.context = context /\ next.locked = TRUE
  <2> DEFINE Ps == Seq(ProductsSet) \ {<<>>}
             Cs == Seq(CardSet)
  <2>1. form \in [general : GeneralSet, products : Ps, cards : Cs, context : ContextSet,
                  locked : BOOLEAN]
    BY <1>1 DEF FormSet
  <2>2. context \in ContextSet
    BY DEF ContextSet
  <2> HIDE DEF Ps, Cs
  <2>3. /\ next \in [general : GeneralSet, products : Ps, cards : Cs, context : ContextSet,
                     locked : BOOLEAN]
        /\ next.context = context /\ next.locked = TRUE
    BY ONLY <2>1, <2>2
  <2> HIDE DEF next
  <2> QED
    BY <2>3 DEF FormSet, Ps, Cs
<1>3. form' = Normal(next) /\ shown' = context.scopes[1] /\ ~form.locked
  BY DEF ConfirmContext, ChatApplies
<1> HIDE DEF next
<1>4. shown' \in Range(next.context.scopes)
  <2>1. context \in ContextSet
    BY DEF ContextSet
  <2>2. context.scopes[1] \in Range(context.scopes)
    BY <2>1, ScopesAre
  <2> QED
    BY <1>2, <1>3, <2>2
<1>5. WriteInvariant'
  BY <1>2, <1>3, <1>4, NormalStep
<1> QED
  BY <1>3, <1>5 DEF WriteInvariant

\* A normal form is a form of the type.
LEMMA WriteTypes ==
  ASSUME WriteInvariant
  PROVE  WritesTypeOK
<1>1. IsNormal(form) /\ shown \in Range(form.context.scopes) /\ form \in FormSet
  BY DEF WriteInvariant, IsNormal
<1>2. /\ form.general \in GeneralSet
      /\ form.products \in Seq(ProductsSet) /\ form.products # <<>>
      /\ form.cards \in Seq(CardSet)
      /\ form.context \in ContextSet
  BY <1>1, FormIs
<1>3. Len(form.products) >= 1
  <2>1. Len(form.products) \in Nat /\ Len(form.products) # 0
    BY <1>2, NotEmpty
  <2> DEFINE n == Len(form.products)
  <2> HIDE DEF n
  <2>2. n >= 1
    BY ONLY <2>1 DEF n
  <2> QED
    BY <2>2 DEF n
<1>4. \A s \in Range(form.context.scopes), t \in form.context.types :
        \E c \in Range(form.cards) : c.scope = s /\ c.type = t
  <2>1. \A s \in Range(form.context.scopes), t \in form.context.types :
          \E k \in DOMAIN form.cards : form.cards[k].scope = s /\ form.cards[k].type = t
    BY <1>1 DEF IsNormal, EveryGroup
  <2>2. \A k \in DOMAIN form.cards : form.cards[k] \in Range(form.cards)
    BY DEF Range
  <2> QED
    BY <2>1, <2>2
<1>5. ASSUME NEW c \in Range(form.cards)
      PROVE  /\ c.type \in form.context.types
             /\ (c.type = "operating") = (c.fans # <<>>)
             /\ Len(c.fans) = 1 => c.mode = ""
  <2>1. PICK k \in DOMAIN form.cards : c = form.cards[k]
    BY DEF Range
  <2>2. c \in CardSet
    BY <1>2, <2>1, PlacesOfSeq
  <2>3. CardKnown(form, c)
    BY <1>1, <2>1 DEF IsNormal
  <2>4. (c.type = "operating") = (c.fans # <<>>)
    BY <2>2, CardIs DEF CardParts
  <2> QED
    BY <2>3, <2>4 DEF CardKnown
<1> QED
  BY <1>1, <1>2, <1>3, <1>4, <1>5 DEF WritesTypeOK, GeneralSet, ContextSet

-----------------------------------------------------------------------------
(* Cards that come and go.                                                 *)

\* A number that no card of a kind has.
LEMMA NextIdIs ==
  ASSUME NEW cards \in Seq(CardSet), NEW t
  PROVE  LET new == NextId(Ids(Picked(cards, OfType(cards, t)))) IN
         /\ new \in Nat /\ new # 0
         /\ \A k \in DOMAIN cards : cards[k].type = t => cards[k].id < new
<1> DEFINE I == OfType(cards, t)
           own == Picked(cards, I)
           T == Ids(own)
           U == T \union {1}
           id == [j \in DOMAIN own |-> own[j].id]
<1>1. /\ I \in SUBSET (DOMAIN cards)
      /\ \A k \in DOMAIN cards : cards[k].type = t => k \in I
  BY OfTypeIs
<1>2. own \in Seq(CardSet) /\ \A i \in I : \E j \in DOMAIN own : own[j] = cards[i]
  <2> HIDE DEF I
  <2> QED
    BY <1>1, PickedPlaces, PickedRange
<1> HIDE DEF own
<1>3. IsFiniteSet(DOMAIN own) /\ \A j \in DOMAIN own : own[j] \in CardSet
  BY <1>2, PlacesOfSeq
<1>4. \A j \in DOMAIN own : own[j].id \in Nat
  BY <1>3, CardIs DEF CardParts
<1>5. T = {own[j].id : j \in DOMAIN own}
  BY DEF Ids
<1>6. id \in Surjection(DOMAIN own, T)
  BY <1>5 DEF Surjection
<1>7. \A j \in DOMAIN own : own[j].id \in T
  BY <1>5
<1>8. T \in SUBSET Nat
  BY <1>4, <1>5
<1> HIDE DEF T, id
<1>9. IsFiniteSet(T)
  BY <1>3, <1>6, FS_Surjection
<1>10. U \in SUBSET Nat /\ U # {} /\ IsFiniteSet(U) /\ T \subseteq U
  BY <1>8, <1>9, FS_AddElement
<1> DEFINE top == Max(U)
<1>11. NextId(T) = top + 1
  BY DEF NextId
<1> HIDE DEF U
<1>12. top \in U /\ \A y \in U : y <= top
  BY <1>10, MaxIs
<1>13. top \in Nat
  BY <1>10, <1>12
<1> HIDE DEF top
<1>14. top + 1 \in Nat /\ top + 1 # 0
  BY ONLY <1>13
<1>15. ASSUME NEW k \in DOMAIN cards, cards[k].type = t
       PROVE  cards[k].id < top + 1
  <2>1. PICK j \in DOMAIN own : own[j] = cards[k]
    BY <1>1, <1>2, <1>15
  <2> DEFINE i == cards[k].id
  <2>2. i \in Nat /\ i <= top
    BY <1>4, <1>7, <1>10, <1>12, <2>1
  <2> HIDE DEF i
  <2>3. i < top + 1
    BY ONLY <1>13, <2>2
  <2> QED
    BY <2>3 DEF i
<1> QED
  BY <1>11, <1>14, <1>15 DEF T, own

\* Adding a card on the page loses none.
LEMMA AddCardIs ==
  ASSUME WriteInvariant, NEW c \in Range(form.cards), AddCard(c), form.locked
  PROVE  WriteInvariant' /\ CardsStay
<1> DEFINE g == Collected
           Q == g.cards
           new == NextId(Ids(CardsOf(form, c.type)))
           n == [Emptied(c) EXCEPT !.id = new]
           C == Append(Q, n)
           next == [g EXCEPT !.cards = C]
<1>1. /\ IsNormal(form) /\ form.cards \in Seq(CardSet)
      /\ \A k \in DOMAIN form.cards : form.cards[k] \in CardSet
  BY FormFacts DEF WriteInvariant
<1>2. g \in FormSet /\ SameCards(g, form) /\ g.locked = form.locked
  BY <1>1, CollectedFacts
<1>3. c \in CardSet
  BY <1>1 DEF Range
<1>4. /\ new \in Nat /\ new # 0
      /\ \A k \in DOMAIN form.cards : form.cards[k].type = c.type => form.cards[k].id < new
  BY <1>1, NextIdIs DEF CardsOf
<1>5. form' = Normal(next) /\ shown' = shown
  BY DEF AddCard, PageSaves
<1> HIDE DEF new
<1>6. n \in CardSet /\ n.id = new /\ n.type = c.type /\ n.scope = c.scope
  <2> DEFINE e == Emptied(c)
  <2>1. e \in CardSet /\ e.type = c.type /\ e.scope = c.scope
    BY <1>3, EmptiedTwin DEF Twin
  <2> HIDE DEF e
  <2>2. CardParts(e.id, e.type, e.scope, e.hex, e.mode, e.fields, e.fans)
    BY <2>1, CardIs
  <2>3. CardParts(new, e.type, e.scope, e.hex, e.mode, e.fields, e.fans)
    BY <1>4, <2>2 DEF CardParts
  <2>4. Made([e EXCEPT !.id = new], new, e.type, e.scope, e.hex, e.mode, e.fields, e.fans)
    BY <2>1, <2>3, CardWithId
  <2> QED
    BY <2>1, <2>4 DEF Made, e
<1> HIDE DEF n, g
<1>7. Q \in Seq(CardSet)
  BY <1>2, FormIs
<1>8. Len(Q) \in Nat /\ DOMAIN Q = 1..Len(Q)
  BY <1>7, PlacesOfSeq
<1> HIDE DEF Q
<1>9. /\ C \in Seq(CardSet) /\ Len(C) = Len(Q) + 1
      /\ \A k \in 1..Len(Q) : C[k] = Q[k]
      /\ C[Len(Q) + 1] = n
  BY ONLY <1>6, <1>7, AppendProperties DEF C
<1>10. DOMAIN C = 1..Len(Q) + 1
  BY <1>9, PlacesOfSeq
<1> HIDE DEF C
<1>11. next \in FormSet /\ next.cards = C /\ next.context = g.context /\ next.locked = g.locked
  BY <1>2, <1>9, FormWithCards
<1> HIDE DEF next
<1>12. next.context = form.context /\ Q = g.cards
  BY <1>2, <1>11 DEF SameCards, Q
<1>13. WriteInvariant'
  BY <1>2, <1>5, <1>11, <1>12, NormalStep DEF WriteInvariant
<1>14. ASSUME NEW k \in DOMAIN C
       PROVE  \/ /\ k \in DOMAIN Q /\ k \in DOMAIN form.cards
                 /\ C[k].id = form.cards[k].id /\ C[k].type = form.cards[k].type
                 /\ C[k].scope = form.cards[k].scope
              \/ k = Len(Q) + 1 /\ C[k] = n
  <2>1. k \in 1..Len(Q) \/ k = Len(Q) + 1
    BY <1>8, <1>10
  <2>2. CASE k \in 1..Len(Q)
    <3>1. C[k] = g.cards[k] /\ k \in DOMAIN Q
      BY <1>8, <1>9, <1>12, <2>2
    <3> QED
      BY <1>2, <1>12, <3>1 DEF SameCards
  <2>3. CASE k = Len(Q) + 1
    BY <1>9, <2>3
  <2> QED
    BY <2>1, <2>2, <2>3
<1>15. ASSUME NEW k \in DOMAIN form.cards
       PROVE  /\ k \in DOMAIN C /\ C[k].id = form.cards[k].id /\ C[k].type = form.cards[k].type
              /\ C[k].scope = form.cards[k].scope
  <2>1. k \in DOMAIN Q
    BY <1>2, <1>12 DEF SameCards
  <2>2. k \in DOMAIN C /\ k # Len(Q) + 1
    BY <1>8, <1>10, <2>1
  <2> QED
    BY <1>14, <2>2
<1>16. /\ OneId(form.cards) /\ EveryGroup(form)
       /\ \A k \in DOMAIN form.cards : CardKnown(form, form.cards[k])
  BY <1>1 DEF IsNormal
<1>17. ASSUME NEW t \in form.context.types
       PROVE  Settled(next, t)
  <2>1. ASSUME NEW j \in DOMAIN C, NEW k \in DOMAIN C, C[j].type = t, C[k].type = t, C[j].id = C[k].id
        PROVE  j = k
    <3>1. ASSUME NEW i \in DOMAIN form.cards, form.cards[i].type = c.type
          PROVE  form.cards[i].id # new
      <4> DEFINE a == form.cards[i].id
      <4>1. a < new /\ a \in Nat
        BY <1>1, <1>4, <3>1, CardIs DEF CardParts
      <4> HIDE DEF a
      <4>2. a # new
        BY ONLY <1>4, <4>1
      <4> QED
        BY <4>2 DEF a
    <3>2. CASE j \in DOMAIN form.cards /\ C[j].id = form.cards[j].id /\ C[j].type = form.cards[j].type
             /\ k \in DOMAIN form.cards /\ C[k].id = form.cards[k].id /\ C[k].type = form.cards[k].type
      BY <1>16, <2>1, <3>2 DEF OneId
    <3>3. CASE j \in DOMAIN form.cards /\ C[j].id = form.cards[j].id /\ C[j].type = form.cards[j].type
             /\ C[k] = n
      BY <1>6, <2>1, <3>1, <3>3
    <3>4. CASE k \in DOMAIN form.cards /\ C[k].id = form.cards[k].id /\ C[k].type = form.cards[k].type
             /\ C[j] = n
      BY <1>6, <2>1, <3>1, <3>4
    <3>5. CASE j = Len(Q) + 1 /\ k = Len(Q) + 1
      BY <3>5
    <3> QED
      BY <1>14, <3>2, <3>3, <3>4, <3>5
  <2>2. \A k \in DOMAIN C : C[k].type = t => C[k].id # 0
    BY <1>4, <1>6, <1>14, <1>16 DEF CardKnown
  <2>3. \A s \in Range(form.context.scopes) : \E k \in DOMAIN C : C[k].type = t /\ C[k].scope = s
    <3>1. \A s \in Range(form.context.scopes) :
            \E k \in DOMAIN form.cards : form.cards[k].scope = s /\ form.cards[k].type = t
      BY <1>16 DEF EveryGroup
    <3> QED
      BY <1>15, <3>1
  <2> QED
    BY <1>11, <1>12, <2>1, <2>2, <2>3 DEF Settled
<1>18. ASSUME NEW k \in DOMAIN form.cards
       PROVE  \E m \in DOMAIN form'.cards :
                form'.cards[m].type = form.cards[k].type /\ form'.cards[m].id = form.cards[k].id
  <2>1. form.cards[k].type \in form.context.types /\ form.cards[k].scope \in Range(form.context.scopes)
    BY <1>16 DEF CardKnown
  <2>2. /\ k \in DOMAIN next.cards /\ next.cards[k].id = form.cards[k].id
        /\ next.cards[k].type = form.cards[k].type
        /\ next.cards[k].type \in next.context.types
        /\ next.cards[k].scope \in Range(next.context.scopes)
        /\ Settled(next, next.cards[k].type)
    BY <1>11, <1>12, <1>15, <1>17, <2>1
  <2>3. \E m \in DOMAIN form'.cards :
           form'.cards[m].type = next.cards[k].type /\ form'.cards[m].id = next.cards[k].id
    BY <1>5, <1>11, <2>2, CardStays
  <2> QED
    BY <2>2, <2>3
<1> QED
  BY <1>13, <1>18 DEF CardsStay

\* When all kinds are settled there is a place for each card, and no other.
LEMMA SettledLength ==
  ASSUME NEW g \in FormSet, \A t \in g.context.types : Settled(g, t),
         \A k \in DOMAIN g.cards : /\ g.cards[k].type \in g.context.types
                                   /\ g.cards[k].scope \in Range(g.context.scopes)
  PROVE  Len(Normal(g).cards) = Len(g.cards)
<1> DEFINE I == CardPlaces(g)
           D == DOMAIN g.cards
           f == [p \in I |-> p[3]]
<1>1. g.context \in ContextSet /\ g.cards \in Seq(CardSet)
  BY FormIs
<1>2. ASSUME NEW p \in I
      PROVE  /\ p = <<p[1], p[2], p[3]>>
             /\ p[1] \in DOMAIN g.context.scopes /\ p[2] \in DOMAIN CardTypes
             /\ p[3] \in D /\ g.cards[p[3]].type = CardTypes[p[2]]
             /\ ScopeOf(g.cards[p[3]], g.context.scopes) = g.context.scopes[p[1]]
  <2>1. /\ p = <<p[1], p[2], p[3]>>
        /\ p[1] \in DOMAIN g.context.scopes /\ Requested(g, p[2])
    BY PlacesKnown
  <2>2. Settled(g, CardTypes[p[2]]) /\ p[2] \in DOMAIN CardTypes
    BY <2>1 DEF Requested
  <2> QED
    BY <2>1, <2>2, SettledPlaces
<1>3. ASSUME NEW p \in I, NEW q \in I, p[3] = q[3]
      PROVE  p = q
  <2>1. CardTypes[p[2]] = CardTypes[q[2]] /\ g.context.scopes[p[1]] = g.context.scopes[q[1]]
    BY <1>2, <1>3
  <2>2. p[2] = q[2]
    BY <1>2, <2>1, KindsAre
  <2>3. p[1] = q[1]
    BY <1>1, <1>2, <2>1, ContextIs
  <2>4. p = <<p[1], p[2], p[3]>> /\ q = <<q[1], q[2], q[3]>>
    BY <1>2
  <2> QED
    BY ONLY <1>3, <2>2, <2>3, <2>4
<1>4. ASSUME NEW k \in D
      PROVE  \E p \in I : p[3] = k
  <2>1. PICK i \in DOMAIN g.context.scopes, t \in DOMAIN CardTypes : <<i, t, k>> \in I
    BY PlaceOfCard
  <2> DEFINE p == <<i, t, k>>
  <2>2. p[3] = k
    OBVIOUS
  <2> QED
    BY <2>1, <2>2
<1>5. IsFiniteSet(I)
  BY PlacesFinite
<1>6. IsFiniteSet(D) /\ Cardinality(D) = Len(g.cards)
  BY <1>1, PlacesOfSeq
<1> HIDE DEF I, D
<1>7. f \in Bijection(I, D)
  <2>1. f \in [I -> D]
    BY <1>2
  <2>2. \A p, q \in I : f[p] = f[q] => p = q
    BY <1>3
  <2>3. \A k \in D : \E p \in I : f[p] = k
    BY <1>4
  <2> HIDE DEF f
  <2> QED
    BY ONLY <2>1, <2>2, <2>3 DEF Bijection, Injection, Surjection, IsInjective
<1> HIDE DEF f
<1>8. Cardinality(I) = Cardinality(D)
  <2>1. ExistsBijection(I, D)
    BY <1>7 DEF ExistsBijection
  <2> QED
    BY <1>5, <2>1, FS_Bijection
<1>9. PICK order : ArrangedBy(g, order)
  BY ArrangedIs
<1>10. Arranged(g) \in Seq(CardSet) /\ Len(Arranged(g)) = Cardinality(I)
  BY <1>9 DEF ArrangedBy, I
<1>11. Len(Identified(Arranged(g))) = Len(Arranged(g))
  BY <1>10, IdentifiedIs
<1>12. Normal(g).cards = Identified(Arranged(g))
  BY NormalParts DEF NormalOf
<1> QED
  BY <1>6, <1>8, <1>10, <1>11, <1>12

\* A card that is not the first of its kind is taken away.
LEMMA RemoveOtherIs ==
  ASSUME WriteInvariant, NEW c \in Range(form.cards), c # Siblings(c)[1], RemoveCard(c),
         form.locked
  PROVE  WriteInvariant' /\ Len(form'.cards) = Len(form.cards) - 1
<1> DEFINE g == Collected
           Q == g.cards
           J == {k \in DOMAIN Q : ~(Q[k].type = c.type /\ Q[k].id = c.id)}
           C == Picked(Q, J)
           next == [g EXCEPT !.cards = C]
           S == {k \in OfType(form.cards, c.type) : form.cards[k].scope = c.scope}
<1>1. /\ IsNormal(form) /\ form.cards \in Seq(CardSet)
      /\ \A k \in DOMAIN form.cards : form.cards[k] \in CardSet
  BY FormFacts DEF WriteInvariant
<1>2. g \in FormSet /\ SameCards(g, form) /\ g.locked = form.locked
  BY <1>1, CollectedFacts
<1>3. PICK i \in DOMAIN form.cards : c = form.cards[i]
  BY DEF Range
<1>4. /\ OneId(form.cards) /\ EveryGroup(form)
      /\ \A k \in DOMAIN form.cards : CardKnown(form, form.cards[k])
  BY <1>1 DEF IsNormal
<1>5. form' = Normal(next) /\ shown' = shown
  BY DEF RemoveCard, PageSaves
<1>6. \E j \in DOMAIN form.cards : j # i /\ form.cards[j].type = c.type /\ form.cards[j].scope = c.scope
  <2>1. /\ S \in SUBSET (DOMAIN form.cards) /\ i \in S
        /\ \A k \in S : form.cards[k].type = c.type /\ form.cards[k].scope = c.scope
    BY <1>1, <1>3, OfTypeIs
  <2>2. Siblings(c) = Picked(form.cards, S)
    BY DEF Siblings
  <2> DEFINE r == Picked(form.cards, S)
  <2> HIDE DEF S
  <2>3. r \in Seq(CardSet) /\ Len(r) >= 1 /\ \A k \in DOMAIN r : \E j \in S : r[k] = form.cards[j]
    BY <1>1, <2>1, PickedPlaces, PickedRange
  <2> HIDE DEF r
  <2>4. 1 \in DOMAIN r
    BY <2>3, PlacesOfSeq
  <2>5. PICK j \in S : r[1] = form.cards[j]
    BY <2>3, <2>4
  <2>6. form.cards[j] # c
    BY <2>2, <2>5 DEF r
  <2> QED
    BY <1>3, <2>1, <2>6
<1> HIDE DEF g
<1>7. Q \in Seq(CardSet)
  BY <1>2, FormIs
<1>8. Len(Q) \in Nat /\ IsFiniteSet(DOMAIN Q) /\ Cardinality(DOMAIN Q) = Len(Q)
  BY <1>7, PlacesOfSeq
<1>9. /\ DOMAIN Q = DOMAIN form.cards
      /\ \A k \in DOMAIN Q : /\ Q[k].id = form.cards[k].id /\ Q[k].type = form.cards[k].type
                             /\ Q[k].scope = form.cards[k].scope
  BY <1>2 DEF SameCards
<1>10. Len(Q) = Len(form.cards)
  BY <1>1, <1>8, <1>9, PlacesOfSeq
<1>11. J \in SUBSET (DOMAIN Q) /\ J = DOMAIN Q \ {i}
  BY <1>3, <1>4, <1>9 DEF OneId
<1>12. IsFiniteSet(J) /\ Cardinality(J) = Len(Q) - 1
  <2> HIDE DEF J, Q
  <2> QED
    BY <1>3, <1>8, <1>9, <1>11, FS_RemoveElement
<1> HIDE DEF J
<1>13. /\ C \in Seq(CardSet) /\ Len(C) = Cardinality(J)
       /\ \E at : Enumerates(at, J) /\ \A k \in DOMAIN C : C[k] = Q[at[k]]
  <2>1. Q \in Seq(CardSet) /\ J \in SUBSET (DOMAIN Q)
    BY <1>7, <1>11
  <2> HIDE DEF Q
  <2> QED
    BY ONLY <2>1, PickedPlaces
<1> HIDE DEF C
<1>14. PICK at : Enumerates(at, J) /\ \A k \in DOMAIN C : C[k] = Q[at[k]]
  BY <1>13
<1>15. DOMAIN C = 1..Cardinality(J)
  BY <1>13, PlacesOfSeq
<1>16. /\ \A k \in DOMAIN C : at[k] \in J
       /\ \A j, k \in DOMAIN C : at[j] = at[k] => j = k
       /\ \A j \in J : \E k \in DOMAIN C : at[k] = j
  BY <1>14, <1>15 DEF Enumerates
<1>17. next \in FormSet /\ next.cards = C /\ next.context = g.context /\ next.locked = g.locked
  BY <1>2, <1>13, FormWithCards
<1> HIDE DEF next
<1>18. next.context = form.context
  BY <1>2, <1>17 DEF SameCards
<1>19. WriteInvariant'
  BY <1>2, <1>5, <1>17, <1>18, NormalStep DEF WriteInvariant
<1>20. ASSUME NEW k \in DOMAIN C
       PROVE  /\ at[k] \in DOMAIN form.cards
              /\ C[k].id = form.cards[at[k]].id /\ C[k].type = form.cards[at[k]].type
              /\ C[k].scope = form.cards[at[k]].scope
  <2>1. at[k] \in DOMAIN Q /\ C[k] = Q[at[k]]
    BY <1>11, <1>14, <1>16
  <2> HIDE DEF Q
  <2> QED
    BY <1>9, <2>1
<1>21. \A k \in DOMAIN C : C[k].type \in form.context.types /\ C[k].scope \in Range(form.context.scopes)
  BY <1>4, <1>20 DEF CardKnown
<1>22. ASSUME NEW t \in form.context.types
       PROVE  Settled(next, t)
  <2>1. \A j, k \in DOMAIN C : C[j].type = t /\ C[k].type = t /\ C[j].id = C[k].id => j = k
    BY <1>4, <1>16, <1>20 DEF OneId
  <2>2. \A k \in DOMAIN C : C[k].type = t => C[k].id # 0
    BY <1>4, <1>20 DEF CardKnown
  <2>3. ASSUME NEW s \in Range(form.context.scopes)
        PROVE  \E k \in DOMAIN C : C[k].type = t /\ C[k].scope = s
    <3>1. PICK k \in DOMAIN form.cards : form.cards[k].scope = s /\ form.cards[k].type = t
      BY <1>4 DEF EveryGroup
    <3>2. PICK j \in DOMAIN form.cards : j # i /\ form.cards[j].scope = s /\ form.cards[j].type = t
      BY <1>3, <1>6, <3>1
    <3>3. j \in J
      BY <1>9, <1>11, <3>2
    <3>4. PICK m \in DOMAIN C : at[m] = j
      BY <1>16, <3>3
    <3> QED
      BY <1>20, <3>2, <3>4
  <2> QED
    BY <1>17, <1>18, <2>1, <2>2, <2>3 DEF Settled
<1>23. Len(Normal(next).cards) = Len(C)
  BY <1>17, <1>18, <1>21, <1>22, SettledLength
<1> QED
  BY <1>5, <1>10, <1>12, <1>13, <1>19, <1>23

-----------------------------------------------------------------------------
(* A series.                                                               *)

\* The first card of a kind.
FirstKind(cards, type) == SelectInSeq(cards, LAMBDA c : c.type = type)
\* The place of the first card of a kind.
LEMMA FirstKindIs ==
  ASSUME NEW cards \in Seq(CardSet), NEW type, OfType(cards, type) # {}
  PROVE  /\ FirstKind(cards, type) \in DOMAIN cards /\ FirstKind(cards, type) \in Nat
         /\ FirstKind(cards, type) >= 1
         /\ cards[FirstKind(cards, type)].type = type
         /\ \A k \in DOMAIN cards : k < FirstKind(cards, type) => cards[k].type # type
<1> DEFINE I == {k \in 1..Len(cards) : cards[k].type = type}
           n == Min(I)
<1>1. FirstKind(cards, type) = IF I # {} THEN n ELSE 0
  BY DEF FirstKind, SelectInSeq
<1>2. DOMAIN cards = 1..Len(cards) /\ Len(cards) \in Nat
  BY PlacesOfSeq
<1>3. I # {} /\ I \in SUBSET Nat
  BY <1>2, OfTypeIs
<1>4. n \in I /\ \A k \in I : n <= k
  <2> HIDE DEF I
  <2> QED
    BY <1>3, MinIs
<1>5. n \in DOMAIN cards /\ cards[n].type = type
  BY <1>2, <1>4
<1> HIDE DEF n
<1>6. n \in Nat /\ n >= 1
  BY <1>2, <1>5
<1>7. ASSUME NEW k \in DOMAIN cards, k < n
      PROVE  cards[k].type # type
  <2>1. k \in Nat /\ ~(n <= k)
    BY <1>2, <1>6, <1>7
  <2>2. k \notin I
    BY <1>4, <2>1
  <2> QED
    BY <1>2, <2>2
<1> QED
  BY <1>1, <1>3, <1>5, <1>6, <1>7

(***************************************************************************)
(* Cards N in the place of those of a kind: what is left of the others is  *)
(* all of them, each once.                                                 *)
(***************************************************************************)
SplicedFrom(D, cards, type, N, src, i) ==
  /\ i \in Nat
  /\ \A n \in DOMAIN D : D[n].type # type => src[n] \in DOMAIN cards /\ D[n] = cards[src[n]]
  /\ \A m, n \in DOMAIN D : D[m].type # type /\ D[n].type # type /\ src[m] = src[n] => m = n
  /\ \A n \in DOMAIN D : D[n].type = type => n \in Nat /\ n - i \in DOMAIN N /\ D[n] = N[n - i]
Spliced(D, cards, type, N) ==
  /\ D \in Seq(CardSet)
  /\ \A k \in DOMAIN cards : cards[k].type # type => \E n \in DOMAIN D : D[n] = cards[k]
  /\ \A j \in DOMAIN N : \E n \in DOMAIN D : D[n] = N[j]
  /\ \E src, i : SplicedFrom(D, cards, type, N, src, i)

\* The cards of a kind, put where its first one was, leave the others there are.
LEMMA SplicedIs ==
  ASSUME NEW cards \in Seq(CardSet), NEW type, NEW at \in DOMAIN cards, at \in Nat, at >= 1,
         \A k \in DOMAIN cards : k < at => cards[k].type # type,
         NEW N \in Seq(CardSet), \A j \in DOMAIN N : N[j].type = type
  PROVE  Spliced(SubSeq(cards, 1, at - 1) \o N
                   \o Picked(cards, {k \in DOMAIN cards : k >= at /\ cards[k].type # type}),
                 cards, type, N)
<1> DEFINE i == at - 1
           R == {k \in DOMAIN cards : k >= at /\ cards[k].type # type}
           A == SubSeq(cards, 1, i)
           B == Picked(cards, R)
           AN == A \o N
           D == AN \o B
           a == Len(A)
           b == Len(B)
           l == Len(N)
<1>1. Len(cards) \in Nat /\ DOMAIN cards = 1..Len(cards) /\ \A k \in DOMAIN cards : cards[k] \in CardSet
  BY PlacesOfSeq
<1>2. i \in Nat /\ at = i + 1 /\ at <= Len(cards)
  BY <1>1
<1> HIDE DEF i
<1>3. A \in Seq(CardSet) /\ a = i /\ \A n \in 1..i : A[n] = cards[n]
  <2>1. \A n \in 1..i : cards[n] \in CardSet
    BY <1>1, <1>2
  <2>2. /\ A \in Seq(CardSet)
        /\ Len(A) = IF 1 <= i THEN i - 1 + 1 ELSE 0
        /\ \A n \in 1..i - 1 + 1 : A[n] = cards[1 + n - 1]
    BY <1>2, <2>1, SubSeqProperties
  <2> HIDE DEF A
  <2>3. \A n \in 1..i : 1 + n - 1 = n /\ n \in 1..i - 1 + 1
    BY <1>2
  <2>4. a = i
    BY <1>2, <2>2
  <2> QED
    BY <2>2, <2>3, <2>4
<1>4. R \in SUBSET (DOMAIN cards)
  OBVIOUS
<1>5. /\ B \in Seq(CardSet) /\ b = Cardinality(R)
      /\ \E at2 : Enumerates(at2, R) /\ \A k \in DOMAIN B : B[k] = cards[at2[k]]
  <2> HIDE DEF R
  <2>1. cards \in Seq(CardSet) /\ R \in SUBSET (DOMAIN cards)
    BY <1>4
  <2> QED
    BY ONLY <2>1, PickedPlaces
<1> HIDE DEF A, B
<1>6. PICK pick : Enumerates(pick, R) /\ \A k \in DOMAIN B : B[k] = cards[pick[k]]
  BY <1>5
<1>7. l \in Nat /\ DOMAIN N = 1..l /\ b \in Nat /\ DOMAIN B = 1..b
  BY <1>5, PlacesOfSeq
<1>8. /\ \A k \in 1..b : pick[k] \in R /\ B[k] = cards[pick[k]]
      /\ \A j, k \in 1..b : pick[j] = pick[k] => j = k
      /\ \A r \in R : \E k \in 1..b : pick[k] = r
  BY <1>5, <1>6, <1>7 DEF Enumerates
<1>9. /\ AN \in Seq(CardSet) /\ Len(AN) = a + l
      /\ \A n \in 1..a + l : AN[n] = IF n <= a THEN A[n] ELSE N[n - a]
  <2>1. A \in Seq(CardSet) /\ N \in Seq(CardSet)
    BY <1>3
  <2> QED
    BY ONLY <2>1, ConcatProperties
<1> HIDE DEF AN
<1>10. /\ D \in Seq(CardSet) /\ Len(D) = Len(AN) + b
       /\ \A n \in 1..Len(AN) + b : D[n] = IF n <= Len(AN) THEN AN[n] ELSE B[n - Len(AN)]
  <2>1. AN \in Seq(CardSet) /\ B \in Seq(CardSet)
    BY <1>5, <1>9
  <2> QED
    BY ONLY <2>1, ConcatProperties
<1> HIDE DEF D
<1>11. DOMAIN D = 1..i + l + b
  BY <1>3, <1>9, <1>10, PlacesOfSeq
<1> HIDE DEF a, b, l
<1>12. \A n \in DOMAIN D : n \in Nat /\ n >= 1 /\ n <= i + l + b
  BY <1>2, <1>7, <1>11
<1>13. ASSUME NEW n \in DOMAIN D, n <= i
       PROVE  n \in DOMAIN cards /\ D[n] = cards[n] /\ D[n].type # type
  <2>1. n \in 1..i /\ n \in 1..a + l /\ n <= a /\ n \in 1..Len(AN) + b /\ n <= Len(AN) /\ n < at
    BY <1>2, <1>3, <1>7, <1>9, <1>12, <1>13
  <2>2. D[n] = cards[n]
    BY <1>3, <1>9, <1>10, <2>1
  <2>3. n \in DOMAIN cards
    BY <1>1, <1>2, <2>1
  <2> QED
    BY <2>1, <2>2, <2>3
<1>14. ASSUME NEW n \in DOMAIN D, i < n, n <= i + l
       PROVE  n - i \in DOMAIN N /\ D[n] = N[n - i] /\ D[n].type = type
  <2>1. n \in 1..a + l /\ ~(n <= a) /\ n \in 1..Len(AN) + b /\ n <= Len(AN) /\ n - i \in 1..l
    BY <1>2, <1>3, <1>7, <1>9, <1>12, <1>14
  <2>2. D[n] = N[n - i]
    BY <1>3, <1>9, <1>10, <2>1
  <2> QED
    BY <1>7, <2>1, <2>2
<1>15. ASSUME NEW n \in DOMAIN D, i + l < n
       PROVE  /\ n - (i + l) \in 1..b /\ pick[n - (i + l)] \in R
              /\ D[n] = cards[pick[n - (i + l)]] /\ D[n].type # type
  <2>1. n \in 1..Len(AN) + b /\ ~(n <= Len(AN)) /\ n - (i + l) \in 1..b /\ Len(AN) = i + l
    BY <1>2, <1>3, <1>7, <1>9, <1>12, <1>15
  <2>2. D[n] = B[n - (i + l)]
    BY <1>10, <2>1
  <2>3. pick[n - (i + l)] \in R /\ D[n] = cards[pick[n - (i + l)]]
    BY <1>8, <2>1, <2>2
  <2> QED
    BY <2>1, <2>3
<1> DEFINE src == [n \in DOMAIN D |-> IF n <= i THEN n ELSE pick[n - (i + l)]]
<1>16. \A n \in DOMAIN D : \/ n <= i
                           \/ i < n /\ n <= i + l
                           \/ ~(n <= i) /\ i + l < n
  BY <1>2, <1>7, <1>12
<1>17. \A n \in DOMAIN D : D[n].type # type => src[n] \in DOMAIN cards /\ D[n] = cards[src[n]]
  <2>1. ASSUME NEW n \in DOMAIN D, D[n].type # type
        PROVE  src[n] \in DOMAIN cards /\ D[n] = cards[src[n]]
    <3>1. src[n] = IF n <= i THEN n ELSE pick[n - (i + l)]
      OBVIOUS
    <3> HIDE DEF src
    <3>2. CASE n <= i
      BY <1>13, <3>1, <3>2
    <3>3. CASE ~(n <= i) /\ i + l < n
      BY <1>4, <1>15, <3>1, <3>3
    <3> QED
      BY <1>14, <1>16, <2>1, <3>2, <3>3
  <2> QED
    BY <2>1
<1>18. ASSUME NEW m \in DOMAIN D, NEW n \in DOMAIN D, D[m].type # type, D[n].type # type,
              src[m] = src[n]
       PROVE  m = n
  <2>1. /\ src[n] = IF n <= i THEN n ELSE pick[n - (i + l)]
        /\ src[m] = IF m <= i THEN m ELSE pick[m - (i + l)]
    OBVIOUS
  <2> HIDE DEF src
  <2>2. \A r \in R : r \in Nat /\ ~(r <= i)
    BY <1>1, <1>2
  <2>3. CASE n <= i /\ m <= i
    BY <1>18, <2>1, <2>3
  <2>4. CASE n <= i /\ ~(m <= i) /\ i + l < m
    BY <1>15, <1>18, <2>1, <2>2, <2>4
  <2>5. CASE m <= i /\ ~(n <= i) /\ i + l < n
    BY <1>15, <1>18, <2>1, <2>2, <2>5
  <2>6. CASE ~(n <= i) /\ i + l < n /\ ~(m <= i) /\ i + l < m
    <3> DEFINE x == n - (i + l)
               y == m - (i + l)
    <3>1. x \in 1..b /\ y \in 1..b /\ pick[x] = pick[y]
      BY <1>15, <1>18, <2>1, <2>6
    <3> HIDE DEF x, y
    <3>2. x = y
      BY <1>8, <3>1
    <3>3. n - (i + l) = m - (i + l)
      BY <3>2 DEF x, y
    <3>4. n \in Nat /\ m \in Nat /\ i \in Nat /\ l \in Nat
      BY <1>2, <1>7, <1>12
    <3> QED
      BY ONLY <3>3, <3>4
  <2> QED
    BY <1>14, <1>16, <1>18, <2>3, <2>4, <2>5, <2>6
<1>19. \A n \in DOMAIN D : D[n].type = type => n \in Nat /\ n - i \in DOMAIN N /\ D[n] = N[n - i]
  BY <1>12, <1>13, <1>14, <1>15, <1>16
<1>20. ASSUME NEW k \in DOMAIN cards, cards[k].type # type
       PROVE  \E n \in DOMAIN D : D[n] = cards[k]
  <2>1. k \in Nat /\ k >= 1
    BY <1>1
  <2>2. CASE k <= i
    <3>1. k \in DOMAIN D
      BY <1>2, <1>7, <1>11, <2>1, <2>2
    <3> QED
      BY <1>13, <2>2, <3>1
  <2>3. CASE ~(k <= i)
    <3>1. k \in R
      BY <1>2, <1>20, <2>1, <2>3
    <3>2. PICK j \in 1..b : pick[j] = k
      BY <1>8, <3>1
    <3> DEFINE n == i + l + j
    <3>3. n \in 1..i + l + b /\ i + l < n /\ n - (i + l) = j
      BY <1>2, <1>7, <3>2
    <3>4. n \in DOMAIN D /\ i + l < n /\ n - (i + l) = j
      <4> HIDE DEF n
      <4> QED
        BY <1>11, <3>3
    <3> HIDE DEF n
    <3>5. D[n] = cards[pick[n - (i + l)]]
      BY <1>15, <3>4
    <3> QED
      BY <3>2, <3>4, <3>5
  <2> QED
    BY <2>2, <2>3
<1>21. ASSUME NEW j \in DOMAIN N
       PROVE  \E n \in DOMAIN D : D[n] = N[j]
  <2> DEFINE n == i + j
  <2>1. n \in DOMAIN D /\ i < n /\ n <= i + l /\ n - i = j
    BY <1>2, <1>7, <1>11
  <2> HIDE DEF n
  <2>2. D[n] = N[n - i]
    BY <1>14, <2>1
  <2> QED
    BY <2>1, <2>2
<1> HIDE DEF src
<1>22. Spliced(D, cards, type, N)
  <2>1. \A m, n \in DOMAIN D : D[m].type # type /\ D[n].type # type /\ src[m] = src[n] => m = n
    BY <1>18
  <2>2. /\ i \in Nat
        /\ \A n \in DOMAIN D : D[n].type # type => src[n] \in DOMAIN cards /\ D[n] = cards[src[n]]
        /\ \A m, n \in DOMAIN D : D[m].type # type /\ D[n].type # type /\ src[m] = src[n] => m = n
        /\ \A n \in DOMAIN D : D[n].type = type => n \in Nat /\ n - i \in DOMAIN N /\ D[n] = N[n - i]
    BY ONLY <1>2, <1>17, <1>19, <2>1
  <2>3. /\ \A k \in DOMAIN cards : cards[k].type # type => \E n \in DOMAIN D : D[n] = cards[k]
        /\ \A j \in DOMAIN N : \E n \in DOMAIN D : D[n] = N[j]
    BY ONLY <1>20, <1>21
  <2>4. D \in Seq(CardSet)
    BY ONLY <1>10
  <2>5. SplicedFrom(D, cards, type, N, src, i)
    BY ONLY <2>2 DEF SplicedFrom
  <2> QED
    BY ONLY <2>3, <2>4, <2>5 DEF Spliced
<1> QED
  BY <1>22 DEF D, AN, A, B, i

\* One card of a series.
LEMMA SeriesCardTwin ==
  ASSUME NEW c \in CardSet, NEW f, NEW v \in ValueSet
  PROVE  Twin(SeriesCard(c, f, v), c)
<1>1. CardParts(c.id, c.type, c.scope, c.hex, c.mode, c.fields, c.fans)
  BY CardIs
<1>2. CASE c.type = "operating"
  <2> DEFINE x == [c.fans[1] EXCEPT !.id = 1, !.rpm = v]
             X == <<x>>
  <2>1. SeriesCard(c, f, v) = [c EXCEPT !.fans = X]
    BY <1>2 DEF SeriesCard
  <2>2. c.fans \in Seq(FanSet) /\ c.fans # <<>>
    BY <1>1, <1>2 DEF CardParts
  <2>3. c.fans[1] \in FanSet
    <3> DEFINE fans == c.fans
    <3>1. fans \in Seq(FanSet) /\ fans # <<>>
      BY <2>2
    <3> HIDE DEF fans
    <3>2. fans[1] \in FanSet
      BY ONLY <3>1
    <3> QED
      BY <3>2 DEF fans
  <2>4. x \in FanSet
    <3> DEFINE y == c.fans[1]
    <3>1. y \in FanSet
      BY <2>3
    <3> HIDE DEF y
    <3>2. [y EXCEPT !.id = 1, !.rpm = v] \in FanSet
      BY <3>1 DEF FanSet
    <3> QED
      BY <3>2 DEF y
  <2> HIDE DEF x
  <2>5. X \in Seq(FanSet) /\ X # <<>>
    BY ONLY <2>4
  <2> HIDE DEF X
  <2>6. Twin([c EXCEPT !.fans = X], c)
    BY <2>2, <2>5, FansTwin
  <2> QED
    BY <2>1, <2>6
<1>3. CASE c.type # "operating"
  <2> DEFINE F == [c.fields EXCEPT ![f] = v]
  <2>1. SeriesCard(c, f, v) = [c EXCEPT !.fields = F]
    BY <1>3 DEF SeriesCard
  <2>2. F \in FieldsSet(c.type)
    BY <1>1 DEF CardParts, FieldsSet
  <2> HIDE DEF F
  <2>3. Twin([c EXCEPT !.fields = F], c)
    BY <2>2, FieldsTwin
  <2> QED
    BY <2>1, <2>3
<1> QED
  BY <1>2, <1>3

\* The cards of a kind in a form.
LEMMA CardsOfAre ==
  ASSUME IsNormal(form), NEW type
  PROVE  LET own == CardsOf(form, type) IN
         /\ own \in Seq(CardSet) /\ Len(own) \in Nat /\ DOMAIN own = 1..Len(own)
         /\ \A j \in DOMAIN own : own[j] \in CardSet /\ own[j].type = type /\ own[j].id # 0
                                  /\ \E k \in DOMAIN form.cards : own[j] = form.cards[k]
         /\ \A j, k \in DOMAIN own : own[j].id = own[k].id => j = k
         /\ \A k \in DOMAIN form.cards : form.cards[k].type = type =>
              \E j \in DOMAIN own : own[j] = form.cards[k]
<1> DEFINE cards == form.cards
           I == OfType(cards, type)
           own == Picked(cards, I)
<1>1. cards \in Seq(CardSet)
  BY FormFacts
<1>2. OneId(cards) /\ \A k \in DOMAIN cards : cards[k].id # 0
  BY DEF IsNormal, CardKnown
<1>3. /\ I \in SUBSET (DOMAIN cards)
      /\ \A k \in I : cards[k].type = type /\ cards[k] \in CardSet
      /\ \A k \in DOMAIN cards : cards[k].type = type => k \in I
  BY <1>1, OfTypeIs
<1>4. CardsOf(form, type) = own
  BY DEF CardsOf
<1> HIDE DEF cards, I
<1>5. /\ own \in Seq(CardSet) /\ Len(own) = Cardinality(I)
      /\ \E at : Enumerates(at, I) /\ \A k \in DOMAIN own : own[k] = cards[at[k]]
  <2>1. cards \in Seq(CardSet) /\ I \in SUBSET (DOMAIN cards)
    BY <1>1, <1>3
  <2> QED
    BY ONLY <2>1, PickedPlaces
<1> HIDE DEF own
<1>6. PICK at : Enumerates(at, I) /\ \A k \in DOMAIN own : own[k] = cards[at[k]]
  BY <1>5
<1>7. Len(own) \in Nat /\ DOMAIN own = 1..Len(own)
  BY <1>5, PlacesOfSeq
<1>8. /\ \A k \in DOMAIN own : at[k] \in I
      /\ \A j, k \in DOMAIN own : at[j] = at[k] => j = k
      /\ \A i \in I : \E k \in DOMAIN own : at[k] = i
  BY <1>5, <1>6, <1>7 DEF Enumerates
<1>9. \A j, k \in DOMAIN own : own[j].id = own[k].id => j = k
  BY <1>2, <1>3, <1>6, <1>8 DEF OneId
<1>10. \A j \in DOMAIN own : own[j] \in CardSet /\ own[j].type = type /\ own[j].id # 0
                             /\ \E k \in DOMAIN cards : own[j] = cards[k]
  BY <1>2, <1>3, <1>6, <1>8
<1>11. \A k \in DOMAIN cards : cards[k].type = type => \E j \in DOMAIN own : own[j] = cards[k]
  BY <1>3, <1>6, <1>8
<1> QED
  BY <1>4, <1>5, <1>7, <1>9, <1>10, <1>11 DEF cards

\* The cards of a series: those there are, and then copies of the first.
SeriesCards(own, base, N) ==
  /\ N \in Seq(CardSet)
  /\ \A k \in DOMAIN N :
       IF k <= Len(own) THEN N[k].id = own[k].id /\ N[k].type = own[k].type /\ N[k].scope = own[k].scope
                        ELSE N[k].id = base + k /\ N[k].type = own[1].type

\* The cards a series makes have the ids of those there were, and new ones beyond.
LEMMA SeriesCardsAre ==
  ASSUME NEW own \in Seq(CardSet), own # <<>>, NEW base \in Nat, NEW f, NEW values \in Lists
  PROVE  LET N == [k \in DOMAIN values |->
                     SeriesCard(IF k <= Len(own) THEN own[k]
                                ELSE [own[1] EXCEPT !.id = base + k], f, values[k])] IN
         SeriesCards(own, base, N) /\ DOMAIN N = 1..Len(values)
<1> DEFINE source(k) == IF k <= Len(own) THEN own[k] ELSE [own[1] EXCEPT !.id = base + k]
           N == [k \in DOMAIN values |-> SeriesCard(source(k), f, values[k])]
<1>1. /\ values \in Seq(Texts) /\ Len(values) \in Nat /\ DOMAIN values = 1..Len(values)
      /\ \A k \in DOMAIN values : values[k] \in ValueSet
  BY ListsAre
<1>2. Len(own) \in Nat /\ DOMAIN own = 1..Len(own) /\ \A j \in DOMAIN own : own[j] \in CardSet
  BY PlacesOfSeq
<1>3. 1 \in DOMAIN own
  <2> DEFINE n == Len(own)
  <2>1. n \in Nat /\ n # 0 /\ DOMAIN own = 1..n
    BY <1>2, NotEmpty
  <2> HIDE DEF n
  <2>2. 1 \in 1..n
    BY ONLY <2>1
  <2> QED
    BY <2>1, <2>2
<1>4. ASSUME NEW k \in DOMAIN values
      PROVE  /\ source(k) \in CardSet
             /\ IF k <= Len(own) THEN source(k) = own[k]
                                 ELSE source(k).id = base + k /\ source(k).type = own[1].type
  <2>1. k \in Nat /\ k >= 1
    BY <1>1
  <2>2. CASE k <= Len(own)
    <3>1. k \in DOMAIN own
      BY <1>2, <2>1, <2>2
    <3> QED
      BY <1>2, <2>2, <3>1
  <2>3. CASE ~(k <= Len(own))
    <3> DEFINE c == own[1]
               i == base + k
    <3>1. c \in CardSet /\ i \in Nat
      BY <1>2, <1>3, <2>1
    <3>2. source(k) = [c EXCEPT !.id = i]
      BY <2>3
    <3> HIDE DEF c, i, source
    <3>3. CardParts(i, c.type, c.scope, c.hex, c.mode, c.fields, c.fans)
      <4>1. CardParts(c.id, c.type, c.scope, c.hex, c.mode, c.fields, c.fans)
        BY <3>1, CardIs
      <4> QED
        BY <3>1, <4>1 DEF CardParts
    <3>4. Made([c EXCEPT !.id = i], i, c.type, c.scope, c.hex, c.mode, c.fields, c.fans)
      BY <3>1, <3>3, CardWithId
    <3>5. source(k) \in CardSet /\ source(k).id = i /\ source(k).type = c.type
      BY <3>2, <3>4 DEF Made
    <3> QED
      BY <2>3, <3>5 DEF c, i
  <2> QED
    BY <2>2, <2>3
<1> HIDE DEF source
<1>5. ASSUME NEW k \in DOMAIN values
      PROVE  N[k] = SeriesCard(source(k), f, values[k]) /\ Twin(N[k], source(k))
  <2>1. N[k] = SeriesCard(source(k), f, values[k])
    OBVIOUS
  <2> HIDE DEF N
  <2>2. source(k) \in CardSet /\ values[k] \in ValueSet
    BY <1>1, <1>4
  <2>3. Twin(SeriesCard(source(k), f, values[k]), source(k))
    BY ONLY <2>2, SeriesCardTwin
  <2> QED
    BY ONLY <2>1, <2>3
<1>6. N = [k \in DOMAIN values |-> N[k]]
  OBVIOUS
<1> HIDE DEF N
<1>7. \A k \in DOMAIN values : N[k] \in CardSet
  BY <1>5 DEF Twin
<1>8. N \in Seq(CardSet) /\ DOMAIN N = DOMAIN values
  BY ONLY <1>1, <1>6, <1>7, AsMany
<1>9. ASSUME NEW k \in DOMAIN values
      PROVE  IF k <= Len(own)
             THEN N[k].id = own[k].id /\ N[k].type = own[k].type /\ N[k].scope = own[k].scope
             ELSE N[k].id = base + k /\ N[k].type = own[1].type
  <2>1. N[k].id = source(k).id /\ N[k].type = source(k).type /\ N[k].scope = source(k).scope
    BY <1>5 DEF Twin
  <2> QED
    BY <1>4, <2>1
<1>10. SeriesCards(own, base, N)
  BY <1>8, <1>9 DEF SeriesCards
<1> QED
  BY <1>1, <1>8, <1>10 DEF N, source

(***************************************************************************)
(* A series takes away no card of another kind, and none of its kind       *)
(* unless it has fewer values than the kind has cards.                     *)
(***************************************************************************)
LEMMA WriteSeriesIs ==
  ASSUME WriteInvariant, NEW type, NEW f, NEW values \in Lists, WriteSeries(type, f, values)
  PROVE  /\ WriteInvariant'
         /\ \A k \in DOMAIN form.cards :
              form.cards[k].type # type \/ Len(values) >= Len(CardsOf(form, type)) =>
                \E m \in DOMAIN form'.cards :
                  form'.cards[m].type = form.cards[k].type /\ form'.cards[m].id = form.cards[k].id
<1> DEFINE cards == form.cards
           own == CardsOf(form, type)
           base == NextId(Ids(own))
           N == [k \in DOMAIN values |->
                   SeriesCard(IF k <= Len(own) THEN own[k]
                              ELSE [own[1] EXCEPT !.id = base + k], f, values[k])]
           at == FirstKind(cards, type)
           D == SubSeq(cards, 1, at - 1) \o N
                \o Picked(cards, {k \in DOMAIN cards : k >= at /\ cards[k].type # type})
           next == [form EXCEPT !.cards = D]
<1>1. IsNormal(form) /\ form \in FormSet /\ cards \in Seq(CardSet)
  BY FormFacts DEF WriteInvariant
<1>2. OneId(cards) /\ EveryGroup(form) /\ \A k \in DOMAIN cards : CardKnown(form, cards[k])
  BY <1>1 DEF IsNormal
<1>3. form' = Normal(next) /\ shown' = shown
  BY DEF WriteSeries, ChatApplies, WithSeries, FirstKind
<1>4. /\ own \in Seq(CardSet) /\ Len(own) \in Nat /\ DOMAIN own = 1..Len(own)
      /\ \A j \in DOMAIN own : own[j] \in CardSet /\ own[j].type = type /\ own[j].id # 0
                               /\ \E k \in DOMAIN cards : own[j] = cards[k]
      /\ \A j, k \in DOMAIN own : own[j].id = own[k].id => j = k
      /\ \A k \in DOMAIN cards : cards[k].type = type => \E j \in DOMAIN own : own[j] = cards[k]
  BY <1>1, CardsOfAre
<1>5. form.locked /\ \E j : j \in DOMAIN own
  <2>1. PICK c \in Range(own) : form.locked
    BY DEF WriteSeries, SeriesOffered, WritableCards
  <2> QED
    BY <2>1 DEF Range
<1>6. base \in Nat /\ base # 0 /\ \A k \in DOMAIN cards : cards[k].type = type => cards[k].id < base
  BY <1>1, NextIdIs DEF CardsOf
<1> HIDE DEF own, base
<1>7. own # <<>>
  BY <1>4, <1>5
<1>8. SeriesCards(own, base, N) /\ DOMAIN N = 1..Len(values)
  <2>1. own \in Seq(CardSet) /\ own # <<>> /\ base \in Nat /\ values \in Lists
    BY <1>4, <1>6, <1>7
  <2> QED
    BY ONLY <2>1, SeriesCardsAre
<1> HIDE DEF N
<1>9. Len(values) \in Nat
  BY ListsAre
<1>10. N \in Seq(CardSet) /\ \A k \in DOMAIN N : k \in Nat /\ k >= 1
  BY <1>8, <1>9 DEF SeriesCards
<1>11. 1 \in DOMAIN own
  <2> DEFINE n == Len(own)
  <2>1. n \in Nat /\ n # 0 /\ DOMAIN own = 1..n
    BY <1>4, <1>7, NotEmpty
  <2> HIDE DEF n
  <2>2. 1 \in 1..n
    BY ONLY <2>1
  <2> QED
    BY <2>1, <2>2
<1>12. ASSUME NEW k \in DOMAIN N
       PROVE  /\ N[k].type = type /\ N[k].id # 0
              /\ k <= Len(own) => k \in DOMAIN own /\ N[k].id = own[k].id /\ N[k].scope = own[k].scope
              /\ ~(k <= Len(own)) => N[k].id = base + k
  <2>1. k \in Nat /\ k >= 1
    BY <1>10
  <2>2. CASE k <= Len(own)
    <3>1. k \in DOMAIN own
      BY <1>4, <2>1, <2>2
    <3> QED
      BY <1>4, <1>8, <2>2, <3>1 DEF SeriesCards
  <2>3. CASE ~(k <= Len(own))
    <3>1. N[k].id = base + k /\ N[k].type = own[1].type
      BY <1>8, <2>3 DEF SeriesCards
    <3>2. own[1].type = type
      BY <1>4, <1>11
    <3>3. base + k # 0
      BY <1>6, <2>1
    <3> QED
      BY <2>3, <3>1, <3>2, <3>3
  <2> QED
    BY <2>2, <2>3
<1>13. ASSUME NEW j \in DOMAIN N, NEW k \in DOMAIN N, N[j].id = N[k].id
       PROVE  j = k
  <2>1. \A i \in DOMAIN own : own[i].id \in Nat /\ own[i].id < base
    <3>1. ASSUME NEW i \in DOMAIN own
          PROVE  own[i].id \in Nat /\ own[i].id < base
      <4>1. own[i] \in CardSet /\ own[i].type = type /\ \E n \in DOMAIN cards : own[i] = cards[n]
        BY <1>4
      <4>2. own[i].id \in Nat
        BY <4>1, CardIs DEF CardParts
      <4> QED
        BY <1>6, <4>1, <4>2
    <3> QED
      BY <3>1
  <2>2. j \in Nat /\ k \in Nat
    BY <1>10
  <2>3. CASE j <= Len(own) /\ k <= Len(own)
    BY <1>4, <1>12, <1>13, <2>3
  <2>4. CASE ~(j <= Len(own)) /\ ~(k <= Len(own))
    <3>1. base + j = base + k
      BY <1>12, <1>13, <2>4
    <3> QED
      BY ONLY <1>6, <2>2, <3>1
  <2>5. CASE j <= Len(own) /\ ~(k <= Len(own))
    <3>1. own[j].id = base + k /\ own[j].id \in Nat /\ own[j].id < base
      BY <1>12, <1>13, <2>1, <2>5
    <3> DEFINE x == own[j].id
    <3>2. x = base + k /\ x \in Nat /\ x < base
      BY <3>1
    <3> HIDE DEF x
    <3> QED
      BY ONLY <1>6, <2>2, <3>2
  <2>6. CASE ~(j <= Len(own)) /\ k <= Len(own)
    <3>1. own[k].id = base + j /\ own[k].id \in Nat /\ own[k].id < base
      BY <1>12, <1>13, <2>1, <2>6
    <3> DEFINE x == own[k].id
    <3>2. x = base + j /\ x \in Nat /\ x < base
      BY <3>1
    <3> HIDE DEF x
    <3> QED
      BY ONLY <1>6, <2>2, <3>2
  <2> QED
    BY <2>3, <2>4, <2>5, <2>6
<1>14. /\ at \in DOMAIN cards /\ at \in Nat /\ at >= 1
       /\ \A k \in DOMAIN cards : k < at => cards[k].type # type
  <2>1. OfType(cards, type) # {}
    <3>1. PICK k \in DOMAIN cards : own[1] = cards[k]
      BY <1>4, <1>11
    <3>2. cards[k].type = type
      BY <1>4, <1>11, <3>1
    <3> QED
      BY <1>1, <3>2, OfTypeIs
  <2> QED
    BY <1>1, <2>1, FirstKindIs
<1> HIDE DEF at
<1>15. Spliced(D, cards, type, N)
  <2>1. /\ cards \in Seq(CardSet) /\ N \in Seq(CardSet) /\ \A j \in DOMAIN N : N[j].type = type
        /\ at \in DOMAIN cards /\ at \in Nat /\ at >= 1
        /\ \A k \in DOMAIN cards : k < at => cards[k].type # type
    BY <1>1, <1>10, <1>12, <1>14
  <2> HIDE DEF cards
  <2> QED
    BY ONLY <2>1, SplicedIs
<1> HIDE DEF D
<1>16. D \in Seq(CardSet)
  BY <1>15 DEF Spliced
<1>17. next \in FormSet /\ next.cards = D /\ next.context = form.context /\ next.locked = form.locked
  BY <1>1, <1>16, FormWithCards
<1> HIDE DEF next
<1>18. WriteInvariant'
  BY <1>3, <1>5, <1>17, NormalStep DEF WriteInvariant
<1>19. PICK src, i : SplicedFrom(D, cards, type, N, src, i)
  BY <1>15 DEF Spliced
<1>20. /\ \A k \in DOMAIN cards : cards[k].type # type => \E n \in DOMAIN D : D[n] = cards[k]
       /\ \A j \in DOMAIN N : \E n \in DOMAIN D : D[n] = N[j]
  BY <1>15 DEF Spliced
<1> HIDE DEF cards
<1>21. /\ i \in Nat
       /\ \A n \in DOMAIN D : D[n].type # type => src[n] \in DOMAIN cards /\ D[n] = cards[src[n]]
       /\ \A m, n \in DOMAIN D : D[m].type # type /\ D[n].type # type /\ src[m] = src[n] => m = n
       /\ \A n \in DOMAIN D : D[n].type = type => n \in Nat /\ n - i \in DOMAIN N /\ D[n] = N[n - i]
  BY <1>19 DEF SplicedFrom
<1>22. ASSUME NEW k \in DOMAIN cards, cards[k].type # type
       PROVE  Settled(next, cards[k].type)
  <2> DEFINE t == cards[k].type
  <2>1. t # type /\ t \in form.context.types
    BY <1>2, <1>22 DEF CardKnown
  <2> HIDE DEF t
  <2>2. \A m, n \in DOMAIN D : D[m].type = t /\ D[n].type = t /\ D[m].id = D[n].id => m = n
    BY <1>2, <1>21, <2>1 DEF OneId
  <2>3. \A n \in DOMAIN D : D[n].type = t => D[n].id # 0
    <3>1. ASSUME NEW n \in DOMAIN D, D[n].type = t
          PROVE  D[n].id # 0
      <4>1. src[n] \in DOMAIN cards /\ D[n] = cards[src[n]]
        BY <1>21, <2>1, <3>1
      <4>2. cards[src[n]].id # 0
        BY <1>2, <4>1 DEF CardKnown
      <4> QED
        BY <4>1, <4>2
    <3> QED
      BY <3>1
  <2>4. \A s \in Range(form.context.scopes) : \E n \in DOMAIN D : D[n].type = t /\ D[n].scope = s
    <3>1. \A s \in Range(form.context.scopes) :
            \E n \in DOMAIN cards : cards[n].scope = s /\ cards[n].type = t
      BY <1>2, <2>1 DEF EveryGroup, cards
    <3> QED
      BY <1>20, <2>1, <3>1
  <2>5. Settled(next, t)
    BY <1>17, <2>2, <2>3, <2>4 DEF Settled
  <2> QED
    BY <2>5 DEF t
<1>23. ASSUME Len(values) >= Len(own)
       PROVE  /\ type \in form.context.types => Settled(next, type)
              /\ \A j \in DOMAIN own : \E n \in DOMAIN D : D[n].id = own[j].id /\ D[n].type = type
                                                           /\ D[n].scope = own[j].scope
  <2>1. ASSUME NEW m \in DOMAIN D, NEW n \in DOMAIN D, D[m].type = type, D[n].type = type,
               D[m].id = D[n].id
        PROVE  m = n
    <3>1. m \in Nat /\ n \in Nat /\ m - i \in DOMAIN N /\ n - i \in DOMAIN N
          /\ N[m - i].id = N[n - i].id
      BY <1>21, <2>1
    <3>2. m - i = n - i
      BY <1>13, <3>1
    <3> QED
      BY ONLY <1>21, <3>1, <3>2
  <2>2. \A n \in DOMAIN D : D[n].type = type => D[n].id # 0
    BY <1>12, <1>21
  <2>3. ASSUME NEW j \in DOMAIN own
        PROVE  \E n \in DOMAIN D : D[n].id = own[j].id /\ D[n].type = type /\ D[n].scope = own[j].scope
    <3>1. j \in DOMAIN N /\ j <= Len(own)
      BY <1>4, <1>8, <1>9, <1>23
    <3>2. N[j].id = own[j].id /\ N[j].type = type /\ N[j].scope = own[j].scope
      BY <1>12, <3>1
    <3> QED
      BY <1>20, <3>1, <3>2
  <2>4. ASSUME type \in form.context.types, NEW s \in Range(form.context.scopes)
        PROVE  \E n \in DOMAIN D : D[n].type = type /\ D[n].scope = s
    <3>1. PICK k \in DOMAIN cards : cards[k].scope = s /\ cards[k].type = type
      BY <1>2, <2>4 DEF EveryGroup, cards
    <3>2. PICK j \in DOMAIN own : own[j] = cards[k]
      BY <1>4, <3>1
    <3> QED
      BY <2>3, <3>1, <3>2
  <2>5. type \in form.context.types => Settled(next, type)
    BY <1>17, <2>1, <2>2, <2>4 DEF Settled
  <2> QED
    BY <2>3, <2>5
<1>24. ASSUME NEW k \in DOMAIN cards, cards[k].type # type \/ Len(values) >= Len(own)
       PROVE  \E m \in DOMAIN form'.cards :
                form'.cards[m].type = cards[k].type /\ form'.cards[m].id = cards[k].id
  <2>1. cards[k].type \in form.context.types /\ cards[k].scope \in Range(form.context.scopes)
    BY <1>2 DEF CardKnown
  <2>2. \E n \in DOMAIN D : /\ D[n].id = cards[k].id /\ D[n].type = cards[k].type
                            /\ D[n].scope = cards[k].scope
                            /\ Settled(next, D[n].type)
    <3>1. CASE cards[k].type # type
      <4>1. PICK n \in DOMAIN D : D[n] = cards[k]
        BY <1>20, <3>1
      <4> QED
        BY <1>22, <3>1, <4>1
    <3>2. CASE cards[k].type = type /\ Len(values) >= Len(own)
      <4>1. PICK j \in DOMAIN own : own[j] = cards[k]
        BY <1>4, <3>2
      <4> QED
        BY <1>23, <2>1, <3>2, <4>1
    <3> QED
      BY <1>24, <3>1, <3>2
  <2>3. PICK n \in DOMAIN D : /\ D[n].id = cards[k].id /\ D[n].type = cards[k].type
                              /\ D[n].scope = cards[k].scope
                              /\ Settled(next, D[n].type)
    BY <2>2
  <2>4. /\ n \in DOMAIN next.cards
        /\ next.cards[n].type \in next.context.types
        /\ next.cards[n].scope \in Range(next.context.scopes)
        /\ Settled(next, next.cards[n].type)
        /\ next.cards[n].type = cards[k].type /\ next.cards[n].id = cards[k].id
    BY <1>17, <2>1, <2>3
  <2>5. \E m \in DOMAIN form'.cards :
           form'.cards[m].type = next.cards[n].type /\ form'.cards[m].id = next.cards[n].id
    BY <1>3, <1>17, <2>4, CardStays
  <2> QED
    BY <2>4, <2>5
<1> QED
  BY <1>18, <1>24 DEF cards, own

\* What a step must not do: take away a card that is filled in.
FilledKept ==
  \A c \in Range(form.cards) :
    HasContent(c) =>
      \/ \E d \in Range(form'.cards) : d.type = c.type /\ d.id = c.id
      \/ wrote'.by = "page" /\ Len(form'.cards) = Len(form.cards) - 1
      \/ /\ wrote'.slot.kind = "series" /\ wrote'.slot.type = c.type
         /\ Len(wrote'.values) < Len(CardsOf(form, c.type))

\* A step that loses no card takes away none that is filled in.
LEMMA StayingIsKept ==
  ASSUME CardsStay
  PROVE  FilledKept
<1> SUFFICES ASSUME NEW c \in Range(form.cards)
             PROVE  \E d \in Range(form'.cards) : d.type = c.type /\ d.id = c.id
  BY DEF FilledKept
<1>1. PICK k \in DOMAIN form.cards : c = form.cards[k]
  BY DEF Range
<1>2. PICK m \in DOMAIN form'.cards :
        form'.cards[m].type = form.cards[k].type /\ form'.cards[m].id = form.cards[k].id
  BY DEF CardsStay
<1>3. form'.cards[m] \in Range(form'.cards)
  BY DEF Range
<1> QED
  BY <1>1, <1>2, <1>3

\* A step that leaves the form alone, and may show another scope of it.
LEMMA FormUntouched ==
  ASSUME WriteInvariant, form' = form, shown' \in Range(form.context.scopes)
  PROVE  WriteInvariant' /\ FilledKept
<1>1. WriteInvariant'
  <2>1. IsNormal(form') /\ shown' \in Range(form'.context.scopes)
    BY DEF WriteInvariant
  <2>2. form'.locked \/ \A k \in DOMAIN form'.cards : ~HasContent(form'.cards[k])
    BY DEF WriteInvariant
  <2> QED
    BY <2>1, <2>2 DEF WriteInvariant
<1>2. CardsStay
  BY DEF CardsStay
<1> QED
  BY <1>1, <1>2, StayingIsKept

\* Removing a card: the first of a kind and scope is emptied, another one goes.
LEMMA RemoveCardIs ==
  ASSUME WriteInvariant, NEW c \in Range(form.cards), RemoveCard(c), form.locked
  PROVE  WriteInvariant' /\ FilledKept
<1>1. CASE c = Siblings(c)[1]
  <2>1. IsNormal(form)
    BY DEF WriteInvariant
  <2>2. SameStep
    BY <1>1, <2>1, RemoveFirstSame
  <2> QED
    BY <2>2, SameStepIs, StayingIsKept
<1>2. CASE c # Siblings(c)[1]
  <2>1. WriteInvariant' /\ Len(form'.cards) = Len(form.cards) - 1
    BY <1>2, RemoveOtherIs
  <2>2. wrote'.by = "page"
    <3> DEFINE rest == [Collected EXCEPT !.cards =
                   Picked(@, {k \in DOMAIN @ : ~(@[k].type = c.type /\ @[k].id = c.id)})]
    <3>1. PageSaves(rest, NoSlot)
      BY <1>2 DEF RemoveCard
    <3> HIDE DEF rest
    <3>2. wrote' = [by |-> "page", slot |-> NoSlot, value |-> "", values |-> <<>>]
      BY <3>1 DEF PageSaves, Wrote
    <3> QED
      BY <3>2
  <2> QED
    BY <2>1, <2>2 DEF FilledKept
<1> QED
  BY <1>1, <1>2

\* A series takes away cards of its kind only, when it is shorter than they are many.
LEMMA WriteSeriesKeeps ==
  ASSUME WriteInvariant, NEW type, NEW f, NEW values \in Lists, WriteSeries(type, f, values)
  PROVE  WriteInvariant' /\ FilledKept
<1>1. /\ WriteInvariant'
      /\ \A k \in DOMAIN form.cards :
           form.cards[k].type # type \/ Len(values) >= Len(CardsOf(form, type)) =>
             \E m \in DOMAIN form'.cards :
               form'.cards[m].type = form.cards[k].type /\ form'.cards[m].id = form.cards[k].id
  BY WriteSeriesIs
<1>2. /\ wrote'.slot.kind = "series" /\ wrote'.slot.type = type
      /\ wrote'.values = values
  BY DEF WriteSeries, ChatApplies, Wrote, Slot
<1>3. Len(values) \in Nat
  BY ListsAre
<1>4. Len(CardsOf(form, type)) \in Nat
  BY CardsOfAre DEF WriteInvariant
<1> DEFINE own == Len(CardsOf(form, type))
           long == Len(values)
<1> HIDE DEF own, long
<1>5. long >= own \/ long < own
  BY ONLY <1>3, <1>4 DEF own, long
<1>6. ASSUME NEW c \in Range(form.cards)
      PROVE  \/ \E d \in Range(form'.cards) : d.type = c.type /\ d.id = c.id
             \/ /\ wrote'.slot.kind = "series" /\ wrote'.slot.type = c.type
                /\ Len(wrote'.values) < Len(CardsOf(form, c.type))
  <2>1. PICK k \in DOMAIN form.cards : c = form.cards[k]
    BY DEF Range
  <2>2. CASE c.type # type \/ Len(values) >= Len(CardsOf(form, type))
    <3>1. PICK m \in DOMAIN form'.cards :
            form'.cards[m].type = form.cards[k].type /\ form'.cards[m].id = form.cards[k].id
      BY <1>1, <2>1, <2>2
    <3>2. form'.cards[m] \in Range(form'.cards)
      BY DEF Range
    <3> QED
      BY <2>1, <3>1, <3>2
  <2>3. CASE c.type = type /\ Len(values) < Len(CardsOf(form, type))
    BY <1>2, <2>3
  <2> QED
    BY <1>5, <2>2, <2>3 DEF own, long
<1> QED
  BY <1>1, <1>6 DEF FilledKept

\* A step of the page on the fields every request has.
LEMMA PageStepIs ==
  ASSUME WriteInvariant, PageStep
  PROVE  WriteInvariant' /\ FilledKept
<1>1. IsNormal(form)
  BY DEF WriteInvariant
<1>2. ASSUME SameStep
      PROVE  WriteInvariant' /\ FilledKept
  BY <1>2, SameStepIs, StayingIsKept
<1>3. CASE \E f \in Range(General), v \in Texts : form.locked /\ EditGeneral(f, v)
  BY <1>1, <1>2, <1>3, EditGeneralSame
<1>4. CASE \E k \in DOMAIN form.products :
             \/ \E v \in Texts \union {""} :
                  form.locked /\ (EditDrawing(k, v) \/ EditDescription(k, v))
             \/ form.locked /\ RemoveComparison(k)
  <2>1. PICK k \in DOMAIN form.products :
             \/ \E v \in Texts \union {""} :
                  form.locked /\ (EditDrawing(k, v) \/ EditDescription(k, v))
             \/ form.locked /\ RemoveComparison(k)
    BY <1>4
  <2>2. CASE form.locked /\ RemoveComparison(k)
    BY <1>1, <1>2, <2>2, RemoveComparisonSame
  <2>3. ASSUME NEW v \in Texts \union {""}, form.locked, EditDrawing(k, v)
        PROVE  WriteInvariant' /\ FilledKept
    BY <1>1, <1>2, <2>3, EditDrawingSame
  <2>4. ASSUME NEW v \in Texts \union {""}, form.locked, EditDescription(k, v)
        PROVE  WriteInvariant' /\ FilledKept
    BY <1>1, <1>2, <2>4, EditDescriptionSame
  <2> QED
    BY <2>1, <2>2, <2>3, <2>4
<1>5. CASE form.locked /\ AddComparison
  BY <1>1, <1>2, <1>5, AddComparisonSame
<1>6. CASE \E s \in Range(form.context.scopes) : form.locked /\ ShowScope(s)
  <2>1. form' = form /\ shown' \in Range(form.context.scopes)
    BY <1>6 DEF ShowScope
  <2> QED
    BY <2>1, FormUntouched
<1> QED
  BY <1>3, <1>4, <1>5, <1>6 DEF PageStep

\* A step of the page on a card it shows.
LEMMA PageCardStepIs ==
  ASSUME WriteInvariant, PageCardStep
  PROVE  WriteInvariant' /\ FilledKept
<1>1. IsNormal(form)
  BY DEF WriteInvariant
<1>2. ASSUME SameStep
      PROVE  WriteInvariant' /\ FilledKept
  BY <1>2, SameStepIs, StayingIsKept
<1>3. PICK c \in OnPage :
        \/ \E f \in DOMAIN c.fields, v \in Texts \union {""} : EditCardField(c, f, v)
        \/ \E hex \in {MicroChannel, FinAndTube} : ChangeExchanger(c, hex)
        \/ \E n \in 1 .. MaxFans : ResizeFans(c, n)
        \/ \E mode \in {"", "common", "individual"} : ChangeMode(c, mode)
        \/ \E k \in DOMAIN c.fans, f \in {"location", "rpm"}, v \in Texts : EditFan(c, k, f, v)
        \/ \E v \in Texts : EditAllFans(c, v)
        \/ AddCard(c)
        \/ RemoveCard(c)
  BY DEF PageCardStep
<1>4. form.locked /\ c \in Range(form.cards)
  BY DEF OnPage
<1>5. ASSUME NEW f, NEW v \in Texts \union {""}, EditCardField(c, f, v)
      PROVE  WriteInvariant' /\ FilledKept
  BY <1>1, <1>2, <1>4, <1>5, EditCardFieldSame
<1>6. ASSUME NEW hex \in {MicroChannel, FinAndTube}, ChangeExchanger(c, hex)
      PROVE  WriteInvariant' /\ FilledKept
  BY <1>1, <1>2, <1>4, <1>6, ChangeExchangerSame
<1>7. ASSUME NEW n \in 1 .. MaxFans, ResizeFans(c, n)
      PROVE  WriteInvariant' /\ FilledKept
  BY <1>1, <1>2, <1>4, <1>7, ResizeFansSame
<1>8. ASSUME NEW mode \in {"", "common", "individual"}, ChangeMode(c, mode)
      PROVE  WriteInvariant' /\ FilledKept
  BY <1>1, <1>2, <1>4, <1>8, ChangeModeSame
<1>9. ASSUME NEW k, NEW f, NEW v \in Texts, EditFan(c, k, f, v)
      PROVE  WriteInvariant' /\ FilledKept
  BY <1>1, <1>2, <1>4, <1>9, EditFanSame
<1>10. ASSUME NEW v \in Texts, EditAllFans(c, v)
       PROVE  WriteInvariant' /\ FilledKept
  BY <1>1, <1>2, <1>4, <1>10, EditAllFansSame
<1>11. CASE AddCard(c)
  BY <1>4, <1>11, AddCardIs, StayingIsKept
<1>12. CASE RemoveCard(c)
  BY <1>4, <1>12, RemoveCardIs
<1> QED
  BY <1>3, <1>5, <1>6, <1>7, <1>8, <1>9, <1>10, <1>11, <1>12

\* An approved operation of the assistant.
LEMMA ChatStepIs ==
  ASSUME WriteInvariant, ChatStep
  PROVE  WriteInvariant' /\ FilledKept
<1>1. IsNormal(form)
  BY DEF WriteInvariant
<1>2. ASSUME SameStep
      PROVE  WriteInvariant' /\ FilledKept
  BY <1>2, SameStepIs, StayingIsKept
<1>3. ASSUME NEW slot \in SlotsOf(form), NEW v \in Texts, WriteSlot(slot, v)
      PROVE  WriteInvariant' /\ FilledKept
  BY <1>1, <1>2, <1>3, WriteSlotSame
<1>4. ASSUME NEW values \in Lists, NEW append \in BOOLEAN, ListProducts(values, append)
      PROVE  WriteInvariant' /\ FilledKept
  BY <1>1, <1>2, <1>4, ListProductsSame
<1>5. ASSUME NEW type, NEW values \in Lists, NEW f, WriteSeries(type, f, values)
      PROVE  WriteInvariant' /\ FilledKept
  BY <1>5, WriteSeriesKeeps
<1>6. ASSUME NEW c, NEW values \in Lists, NEW mode \in {"", "common", "individual"},
             NEW places \in {<<>>, [k \in DOMAIN values |-> CHOOSE v \in Texts : TRUE]},
             WriteFans(c, values, places, mode)
      PROVE  WriteInvariant' /\ FilledKept
  BY <1>1, <1>2, <1>6, WriteFansSame
<1>7. ASSUME NEW context \in Contexts, ConfirmContext(context)
      PROVE  WriteInvariant' /\ FilledKept
  <2>1. WriteInvariant' /\ \A k \in DOMAIN form.cards : ~HasContent(form.cards[k])
    BY <1>7, ConfirmContextIs
  <2>2. \A c \in Range(form.cards) : ~HasContent(c)
    BY <2>1 DEF Range
  <2> QED
    BY <2>1, <2>2 DEF FilledKept
<1> QED
  BY <1>3, <1>4, <1>5, <1>6, <1>7 DEF ChatStep

\* Every step keeps the form normal and its filled cards in it.
LEMMA WriteInvariantNext ==
  ASSUME WriteInvariant, [WritesNext]_writesVars
  PROVE  WriteInvariant' /\ FilledKept
<1>1. CASE WritesNext
  BY <1>1, PageStepIs, PageCardStepIs, ChatStepIs DEF WritesNext
<1>2. CASE UNCHANGED writesVars
  <2>1. form' = form /\ shown' \in Range(form.context.scopes)
    BY <1>2 DEF writesVars, WriteInvariant
  <2> QED
    BY <2>1, FormUntouched
<1> QED
  BY <1>1, <1>2

(***************************************************************************)
(* Whatever the page and the assistant write, in whichever order, the form *)
(* kept is a normal form: the invariant of the write path.                 *)
(***************************************************************************)
THEOREM WritesHold == WritesSpec => []WriteInvariant
<1>1. WritesInit => WriteInvariant
  BY NewFormIs
<1>2. WriteInvariant /\ [WritesNext]_writesVars => WriteInvariant'
  BY WriteInvariantNext
<1> QED
  BY <1>1, <1>2, PTL DEF WritesSpec

(***************************************************************************)
(* A card of every kind for every scope asked for, a base product, a fan   *)
(* to every operating card, and one fan entered by itself: in every form   *)
(* that is kept, for any kinds, fields, contexts and texts.                *)
(***************************************************************************)
THEOREM WritesTypes == WritesSpec => []WritesTypeOK
<1>1. WriteInvariant => WritesTypeOK
  BY WriteTypes
<1> QED
  BY <1>1, WritesHold, PTL

(***************************************************************************)
(* A save of the page that edits nothing takes away no answer (but the two *)
(* the property names), in every form that is kept.                        *)
(***************************************************************************)
THEOREM SavesTakeNothingAway == WritesSpec => []SaveTakesNothingAway
<1>1. WriteInvariant => SaveTakesNothingAway
  BY SaveIs DEF WriteInvariant
<1> QED
  BY <1>1, WritesHold, PTL

(***************************************************************************)
(* A card that is filled in goes only when the user removes a card or a    *)
(* series is shorter than the kind has cards, whatever is written.         *)
(***************************************************************************)
THEOREM FilledCardsStayThere == WritesSpec => FilledCardsStay
<1>1. WriteInvariant /\ [WritesNext]_writesVars => [FilledKept]_writesVars
  BY WriteInvariantNext
<1>2. FilledCardsStay <=> [][FilledKept]_writesVars
  BY PTL DEF FilledCardsStay, FilledKept
<1> QED
  BY <1>1, <1>2, WritesHold, PTL DEF WritesSpec

\* Of the two side by side, each does what it does on its own.
LEMMA SideBySide == BothSpec => WritesSpec /\ RetrievalSpec
<1>1. BothInit => WritesInit /\ RetrievalInit
  BY DEF BothInit
<1>2. [BothNext]_bothVars => [WritesNext]_writesVars /\ [RetrievalNext]_retrievalVars
  BY DEF BothNext, bothVars
<1> QED
  BY <1>1, <1>2, PTL DEF BothSpec, WritesSpec, RetrievalSpec

(***************************************************************************)
(* The form and the search keep their types side by side.                  *)
(***************************************************************************)
THEOREM FormAndSearchTypes == BothSpec => []FormAndSearchTypeOK
<1>1. WritesTypeOK /\ RetrievalTypeOK <=> FormAndSearchTypeOK
  BY DEF FormAndSearchTypeOK
<1> QED
  BY <1>1, SideBySide, WritesTypes, SearchTypes, PTL
=============================================================================
