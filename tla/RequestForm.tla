---------------------------- MODULE RequestForm ----------------------------
(***************************************************************************)
(* The request form as data: products, condition cards and their fans, the *)
(* normal form every write is brought to (sanitize_state), what of it the  *)
(* validator misses and the assistant asks for, and what the assistant may *)
(* write and how (agent_write_contract.py, chat_patch.py).                 *)
(*                                                                         *)
(* A text is blank ("") or a member of Texts.  Of the general sections     *)
(* only the required fields are kept.  A heat exchanger card has a "fin"   *)
(* (fin_type, fixed for one kind of exchanger) and fields like "tube"      *)
(* (tube_diameter, row_count, fpi).  Labels, the positions shown to the    *)
(* user and field statuses follow from these and are left out, as are the  *)
(* Case Matrix (CaseMatrix) and the PMS project.                           *)
(***************************************************************************)
EXTENDS Orders, SequencesExt

CONSTANTS
  General,    \* the required general fields, in the order they are validated
  CardTypes,  \* the kinds of condition card, in template order
  FieldsOf,   \* the fields of each kind, in order; none for "operating"
  Contexts,   \* what can be confirmed: [types |-> ..., scopes |-> ...]
  Texts,      \* what can be typed
  Malformed   \* the texts that are no drawing number

(* Kinds and scopes are listed once (CARD_TEMPLATES; a context is of the   *)
(* inside, the outside or both).                                           *)
ASSUME KindsAssumption ==
  /\ CardTypes \in Seq(STRING)
  /\ \A i, j \in DOMAIN CardTypes : i # j => CardTypes[i] # CardTypes[j]
ASSUME ContextsAssumption ==
  \A context \in Contexts :
    /\ context.types \subseteq Range(CardTypes)
    /\ context.scopes \in Seq(STRING) \ {<<>>}
    /\ \A i, j \in DOMAIN context.scopes : i # j => context.scopes[i] # context.scopes[j]
ASSUME TextsAssumption == "" \notin Texts

(* Every kind of card is shown while no analysis type is confirmed.        *)
NoContext == [types |-> Range(CardTypes), scopes |-> <<"">>]

MicroChannel == "Micro-Channel"
FinAndTube   == "Fin&Tube"

Product(id, drawing) ==
  [id |-> id, drawing |-> drawing, name |-> "", custom |-> FALSE, difference |-> ""]
Fan(id) == [id |-> id, location |-> "", rpm |-> ""]

BlankCard(type, scope, id) ==
  [id |-> id, type |-> type, scope |-> scope, hex |-> "", mode |-> "",
   fields |-> [f \in Range(FieldsOf[type]) |-> ""],
   fans   |-> IF type = "operating" THEN <<Fan(1)>> ELSE <<>>]

Mapped(s, Op(_)) == [k \in DOMAIN s |-> Op(s[k])]
Ids(s)           == {s[k].id : k \in DOMAIN s}
NextId(ids)      == Max(ids \union {1}) + 1
NoId             == 0
OfType(cards, type)  == {k \in DOMAIN cards : cards[k].type = type}
CardsOf(form, type) == Picked(form.cards, OfType(form.cards, type))

----------------------------------------------------------------------------
(* Normal form.                                                            *)

(* The name shown for a product is its drawing number until one is given;  *)
(* only a comparison product differs from the base.                        *)
NormalProducts(products) ==
  [k \in DOMAIN products |->
     [products[k] EXCEPT
        !.name       = IF products[k].custom THEN @ ELSE products[k].drawing,
        !.difference = IF k = 1 THEN "" ELSE @]]

(* A card belongs to the scope it names if that is requested, to the first *)
(* requested scope if it names none, and to no form otherwise.             *)
ScopeOf(c, scopes) ==
  IF c.scope \in Range(scopes) THEN c.scope
  ELSE IF c.scope = "" THEN scopes[1]
  ELSE "dropped"

NormalCard(c, scope) ==
  LET hex == IF c.type # "heat_exchanger" THEN ""
             ELSE IF c.hex # "" THEN c.hex
             ELSE FinAndTube
  IN [c EXCEPT !.scope  = scope,
               !.hex    = hex,
               !.mode   = IF Len(c.fans) = 1 THEN "" ELSE @,
               !.fields = [f \in DOMAIN @ |->
                 IF hex = MicroChannel /\ f = "fin" THEN "Flat" ELSE @[f]]]

(* The cards of a requested scope and kind, by their places; a group that  *)
(* has none gets a blank card, place 0, which has no id yet.               *)
OwnCards(form, i, t) ==
  {k \in OfType(form.cards, CardTypes[t]) :
     ScopeOf(form.cards[k], form.context.scopes) = form.context.scopes[i]}
\* Mutant: a group may be left without a card.
GroupAsGiven(form, i, t) == OwnCards(form, i, t)
Group(form, i, t) == IF OwnCards(form, i, t) = {} THEN {0} ELSE OwnCards(form, i, t)

(* The cards are grouped by scope and then by kind, and within a group     *)
(* they stay in their order.                                               *)
CardPlaces(form) ==
  UNION {{<<i, t, k>> : k \in Group(form, i, t)} :
           i \in DOMAIN form.context.scopes,
           t \in {u \in DOMAIN CardTypes : CardTypes[u] \in form.context.types}}
CardAt(form, i, t, k) ==
  LET scope == form.context.scopes[i]
  IN  NormalCard(IF k = 0 THEN BlankCard(CardTypes[t], scope, NoId) ELSE form.cards[k], scope)
Arranged(form) ==
  LET order == InOrder(CardPlaces(form), [p \in CardPlaces(form) |-> p])
  IN  [n \in DOMAIN order |-> CardAt(form, order[n][1], order[n][2], order[n][3])]

(* A card keeps its id unless an earlier one of its kind has it; a blank   *)
(* card wants to be number 1.  Who does not get what it wants gets an id   *)
(* that is new.                                                            *)
Wish(c) == IF c.id = NoId THEN 1 ELSE c.id
Granted(cards, k) ==
  \A j \in 1..k - 1 : j \in OfType(cards, cards[k].type) => Wish(cards[j]) # Wish(cards[k])
Identified(cards) ==
  [k \in DOMAIN cards |->
     LET alike == OfType(cards, cards[k].type)
     IN  [cards[k] EXCEPT !.id =
            IF Granted(cards, k) THEN Wish(cards[k])
            ELSE Max({Wish(cards[j]) : j \in alike})
                 + Cardinality({j \in alike : j <= k /\ ~Granted(cards, j)})]]

Normal(form) == [form EXCEPT !.products = NormalProducts(@),
                             !.cards    = Identified(Arranged(form))]

NewForm ==
  Normal([general  |-> [f \in Range(General) |-> ""],
          products |-> <<Product(0, "")>>,
          cards    |-> <<>>,
          context  |-> NoContext,
          locked   |-> FALSE])

----------------------------------------------------------------------------
(* What is missing, and what is asked.  A slot is one writable place.      *)

Slot(kind, type, id, field, fan) ==
  [kind |-> kind, type |-> type, id |-> id, field |-> field, fan |-> fan]
GeneralSlot(f)      == Slot("general", "", 0, f, 0)
ProductSlot(p, f)   == Slot("product", "", p.id, f, 0)
CardSlot(c, f)      == Slot("card", c.type, c.id, f, 0)
FanSlot(c, fan, f)  == Slot("fan", c.type, c.id, f, fan.id)
NoSlot              == Slot("none", "", 0, "", 0)

(* A drawing number is missing, malformed or already used by an earlier    *)
(* product; a comparison product does not say how it differs.              *)
DrawingFault(products, k) ==
  \/ products[k].drawing \in Malformed \union {""}
  \/ \E j \in 1 .. k - 1 : products[j].drawing = products[k].drawing
ProductFaults(products, k) ==
  (IF DrawingFault(products, k) THEN <<ProductSlot(products[k], "drawing")>> ELSE <<>>)
  \o (IF k > 1 /\ products[k].difference = ""
      THEN <<ProductSlot(products[k], "difference")>> ELSE <<>>)

(* The fans of a card are one fault, whatever it is that they lack.        *)
FansGiven(c) ==
  /\ \A k \in DOMAIN c.fans : c.fans[k].rpm # ""
  /\ Len(c.fans) > 1 =>
       CASE c.mode = "common"     -> Cardinality({c.fans[k].rpm : k \in DOMAIN c.fans}) = 1
         [] c.mode = "individual" -> \A k \in DOMAIN c.fans : c.fans[k].location # ""
         [] OTHER                 -> FALSE

\* Mutant: a missing place counts however the fans are entered.
FanQuestionOfPlaces(c) ==
  LET k == SelectInSeq(c.fans, LAMBDA f : f.rpm = "" \/ f.location = "")
  IN IF k = 0 THEN <<>> ELSE <<FanSlot(c, c.fans[k], "rpm")>>

(* Of the fans of a card the question is about the first that lacks        *)
(* something, its place before its speed; none lacks anything when only    *)
(* the way they are entered is open, or when "the same for all" is not.    *)
FanQuestion(c) ==
  LET individual == c.mode = "individual"
      k == SelectInSeq(c.fans, LAMBDA f : f.rpm = "" \/ (individual /\ f.location = ""))
  IN CASE k = 0 -> <<>>
       [] k > 0 /\ individual /\ c.fans[k].location = "" -> <<FanSlot(c, c.fans[k], "location")>>
       [] OTHER -> <<FanSlot(c, c.fans[k], "rpm")>>

CardQuestions(c) ==
  IF c.type = "operating"
  THEN IF FansGiven(c) THEN <<>> ELSE FanQuestion(c)
  ELSE Mapped(SelectSeq(FieldsOf[c.type], LAMBDA f : c.fields[f] = ""),
              LAMBDA f : CardSlot(c, f))

(* The questions in the order of the faults, of which the first is asked   *)
(* and guidance is given when there is none; before the context is         *)
(* confirmed no condition is looked at.                                    *)
Questions(form) ==
  Mapped(SelectSeq(General, LAMBDA f : form.general[f] = ""), GeneralSlot)
  \o FlattenSeq([k \in DOMAIN form.products |-> ProductFaults(form.products, k)])
  \o (IF form.locked THEN FlattenSeq(Mapped(form.cards, CardQuestions)) ELSE <<>>)

----------------------------------------------------------------------------
(* What the assistant may write.                                           *)

ReadOnly(c, f)    == c.hex = MicroChannel /\ f = "fin"
WritableCards(form, type, f) ==
  {c \in Range(CardsOf(form, type)) : form.locked /\ ~ReadOnly(c, f)}

(* Places that take one value.                                             *)
SlotsOf(form) ==
  {GeneralSlot(f) : f \in Range(General)}
  \union {ProductSlot(form.products[k], f) :
            k \in DOMAIN form.products, f \in {"drawing", "name"}}
  \union {ProductSlot(form.products[k], "difference") : k \in 2 .. Len(form.products)}
  \union (UNION {{CardSlot(c, f) : f \in {g \in Range(FieldsOf[c.type]) : ~ReadOnly(c, g)}} :
                   c \in {d \in Range(form.cards) : form.locked}})
  \union (UNION {{FanSlot(c, fan, f) : fan \in Range(c.fans), f \in {"location", "rpm"}} :
                   c \in {d \in Range(form.cards) : form.locked}})

(* Alternatives written over all cards of a kind; speeds only while every  *)
(* card has one fan.                                                       *)
SeriesOffered(form, type, f) ==
  /\ WritableCards(form, type, f) # {}
  /\ type = "operating" => \A c \in Range(CardsOf(form, type)) : Len(c.fans) = 1

(* All fans of a card at once: 2 or more speeds, a place for each only     *)
(* when they are entered one by one, one speed when they are the same.     *)
FansAccepted(form, c, values, places, mode) ==
  LET kept == IF mode = "" THEN c.mode ELSE mode
  IN /\ form.locked
     /\ Len(values) >= 2
     /\ places # <<>> => Len(places) = Len(values) /\ kept = "individual"
     /\ kept = "common" => Cardinality(Range(values)) = 1

----------------------------------------------------------------------------
(* How it is written.                                                      *)

WithProduct(form, id, f, value) ==
  [form EXCEPT !.products = Mapped(@, LAMBDA p :
     IF p.id # id THEN p
     ELSE CASE f = "drawing"    -> [p EXCEPT !.drawing = value]
            [] f = "difference" -> [p EXCEPT !.difference = value]
            [] f = "name"       -> [p EXCEPT !.name = value, !.custom = TRUE])]

WithCard(form, type, id, Op(_)) ==
  [form EXCEPT !.cards = Mapped(@, LAMBDA c :
     IF c.type = type /\ c.id = id THEN Op(c) ELSE c)]

WithFan(c, fan, f, value) ==
  [c EXCEPT !.fans = Mapped(@, LAMBDA x :
     IF x.id # fan THEN x
     ELSE IF f = "location" THEN [x EXCEPT !.location = value]
                            ELSE [x EXCEPT !.rpm = value])]

Written(form, slot, value) ==
  CASE slot.kind = "general" -> [form EXCEPT !.general[slot.field] = value]
    [] slot.kind = "product" -> WithProduct(form, slot.id, slot.field, value)
    [] slot.kind = "card"    -> WithCard(form, slot.type, slot.id,
                                  LAMBDA c : [c EXCEPT !.fields[slot.field] = value])
    [] slot.kind = "fan"     -> WithCard(form, slot.type, slot.id,
                                  LAMBDA c : WithFan(c, slot.fan, slot.field, value))

(* A list of drawing numbers replaces the product cards, or goes after the *)
(* numbers they have; either way the cards are new ones, with the ids of   *)
(* their positions and nothing else kept.                                  *)
Distinct(values) ==
  Picked(values, {k \in DOMAIN values : values[k] # "" /\ \A j \in 1..k - 1 : values[j] # values[k]})
WithProducts(form, values, append) ==
  LET all == Distinct((IF append THEN Mapped(form.products, LAMBDA p : p.drawing) ELSE <<>>)
                      \o values)
  IN [form EXCEPT !.products = [k \in DOMAIN all |-> Product(k - 1, all[k])]]

(* The n-th alternative goes to the n-th card of the kind, a further one   *)
(* to a copy of the first; a card without an alternative is no longer      *)
(* there.                                                                  *)
SeriesCard(c, f, value) ==
  IF c.type = "operating"
  THEN [c EXCEPT !.fans = <<[@[1] EXCEPT !.id = 1, !.rpm = value]>>]
  ELSE [c EXCEPT !.fields[f] = value]
\* Mutant: as many cards are kept as the first scope has.
WithSeriesOfScope(form, type, f, values) ==
  LET own  == CardsOf(form, type)
      keep == Picked(own, {k \in DOMAIN own : own[k].scope = own[1].scope})
      base == NextId(Ids(own))
      new  == [k \in DOMAIN values |->
                 SeriesCard(IF k <= Len(keep) THEN keep[k]
                            ELSE [own[1] EXCEPT !.id = base + k], f, values[k])]
      at   == SelectInSeq(form.cards, LAMBDA c : c.type = type)
  IN [form EXCEPT !.cards =
        SubSeq(@, 1, at - 1) \o new
        \o Picked(@, {k \in DOMAIN @ : k >= at /\ @[k].type # type})]

WithSeries(form, type, f, values) ==
  LET own  == CardsOf(form, type)
      base == NextId(Ids(own))
      new  == [k \in DOMAIN values |->
                 SeriesCard(IF k <= Len(own) THEN own[k]
                            ELSE [own[1] EXCEPT !.id = base + k], f, values[k])]
      at   == SelectInSeq(form.cards, LAMBDA c : c.type = type)
  IN [form EXCEPT !.cards =
        SubSeq(@, 1, at - 1) \o new
        \o Picked(@, {k \in DOMAIN @ : k >= at /\ @[k].type # type})]

WithFans(form, c, values, places, mode) ==
  WithCard(form, c.type, c.id, LAMBDA d :
    [d EXCEPT
       !.mode = IF mode = "" THEN @ ELSE mode,
       !.fans = [k \in DOMAIN values |->
         [id       |-> k,
          location |-> IF places # <<>> THEN places[k]
                       ELSE IF k <= Len(d.fans) THEN d.fans[k].location ELSE "",
          rpm      |-> values[k]]]])
=============================================================================
