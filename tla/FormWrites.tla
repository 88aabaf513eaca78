----------------------------- MODULE FormWrites ----------------------------
(***************************************************************************)
(* The request form of RequestForm under its two writers: the page, which  *)
(* sends what its inputs show (ui.py), and the assistant, whose operations *)
(* the write contract allows (agent_write_contract.py, chat_patch.py).     *)
(* Whatever is written is brought to normal form.  One step is one edit    *)
(* with the save that follows it, or one approved operation; when the two  *)
(* overlap is the subject of FormSync and ProposalLedger.                  *)
(***************************************************************************)
EXTENDS RequestForm

CONSTANTS
  Lists,                       \* the lists of 2 or more values the assistant writes
  MaxWrites, MaxFans, MaxCards \* bounds

ASSUME ListsAssumption == Lists \subseteq Seq(Texts) \ {<<>>}
ASSUME BoundsAssumption == {MaxWrites, MaxFans, MaxCards} \subseteq Nat

VARIABLES
  form,    \* the request as the service keeps it
  shown,   \* the scope tab whose condition cards the page shows
  wrote,   \* what the last step was: [by |-> ..., slot |-> ..., value |-> ..., values |-> ...]
  writes   \* number of writes so far (bound)

writesVars == <<form, shown, wrote, writes>>

Wrote(by, slot, value, values) == [by |-> by, slot |-> slot, value |-> value, values |-> values]
Nothing == Wrote("nobody", NoSlot, "", <<>>)

----------------------------------------------------------------------------
(* The page.  What it shows of the form, and what it sends of what it      *)
(* shows.                                                                  *)

(* A comparison product has one description on the page: how it differs,   *)
(* or else its name.  Both are sent as what the description says.          *)
Description(p) == IF p.difference # "" THEN p.difference ELSE p.name
CollectedProducts(products) ==
  [k \in DOMAIN products |->
     LET said == IF k = 1 THEN "Base" ELSE Description(products[k])
     IN [products[k] EXCEPT !.name       = said,
                            !.custom     = TRUE,
                            !.difference = IF k = 1 THEN "" ELSE said]]

(* One input shows the speed of all fans when they are entered together,   *)
(* and is empty when they differ.                                          *)
CommonSpeed(fans) ==
  IF \A k \in DOMAIN fans : fans[k].rpm = fans[1].rpm THEN fans[1].rpm ELSE ""

(* A field of a heat exchanger is chosen after those before it: while one  *)
(* of them is empty its input is disabled, and empty whatever it holds.    *)
Before(c, f) == LET keys == FieldsOf[c.type]
                IN SubSeq(keys, 1, SelectInSeq(keys, LAMBDA g : g = f) - 1)
After(c, f)  == LET keys == FieldsOf[c.type]
                IN SubSeq(keys, SelectInSeq(keys, LAMBDA g : g = f) + 1, Len(keys))
Enabled(c, f) ==
  c.type = "heat_exchanger" => \A g \in Range(Before(c, f)) : c.fields[g] # ""
CollectedFields(c) ==
  [f \in DOMAIN c.fields |-> IF Enabled(c, f) \/ ReadOnly(c, f) THEN c.fields[f] ELSE ""]

\* Mutant: whether the fans are entered together is not looked at.
CollectedCardTogether(c) ==
  IF c.scope # shown THEN c
  ELSE [c EXCEPT !.fields = CollectedFields(c),
                 !.fans   = IF Len(@) > 1
                            THEN Mapped(@, LAMBDA f : [f EXCEPT !.rpm = CommonSpeed(c.fans)])
                            ELSE @]

(* Cards of the other scope are not shown and are sent as they were.       *)
CollectedCard(c) ==
  IF c.scope # shown THEN c
  ELSE [c EXCEPT !.fields = CollectedFields(c),
                 !.fans   = IF Len(@) > 1 /\ c.mode = "common"
                            THEN Mapped(@, LAMBDA f : [f EXCEPT !.rpm = CommonSpeed(c.fans)])
                            ELSE @]

Collected == [form EXCEPT !.products = CollectedProducts(@),
                          !.cards    = Mapped(@, CollectedCard)]

PageSaves(next, slot) ==
  /\ writes < MaxWrites
  /\ writes' = writes + 1
  /\ form'   = Normal(next)
  /\ wrote'  = Wrote("page", slot, "", <<>>)
  /\ UNCHANGED shown

EditGeneral(f, v) == PageSaves([Collected EXCEPT !.general[f] = v], GeneralSlot(f))

EditDrawing(k, v) ==
  PageSaves([Collected EXCEPT !.products[k].drawing = v], ProductSlot(form.products[k], "drawing"))

EditDescription(k, v) ==
  /\ k > 1
  /\ PageSaves([Collected EXCEPT !.products[k].difference = v, !.products[k].name = v],
           ProductSlot(form.products[k], "difference"))

(* Ids of products added on the page are told apart from the ids of        *)
(* positions the assistant uses.                                           *)
AddComparison ==
  /\ Len(form.products) < MaxCards
  /\ PageSaves([Collected EXCEPT !.products =
              Append(@, [Product(Max(Ids(form.products) \union {9}) + 1, "")
                           EXCEPT !.custom = TRUE])], NoSlot)

RemoveComparison(k) ==
  /\ k > 1
  /\ PageSaves([Collected EXCEPT !.products = RemoveAt(@, k)], NoSlot)

(* A change of a heat exchanger field clears the ones that follow it (to   *)
(* go from a list to a text of one's own and back clears the field too),   *)
(* and of the exchanger's kind all of them.                                *)
EditCardField(c, f, v) ==
  /\ ~ReadOnly(c, f) /\ Enabled(c, f)
  /\ PageSaves(WithCard(Collected, c.type, c.id, LAMBDA d :
                [d EXCEPT !.fields = [g \in DOMAIN @ |->
                   IF g = f THEN v
                   ELSE IF c.type = "heat_exchanger" /\ g \in Range(After(c, f)) THEN "" ELSE @[g]]]),
              CardSlot(c, f))

ChangeExchanger(c, hex) ==
  /\ c.type = "heat_exchanger" /\ c.hex # hex
  /\ PageSaves(WithCard(Collected, c.type, c.id, LAMBDA d :
             [d EXCEPT !.hex = hex, !.fields = [g \in DOMAIN @ |-> ""]]), NoSlot)

(* The number of fans: the first ones are kept.  From one fan on, how the  *)
(* speeds are entered has to be chosen.                                    *)
ResizeFans(c, n) ==
  /\ c.type = "operating" /\ n # Len(c.fans)
  /\ PageSaves(WithCard(Collected, c.type, c.id, LAMBDA d :
             [d EXCEPT !.mode = IF n = 1 \/ Len(d.fans) = 1 THEN "" ELSE @,
                       !.fans = [k \in 1 .. n |-> IF k <= Len(d.fans) THEN d.fans[k] ELSE Fan(k)]]),
           NoSlot)

ChangeMode(c, mode) ==
  /\ Len(c.fans) > 1 /\ c.mode # mode
  /\ PageSaves(WithCard(Collected, c.type, c.id, LAMBDA d : [d EXCEPT !.mode = mode]), NoSlot)

(* Speeds and places have inputs of their own when there is one fan or     *)
(* when they are entered fan by fan; together they have one; before it is  *)
(* chosen how, none.                                                       *)
EditFan(c, k, f, v) ==
  /\ \/ Len(c.fans) = 1 /\ f = "rpm"
     \/ Len(c.fans) > 1 /\ c.mode = "individual"
  /\ PageSaves(WithCard(Collected, c.type, c.id, LAMBDA d : WithFan(d, d.fans[k].id, f, v)),
           FanSlot(c, c.fans[k], f))

EditAllFans(c, v) ==
  /\ Len(c.fans) > 1 /\ c.mode = "common"
  /\ PageSaves(WithCard(Collected, c.type, c.id, LAMBDA d :
             [d EXCEPT !.fans = Mapped(@, LAMBDA x : [x EXCEPT !.rpm = v])]), NoSlot)

(* A card is added empty, of the kind of exchanger of the first; the first *)
(* card of a kind is emptied rather than removed.                          *)
Siblings(c)   == Picked(form.cards, {k \in OfType(form.cards, c.type) : form.cards[k].scope = c.scope})
Emptied(c)    == [BlankCard(c.type, c.scope, c.id) EXCEPT !.hex = c.hex]
AddCard(c) ==
  /\ c = Siblings(c)[1] /\ Len(CardsOf(form, c.type)) < MaxCards
  /\ PageSaves([Collected EXCEPT !.cards =
              Append(@, [Emptied(c) EXCEPT !.id = NextId(Ids(CardsOf(form, c.type)))])], NoSlot)
RemoveCard(c) ==
  IF c = Siblings(c)[1]
  THEN PageSaves(WithCard(Collected, c.type, c.id, LAMBDA d : Emptied(d)), NoSlot)
  ELSE PageSaves([Collected EXCEPT !.cards =
                Picked(@, {k \in DOMAIN @ : ~(@[k].type = c.type /\ @[k].id = c.id)})], NoSlot)

ShowScope(s) ==
  /\ s # shown
  /\ shown' = s
  /\ wrote' = Nothing
  /\ UNCHANGED <<form, writes>>

----------------------------------------------------------------------------
(* The assistant.                                                          *)

ChatApplies(next, slot, value, values) ==
  /\ writes < MaxWrites
  /\ writes' = writes + 1
  /\ form'   = Normal(next)
  /\ wrote'  = Wrote("chat", slot, value, values)

WriteSlot(slot, v) ==
  /\ slot \in SlotsOf(form)
  /\ ChatApplies(Written(form, slot, v), slot, v, <<>>)
  /\ UNCHANGED shown

ListProducts(values, append) ==
  /\ ChatApplies(WithProducts(form, values, append), Slot("list", "", 0, "", 0), "", values)
  /\ UNCHANGED shown

WriteSeries(type, f, values) ==
  /\ SeriesOffered(form, type, f)
  /\ ChatApplies(WithSeries(form, type, f, values), Slot("series", type, 0, f, 0), "", values)
  /\ UNCHANGED shown

WriteFans(c, values, places, mode) ==
  /\ c.type = "operating" /\ Len(values) <= MaxFans
  /\ FansAccepted(form, c, values, places, mode)
  /\ ChatApplies(WithFans(form, c, values, places, mode), Slot("fans", c.type, c.id, "", 0), "", values)
  /\ UNCHANGED shown

(* The context is confirmed once, on the page or in the chat; the page     *)
(* then shows the first scope.                                             *)
ConfirmContext(context) ==
  /\ ~form.locked
  /\ ChatApplies([form EXCEPT !.context = context, !.locked = TRUE],
             Slot("context", "", 0, "", 0), "", <<>>)
  /\ shown' = context.scopes[1]

----------------------------------------------------------------------------
WritesInit ==
  /\ form   = NewForm
  /\ shown  = ""
  /\ wrote  = Nothing
  /\ writes = 0

(* Before the context is confirmed the page shows nothing but the general  *)
(* fields it needs, and cards of another scope are not on the page.        *)
OnPage == {c \in Range(form.cards) : form.locked /\ c.scope = shown}

PageStep ==
  \/ \E f \in Range(General), v \in Texts : form.locked /\ EditGeneral(f, v)
  \/ \E k \in DOMAIN form.products :
       \/ \E v \in Texts \union {""} :
            form.locked /\ (EditDrawing(k, v) \/ EditDescription(k, v))
       \/ form.locked /\ RemoveComparison(k)
  \/ form.locked /\ AddComparison
  \/ \E s \in Range(form.context.scopes) : form.locked /\ ShowScope(s)

PageCardStep == \E c \in OnPage :
  \/ \E f \in DOMAIN c.fields, v \in Texts \union {""} : EditCardField(c, f, v)
  \/ \E hex \in {MicroChannel, FinAndTube} : ChangeExchanger(c, hex)
  \/ \E n \in 1 .. MaxFans : ResizeFans(c, n)
  \/ \E mode \in {"", "common", "individual"} : ChangeMode(c, mode)
  \/ \E k \in DOMAIN c.fans, f \in {"location", "rpm"}, v \in Texts : EditFan(c, k, f, v)
  \/ \E v \in Texts : EditAllFans(c, v)
  \/ AddCard(c)
  \/ RemoveCard(c)

ChatStep ==
  \/ \E slot \in SlotsOf(form), v \in Texts : WriteSlot(slot, v)
  \/ \E values \in Lists, append \in BOOLEAN : ListProducts(values, append)
  \/ \E t \in Range(CardTypes), values \in Lists :
       \E f \in Range(FieldsOf[t]) \union (IF t = "operating" THEN {"rpm"} ELSE {}) :
         WriteSeries(t, f, values)
  \/ \E c \in Range(form.cards), values \in Lists, mode \in {"", "common", "individual"} :
       \E places \in {<<>>, [k \in DOMAIN values |-> CHOOSE v \in Texts : TRUE]} :
         WriteFans(c, values, places, mode)
  \/ \E context \in Contexts : ConfirmContext(context)

WritesNext == PageStep \/ PageCardStep \/ ChatStep
WritesSpec == WritesInit /\ [][WritesNext]_writesVars

----------------------------------------------------------------------------
(* What is read at a slot, and the slots an operation is addressed to.     *)
ReadAt(f, slot) ==
  CASE slot.kind = "general" -> f.general[slot.field]
    [] slot.kind = "product" ->
         LET p == f.products[SelectInSeq(f.products, LAMBDA q : q.id = slot.id)]
         IN IF slot.field = "drawing" THEN p.drawing
            ELSE IF slot.field = "difference" THEN p.difference ELSE p.name
    [] OTHER ->
         LET c == f.cards[SelectInSeq(f.cards, LAMBDA d : d.type = slot.type /\ d.id = slot.id)]
         IN IF slot.kind = "card" THEN c.fields[slot.field]
            ELSE LET x == c.fans[SelectInSeq(c.fans, LAMBDA y : y.id = slot.fan)]
                 IN IF slot.field = "location" THEN x.location ELSE x.rpm

(* Everything required that is not there yet.                              *)
Blanks(f) ==
  {GeneralSlot(g) : g \in {h \in Range(General) : f.general[h] = ""}}
  \union {ProductSlot(f.products[k], "drawing") :
            k \in {j \in DOMAIN f.products : DrawingFault(f.products, j)}}
  \union {ProductSlot(f.products[k], "difference") :
            k \in {j \in 2 .. Len(f.products) : f.products[j].difference = ""}}
  \union {s \in SlotsOf(f) :
            /\ s.kind \in {"card", "fan"}
            /\ ReadAt(f, s) = ""
            /\ s.field = "location" =>
                 \E c \in Range(f.cards) :
                   c.type = s.type /\ c.id = s.id /\ c.mode = "individual"}

(* What a save of the page leaves of the form when nothing is edited.      *)
Resaved == Normal(Collected)

----------------------------------------------------------------------------
(* Type invariant: the form has a base product and comparison products, a  *)
(* card of every kind of the analysis for every requested scope, and at    *)
(* least one fan to every operating card.                                  *)
WritesTypeOK ==
  /\ form.general \in [Range(General) -> Texts \union {""}]
  /\ Len(form.products) >= 1
  /\ form.context \in Contexts \union {NoContext}
  /\ shown \in Range(form.context.scopes)
  /\ \A s \in Range(form.context.scopes), t \in form.context.types :
       \E c \in Range(form.cards) : c.scope = s /\ c.type = t
  /\ \A c \in Range(form.cards) :
       /\ c.type \in form.context.types
       /\ (c.type = "operating") = (c.fans # <<>>)
       /\ Len(c.fans) = 1 => c.mode = ""

(* A save that edits nothing takes away no answer, but for two: the speed  *)
(* of fans that were to be the same and are not, and a field of a heat     *)
(* exchanger that was filled in before one it is chosen after.             *)
SaveTakesNothingAway ==
  \A saved \in {Resaved} : \A slot \in SlotsOf(form) :
    (slot.field # "name" /\ ReadAt(form, slot) \notin {"", ReadAt(saved, slot)}) =>
      \E c \in Range(form.cards) :
        /\ c.type = slot.type /\ c.id = slot.id /\ c.scope = shown
        /\ \/ slot.field = "rpm" /\ c.mode = "common" /\ ~FansGiven(c)
           \/ slot.kind = "card" /\ ~Enabled(c, slot.field)

(* Answering a question with a usable value closes a gap, that one, and    *)
(* opens no other, so question by question the request gets complete       *)
(* (whichever of the questions comes first, which plan_next_question asks).*)
AnswersCloseGaps == [][
  (/\ wrote'.by = "chat" /\ wrote'.slot \in Range(Questions(form))
   /\ wrote'.slot.field = "drawing" =>
        wrote'.value \notin Malformed \union {p.drawing : p \in Range(form.products)})
  => /\ wrote'.slot \in Blanks(form)
     /\ Blanks(form)' = Blanks(form) \ {wrote'.slot} ]_writesVars

(* What was filled in stays: a card with a value in it goes only when the  *)
(* user removes a card, or when a series has fewer values than the kind    *)
(* has cards.                                                              *)
HasContent(c) ==
  \/ \E f \in DOMAIN c.fields : c.fields[f] \notin {"", "Flat"}
  \/ \E k \in DOMAIN c.fans : c.fans[k].rpm # "" \/ c.fans[k].location # ""
FilledCardsStay == [][
  \A c \in Range(form.cards) :
    HasContent(c) =>
      \/ \E d \in Range(form'.cards) : d.type = c.type /\ d.id = c.id
      \/ wrote'.by = "page" /\ Len(form'.cards) = Len(form.cards) - 1
      \/ /\ wrote'.slot.kind = "series" /\ wrote'.slot.type = c.type
         /\ Len(wrote'.values) < Len(CardsOf(form, c.type)) ]_writesVars
=============================================================================
