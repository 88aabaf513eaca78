---------------------------- MODULE CarriedState ----------------------------
(***************************************************************************)
(* The calls whose server keeps nothing: the caller sends the request it   *)
(* holds, and the answer carries the request back.  Between two calls the  *)
(* caller edits what it holds, and it may send a draft or a proposal of an *)
(* earlier answer with a later request.                                    *)
(*                                                                         *)
(* Of the request the general fields are one number, a product or a card   *)
(* is filled or not, and the kind of analysis is a number; the review part *)
(* (draft, final review, submission) goes through the server as it was     *)
(* sent unless the call replaces it.  approve_candidates is left out: it   *)
(* marks fields that the next validation derives anew from the cards.      *)
(***************************************************************************)
EXTENDS Integers, SequencesExt

CONSTANTS Parts,       \* the products, in the order of their cards
          Settings,    \* the condition cards
          CarriedLimit \* Bound: how often the caller edits or calls

ASSUME CarriedAssumption ==
  /\ CarriedLimit \in Nat
  /\ Parts \in Seq(Range(Parts)) /\ Settings \in Seq(Range(Settings))

Alone  == ""   \* the one scope
NoOne  == "none"
Matrix == INSTANCE CaseMatrix WITH
            Products <- Parts, Cards <- Settings, Scopes <- <<Alone>>,
            CardScope <- [c \in Range(Settings) |-> Alone], None <- NoOne

VARIABLES carried,   \* the request the caller holds
          kept,      \* a draft it kept from an answer it did not take over
          offer,     \* the last proposal it was given
          steps

carriedVars == <<carried, kept, offer, steps>>

Analyses == {1}      \* 0: no kind of analysis
Numbered == {0, 1}   \* 0: no request number
NoDraft  == [status |-> "", of |-> << >>, text |-> ""]
NoResult == [by |-> "", can |-> FALSE, payload |-> << >>]
NoOffer  == [prints |-> << >>, writes |-> << >>]

Inputs(doc) == [general |-> doc.general, content |-> doc.content, rows |-> doc.rows]

CanSubmitInputs(i) ==
  /\ i.general # 0
  /\ \A s \in Matrix!Sources : i.content[s] # Matrix!Unfilled
  /\ Matrix!Blocking(Matrix!Verdict(i.rows, i.content)) = {}

(* Nothing blocks: the fields are filled, the context is confirmed and the *)
(* matrix has usable Cases only and leaves no option out.                  *)
CanSubmit(doc) == doc.locked /\ CanSubmitInputs(Inputs(doc))

(* The rows are brought in line with their options, the options are        *)
(* recorded, and the submission says what the validator says.              *)
Normalized(doc) ==
  [doc EXCEPT
    !.rows    = Matrix!Normal(@, doc.content, [s \in {Alone} |-> doc.options \cap Range(Parts)]),
    !.options = {s \in Matrix!Sources : doc.content[s] # Matrix!Unfilled}]
Validated(doc) ==
  LET n == Normalized(doc) IN [n EXCEPT !.submission = CanSubmit(n)]

NewRequest ==
  Validated([general |-> 0, content |-> [s \in Matrix!Sources |-> Matrix!Unfilled],
             rows |-> << >>, options |-> {}, kind |-> 0, locked |-> FALSE, number |-> 0,
             draft |-> NoDraft, result |-> NoResult, submission |-> FALSE])

-----------------------------------------------------------------------------
(* What a call makes of the request.                                       *)

DraftOf(doc) ==
  LET v == Validated(doc)
  IN  [status |-> IF CanSubmit(v) THEN "ready" ELSE "blocked", of |-> Inputs(v),
       text   |-> "written"]

(* A ready draft may come with a better text, which counts once approved.  *)
Suggested(d) == IF d.status = "ready" THEN {d, [d EXCEPT !.text = "suggested"]} ELSE {d}
Approved(d)  == IF d.text = "suggested" THEN [d EXCEPT !.text = "approved"] ELSE d

Drafted(doc, d) == [Validated(doc) EXCEPT !.draft = d]

(* The review takes a ready draft as it is, whatever it was made from, and *)
(* makes one otherwise.                                                    *)
DraftForReview(doc, d) == IF d.status = "ready" THEN d ELSE DraftOf(doc)

Reviewed(doc, d) ==
  LET v == Validated(doc)
      used == DraftForReview(v, d)
  IN  [v EXCEPT !.draft = used,
                !.result = [by |-> "review", can |-> CanSubmit(v),
                            payload |-> IF CanSubmit(v) THEN <<Inputs(v), v.number, used>>
                                        ELSE << >>]]

(* A submission makes no payload, and gives a number to what has none.     *)
Submitted(doc) ==
  LET v == Validated(doc)
      n == IF CanSubmit(v) /\ v.number = 0 THEN Validated([doc EXCEPT !.number = 1]) ELSE v
  IN  [n EXCEPT !.result = [by |-> "submit", can |-> CanSubmit(n), payload |-> << >>]]

LockedOn(doc, kind) ==
  Validated([doc EXCEPT !.kind = kind, !.locked = TRUE, !.number = 1])

(* The Word file of a request: what is missing in the selections counts    *)
(* first, then equal Cases, then options that no Case uses.                *)
WordOfRows(rows, content) ==
  LET v    == Matrix!Verdict(rows, content)
      open == rows = << >> \/ \E i \in DOMAIN rows : ~Matrix!Complete(rows[i], content)
  IN  CASE open -> "selection"
        [] ~open /\ v.rows # {} -> "duplicate"
        [] ~open /\ v.rows = {} /\ v.unused # {} -> "coverage"
        [] OTHER -> "file"

\* Mutant: the rows are looked at as they were sent.
WordAnswerAsSent(doc) == WordOfRows(doc.rows, doc.content)
WordAnswer(doc) == WordOfRows(Normalized(doc).rows, doc.content)

-----------------------------------------------------------------------------
(* Proposals.  What a proposal was made from is known by four prints.      *)

Prints(doc) ==
  <<doc.general, doc.number, [p \in Range(Parts) |-> doc.content[p]], doc.kind,
    [c \in Range(Settings) |-> doc.content[c]], doc.rows, doc.options>>

Writes == [field : {"general"}, value : {1}] \cup [field : Matrix!Sources, value : {1}]
Patched(doc, w) ==
  Validated(IF w.field = "general" THEN [doc EXCEPT !.general = w.value]
            ELSE [doc EXCEPT !.content[w.field] = w.value])

-----------------------------------------------------------------------------
(* Actions.                                                                *)

Moves == steps < CarriedLimit /\ steps' = steps + 1

Edits(next) ==
  /\ Moves /\ next # carried
  /\ carried' = next
  /\ UNCHANGED <<kept, offer>>

EditGeneral(v)  == Edits([carried EXCEPT !.general = v])
EditContent(s, v) == Edits([carried EXCEPT !.content[s] = v])
Reopen          == Edits([carried EXCEPT !.locked = FALSE])
PickCase(i, f, o) == Edits([carried EXCEPT !.rows[i].pick[f] = o])
DropCase(i)     == Edits([carried EXCEPT !.rows = RemoveAt(@, i)])

Taken(next) ==
  /\ Moves
  /\ carried' = next
  /\ UNCHANGED <<kept, offer>>

New               == Taken(NewRequest)
Save              == Taken(Validated(carried))
SelectKind(k)     == Taken(Validated([Normalized(carried) EXCEPT !.kind = k]))
RefreshFieldset(k) == Taken(Validated([Validated(carried) EXCEPT !.kind = k]))
LockOn(k)        == ~carried.locked /\ Taken(LockedOn(carried, k))
Draft             == \E d \in Suggested(DraftOf(carried)) : Taken(Drafted(carried, d))
Submit            == Taken(Submitted(carried))
Review(d)         == Taken(Reviewed(carried, d))

KeepDraft ==
  /\ Moves
  /\ \E d \in Suggested(DraftOf(carried)) : kept' = d
  /\ UNCHANGED <<carried, offer>>

Propose(w) ==
  /\ Moves
  /\ offer' = [prints |-> Prints(carried), writes |-> <<w>>]
  /\ UNCHANGED <<carried, kept>>

(* A proposal made from something else is not applied; nothing records     *)
(* that one was.                                                           *)
Apply ==
  /\ offer # NoOffer /\ offer.prints = Prints(carried)
  /\ Taken(Patched(carried, offer.writes[1]))

(* A new request, or one that was filled in elsewhere.                     *)
CarriedInit ==
  /\ \E filled \in {0, 1}, n \in Numbered :
       /\ n <= filled
       /\ carried = Validated([NewRequest EXCEPT
                        !.general = filled, !.content = [s \in Matrix!Sources |-> filled],
                        !.locked  = (n = 1), !.number = n])
  /\ kept = NoDraft /\ offer = NoOffer /\ steps = 0

CarriedNext ==
  \/ \E v \in {0, 1} : EditGeneral(v)
  \/ \E s \in Matrix!Sources, v \in {Matrix!Unfilled, 1} : EditContent(s, v)
  \/ \E i \in DOMAIN carried.rows :
       \/ DropCase(i)
       \/ \E f \in Matrix!Fields :
            \E o \in Range(Matrix!Options(carried.content, Alone, f)) : PickCase(i, f, o)
  \/ Reopen \/ New \/ Save \/ Draft \/ KeepDraft \/ Submit \/ Apply
  \/ \E k \in Analyses : SelectKind(k) \/ RefreshFieldset(k) \/ LockOn(k)
  \/ \E d \in {carried.draft, kept} : Review(d) \/ Review(Approved(d))
  \/ \E w \in Writes : Propose(w)

CarriedSpec == CarriedInit /\ [][CarriedNext]_carriedVars

-----------------------------------------------------------------------------
CarriedTypeOK ==
  /\ carried.general \in {0, 1} /\ carried.kind \in Analyses \cup {0} /\ carried.number \in Numbered
  /\ carried.content \in [Matrix!Sources -> {Matrix!Unfilled, 1}]
  /\ carried.options \subseteq Matrix!Sources
  /\ {carried.locked, carried.submission} \subseteq BOOLEAN
  /\ \A d \in {carried.draft, kept} :
       d.status \in {"", "ready", "blocked"} /\ d.text \in {"", "written", "suggested", "approved"}
  /\ (carried.result.payload # << >>) <=> (carried.result.by = "review" /\ carried.result.can)

(* Whatever may be submitted can be exported, and what may not be exported *)
(* for its Cases may not be submitted.                                     *)
SubmittableIsExportable ==
  carried.locked /\ CanSubmit(Validated(carried)) => WordAnswer(carried) = "file"

=============================================================================
