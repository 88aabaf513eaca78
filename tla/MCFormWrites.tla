---------------------------- MODULE MCFormWrites ----------------------------
(***************************************************************************)
(* The form under its writers, and the search of documents, which reads a  *)
(* request and writes nothing: each checked on its own, the other at rest. *)
(***************************************************************************)
EXTENDS FormWrites, Retrieval

VARIABLE moving   \* what moves: the form, or a search

bothVars == <<writesVars, retrievalVars, moving>>
Still    == stage = "asked" /\ library = <<>> /\ asked = ReviewCall
BothInit == /\ WritesInit /\ RetrievalInit /\ moving \in {"form", "search"}
            /\ moving = "form" => Still
BothNext ==
  /\ UNCHANGED moving
  /\ \/ moving = "form" /\ WritesNext /\ UNCHANGED retrievalVars
     \/ moving = "search" /\ RetrievalNext /\ UNCHANGED writesVars
BothSpec == BothInit /\ [][BothNext]_bothVars

(* One general field, and a heat exchanger with one field of its own       *)
(* beside the fin; lists of new values, of one value twice and of three    *)
(* values.                                                                 *)
MCGeneral   == <<"purpose">>
MCCardTypes == <<"operating", "heat_exchanger">>
MCFieldsOf  == [t \in Range(MCCardTypes) |-> IF t = "operating" THEN <<>> ELSE <<"tube", "fin">>]
MCContexts  == {[types |-> Range(MCCardTypes), scopes |-> <<"indoor", "outdoor">>]}
MCLists     == {<<"a", "b">>, <<"a", "a">>, <<"b", "a", "a">>}

(* The form and the search keep their types, whichever of them moves.      *)
FormAndSearchTypeOK == WritesTypeOK /\ RetrievalTypeOK

(* The sections of the form (general fields, products, each kind of card)  *)
(* meet in few places, so behaviours in which two of them have been        *)
(* touched are not followed further.                                       *)
Touched(t) ==
  \/ Len(CardsOf(form, t)) # Len(form.context.scopes)
  \/ \E c \in Range(CardsOf(form, t)) : HasContent(c) \/ Len(c.fans) > 1
OneSection ==
  LET products == form.products \notin {NewForm.products, CollectedProducts(NewForm.products)}
      general  == form.general # NewForm.general
  IN  Cardinality({t \in Range(CardTypes) : Touched(t)}
                  \cup (IF products THEN {"products"} ELSE {})
                  \cup (IF general THEN {"general"} ELSE {})) <= 1

(* What the last write was is named by the action properties only, which   *)
(* are checked on every step.                                              *)
WithoutWrote == <<form, shown, writes, retrievalVars, moving>>

(* Documents: files with a piece on each place, two on one, and a store    *)
(* with passages by word and by vector, with and without location; a store *)
(* with more of a word than is read, and one passage twice.                *)
Passage(id, store, type, doc, place, text, words, near, indexed, queued, boost) ==
  [id |-> id, store |-> store, type |-> type, source |-> doc, path |-> doc, place |-> place,
   text |-> text, words |-> words, near |-> near, indexed |-> indexed, queued |-> queued,
   boost |-> boost]
File(id, type, doc, place, words, boost) ==
  Passage(id, "file", type, doc, place, id, words, 0, FALSE, FALSE, boost)
MCLibraries ==
  { <<>>,
    << File(1, "sop", 1, 1, {"q", "r"}, 0), File(2, "nxi", 2, 1, {"q"}, 0),
       File(3, "similar_report", 3, 1, {"q"}, 100), File(4, "similar_report", 3, 1, {"r"}, 0),
       File(5, "similar_report", 3, 2, {"q", "r"}, 0),
       Passage(6, "db", "sop", 5, 0, 6, {"q"}, 80, TRUE, TRUE, 0),
       Passage(7, "db", "theory_basis", 6, 2, 7, {}, 90, FALSE, TRUE, 0) >>,
    << Passage(1, "db", "theory_basis", 1, 1, 1, {"q"}, 10, TRUE, TRUE, 0),
       Passage(2, "db", "sop", 2, 1, 2, {"q", "r"}, 0, TRUE, FALSE, 0),
       Passage(3, "db", "nxi", 3, 0, 3, {"r"}, -20, TRUE, TRUE, 100),
       Passage(4, "db", "theory_basis", 1, 1, 1, {"q"}, 95, FALSE, TRUE, 0),
       Passage(5, "db", "similar_report", 4, 3, 5, {"q", "r"}, 60, TRUE, FALSE, 0),
       File(6, "product_information", 5, 1, {"q"}, 300), File(7, "sop", 6, 1, {"q", "r"}, 0) >> }
MCTopKs == {-1, 0, 2}
=============================================================================
