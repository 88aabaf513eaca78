------------------------------- MODULE MCParts -------------------------------
(***************************************************************************)
(* Parts that share no state, each checked on its own: which of them moves *)
(* is fixed in the initial state, and the others rest in theirs.           *)
(***************************************************************************)
EXTENDS FormSync, DeferredFacts, ContextForm, Workspaces, CarriedState

CONSTANT Lone     \* the tab that is alone in its browser
VARIABLE moving   \* the part that moves

partsVars == <<formVars, factVars, contextVars, fenceVars, carriedVars, moving>>

PartsInit ==
  /\ FormInit /\ FactsInit /\ ContextInit /\ FenceInit /\ CarriedInit
  /\ moving \in {"sync", "facts", "context", "fence", "carried"}
  /\ moving # "facts" => document = [p \in Places |-> Nowhere]
  /\ moving # "carried" => carried = NewRequest

PartsNext ==
  /\ UNCHANGED moving
  /\ \/ moving = "sync" /\ FormNext /\ UNCHANGED <<factVars, contextVars, fenceVars, carriedVars>>
     \/ moving = "facts" /\ FactsNext /\ UNCHANGED <<formVars, contextVars, fenceVars, carriedVars>>
     \/ moving = "context" /\ ContextNext /\ UNCHANGED <<formVars, factVars, fenceVars, carriedVars>>
     \/ moving = "fence" /\ FenceNext /\ UNCHANGED <<formVars, factVars, contextVars, carriedVars>>
     \/ moving = "carried" /\ CarriedNext /\ UNCHANGED <<formVars, factVars, contextVars, fenceVars>>

PartsSpec == PartsInit /\ [][PartsNext]_partsVars

(* A preview that is not registered as rendered is not looked at again, so *)
(* states that differ in it only are one.                                  *)
LivePanel == IF renderedVersion = Missing THEN NoVersion ELSE panel
LiveForm  == <<inputs, pageShape, dirty, pageVersion, approved, syncedVersion, renderedVersion,
               LivePanel, refreshDue, refresh, calls, cards, refreshed, server, proposals,
               formEdits, replaced, hasty, overtaken>>
(* With one thread nobody looks again at when a fact was checked, nor at   *)
(* what a decided proposal would write.                                    *)
Unchecked(fs) == {[f EXCEPT !.checked = 0, !.resolution = "ready"] : f \in fs}
LiveFacts == <<document, docVersion, Unchecked(facts), told, saves,
               [w \in FactThreads |-> IF handler[w].at = "replace"
                                      THEN [handler[w] EXCEPT !.seen = {}] ELSE handler[w]],
               [p \in DOMAIN proposed |-> IF p \in Pending THEN proposed[p]
                                          ELSE [proposed[p] EXCEPT !.writes = << >>, !.base = 0]]>>

(* Of a call the fields count that a later step or a property reads; so    *)
(* does the place of an event in the log, and the request it is of.        *)
LiveCall(c) ==
  [c EXCEPT !.op      = IF c.at \in {"record", "answer"} /\ @ # "create" THEN "" ELSE @,
            !.code    = "",
            !.version = IF c.at \in {"record", "answer"} THEN 0 ELSE @,
            !.events  = {<<e.id, e.sequence>> : e \in @},
            !.mine    = IF c.at = "answer" THEN {} ELSE @]
LiveFence == <<versions, owners, issued, jar, known, provided, log.sequence,
               [k \in DOMAIN log.events |-> log.events[k].id],
               [t \in Tabs |-> LiveCall(callOf[t])], crowded, sentCalls>>
Live      == CASE moving = "sync"    -> <<moving, LiveForm>>
               [] moving = "facts"   -> <<moving, LiveFacts>>
               [] moving = "context" -> <<moving, contextVars>>
               [] moving = "fence"   -> <<moving, LiveFence>>
               [] moving = "carried" -> <<moving, carriedVars>>

(* Nothing distinguishes two places, two values of a field, or two tabs of *)
(* one browser.                                                            *)
Symmetry == Permutations(Places) \cup Permutations(Contained) \cup Permutations(Tabs \ {Lone})

(* Every part keeps its types, whichever of them moves.                    *)
PartsTypeOK == FormTypeOK /\ FactsTypeOK /\ ContextTypeOK /\ WorkspaceTypeOK /\ CarriedTypeOK

(* A product with two chassis, one next to it that has no scopes, and one  *)
(* without chassis, of another division that does not derive the platform. *)
Leaf(id, path, chassis) ==
  [id |-> id, division |-> path[1], lineup |-> path[2], platform |-> path[3],
   chassis |-> chassis]
Window      == <<"RAC", "Window", "Window">>
MCLeaves    == {Leaf(1, Window, "a"), Leaf(2, Window, "b"),
                Leaf(4, <<"RAC", "PTAC", "PTAC">>, "y"),
                Leaf(3, <<"Chiller", "Screw", "Air">>, Null)}
MCWindow    == [division |-> Window[1], lineup |-> Window[2], platform |-> Window[3]]
MCProjects  == [q1 |-> "RAC", q2 |-> "Chiller"]

(* Two products and one card.                                              *)
MCProducts == <<"g", "h">>
MCSettings == <<"c">>

(* Two tabs of one browser and one of another.                             *)
MCBrowser == [t \in Tabs |-> IF t = Lone THEN "b2" ELSE "b1"]

(* Late in the choice of a product at most one call waits for its answer;  *)
(* at most two tabs, and at most two calls of the form, wait at a time.    *)
Near == /\ moving = "context" => Cardinality(waiting) < 2 \/ choices <= 6
        /\ moving = "fence" => Cardinality({t \in Tabs : callOf[t].at # "idle"}) <= 2
        /\ moving = "sync" => Cardinality({t \in Tasks : calls[t].at # "idle"}) <= 2
=============================================================================
