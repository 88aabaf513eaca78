---------------------------- MODULE MCCaseReview ----------------------------
EXTENDS CaseReview

(* One product, two indoor condition cards and one outdoor card: a card    *)
(* and the product can change or go, in one scope or in both, and a Case   *)
(* can be chosen again, removed and added.                                 *)
MCProducts  == <<"g">>
MCCards     == <<"ci", "cj", "co">>
MCCardScope == [c \in Range(MCCards) |-> IF c = "co" THEN "outdoor" ELSE "indoor"]
MCScopes    == <<"indoor", "outdoor">>
=============================================================================
