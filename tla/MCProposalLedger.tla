-------------------------- MODULE MCProposalLedger ---------------------------
(***************************************************************************)
(* Small instances of the proposal ledger.  The texts: dev is the request  *)
(* type "development project", a and b are other values a field can hold   *)
(* (as a request type each stands for a kind without PMS data).            *)
(***************************************************************************)
EXTENDS ProposalRefinement, TLC

CONSTANTS dev, a, b, pms, c1, c2

MCText == {dev, a, b}
MCProject == {pms}
MCCards == {c1, c2}

\* A development project with everything its PMS record filled in.
Developing == [request_type |-> dev, project |-> pms, npi_stage |-> a, model_suffix |-> a,
               suffix_source |-> "system", description |-> a, cards |-> c1]

\* Another kind of request whose suffix was typed.
Other == [request_type |-> a, project |-> Blank, npi_stage |-> Blank, model_suffix |-> b,
          suffix_source |-> "user", description |-> Blank, cards |-> c1]

MCEdits == {Developing, Other}

OneEdit == {Developing}

Sets(assignment) == [sets |-> assignment, cards |-> Keep]

MCBatches ==
  { Sets([request_type |-> b]),
    Sets([request_type |-> a, model_suffix |-> b]),
    Sets([npi_stage |-> b, description |-> b]),
    [sets |-> [description |-> b], cards |-> c2] }

OneBatch == { Sets([model_suffix |-> b, description |-> b]), Sets([request_type |-> b]) }

Symmetry == Permutations(ProposalId)
=============================================================================
