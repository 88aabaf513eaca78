--------------------------- MODULE RequestDocument ---------------------------
(***************************************************************************)
(* The canonical Request State of one CAE request, reduced to the fields   *)
(* whose normalization depends on each other, and the pure functions that  *)
(* the proposal ledger computes on it: the finalization every write goes   *)
(* through, the application of an approved batch of operations, and the    *)
(* inverse evidence captured at dry-run time.                              *)
(*                                                                         *)
(* A document is a function on Field:                                      *)
(*   request_type   analysis_overview.request_type                         *)
(*   project        selected_pms_project_id; project_name, pms_project_code*)
(*                  and region are read from the same master record        *)
(*   npi_stage      npi_stage and development_grade, which share one fate  *)
(*   model_suffix   the value of analysis_overview.model_suffix            *)
(*   suffix_source  its source: filled in from the PMS record or typed     *)
(*   description    any set-able field no rule touches                     *)
(*   cards          geometry products and condition cards (list, condition *)
(*                  and card operations write here)                        *)
(***************************************************************************)
EXTENDS Integers

CONSTANTS
  Text,         \* values a user or the model can type into a field
  Project,      \* ids of the PMS master records
  Cards,        \* contents of the geometry and condition cards
  Development,  \* the request type "development project", one of Text
  Blank,        \* a field with status missing
  Unknown,      \* a field with status unknown, none or skipped
  Keep          \* a batch without a list, condition or card operation

Sources == {"user", "system"}

ASSUME DocumentAssumption ==
  /\ Development \in Text
  /\ Blank \notin Text \cup Project \cup Cards \cup Sources
  /\ Unknown \notin Text \cup Project \cup Cards \cup Sources
  /\ Blank # Unknown
  /\ Keep \notin Cards

Field == {"request_type", "project", "npi_stage", "model_suffix",
          "suffix_source", "description", "cards"}

Value == Text \cup Project \cup Cards \cup Sources \cup {Blank, Unknown}

State == [Field -> Value]

\* field_value(field, None) is None: the field holds no provided value.
Unprovided == {Blank, Unknown}

(***************************************************************************)
(* The paths a "set" operation may write, and the batches of operations a  *)
(* proposal carries.  _merge_duplicate_ops leaves at most one "set" per    *)
(* path, so the "set" part of a batch is a function on the paths it writes.*)
(***************************************************************************)
SetPath == {"request_type", "npi_stage", "model_suffix", "description"}

Assignment == UNION {[P -> Value] : P \in SUBSET SetPath}

Batch == [sets : Assignment, cards : Cards \cup {Keep}]

(***************************************************************************)
(* apply_analysis_overview_defaults: a request that is not a development   *)
(* project keeps no PMS data and no suffix the PMS filled in; a            *)
(* development project without a selected record keeps none of the fields  *)
(* that come with the selection, whoever typed them.                       *)
(***************************************************************************)
Normalize(doc) ==
  LET typed == doc["request_type"] = Development
      drop  == IF ~typed
               THEN {"project", "npi_stage"} \cup
                    (IF doc["suffix_source"] = "system" THEN {"model_suffix"} ELSE {})
               ELSE IF doc["project"] \in Unprovided
                    THEN {"project", "npi_stage", "model_suffix"}
                    ELSE {}
  IN [f \in Field |->
        IF f \in drop THEN Blank
        ELSE IF f = "suffix_source" /\ (~typed \/ "model_suffix" \in drop)
             THEN "user"
             ELSE doc[f]]

(***************************************************************************)
(* apply_patch_operations: the batch is written onto a copy, a "set" of    *)
(* the suffix makes it user-provided, and the result is finalized.         *)
(***************************************************************************)
Patch(doc, batch) ==
  Normalize([f \in Field |->
               IF f \in DOMAIN batch.sets THEN batch.sets[f]
               ELSE IF f = "suffix_source" /\ "model_suffix" \in DOMAIN batch.sets
                    THEN "user"
                    ELSE IF f = "cards" /\ batch.cards # Keep
                         THEN batch.cards
                         ELSE doc[f]])

\* Mutant: list and card operations of the batch are ignored.
HasInverseOfSets(before, after, batch) ==
  /\ DOMAIN batch.sets # {}
  /\ \A p \in DOMAIN batch.sets :
        /\ before[p] \notin Unprovided
        /\ after[p] \notin Unprovided
        /\ before[p] # after[p]

(***************************************************************************)
(* _inverse_evidence: an inverse exists only for a batch of "set"          *)
(* operations each of which replaces a provided value by a different       *)
(* provided value.                                                         *)
(***************************************************************************)
HasInverse(before, after, batch) ==
  /\ batch.cards = Keep
  /\ DOMAIN batch.sets # {}
  /\ \A p \in DOMAIN batch.sets :
        /\ before[p] \notin Unprovided
        /\ after[p] \notin Unprovided
        /\ before[p] # after[p]

\* The values of doc at the paths a batch writes.
ValuesAt(doc, batch) == [p \in DOMAIN batch.sets |-> doc[p]]

\* The batch that sets each path of an assignment.
SetBatch(assignment) == [sets |-> assignment, cards |-> Keep]

\* _inverse_evidence_matches: the document still holds the recorded values.
EvidenceMatches(doc, expected) ==
  /\ DOMAIN expected # {}
  /\ \A p \in DOMAIN expected : doc[p] = expected[p]

\* What a reader of the request sees: every field but the provenance mark.
Visible(doc) == [f \in Field \ {"suffix_source"} |-> doc[f]]
=============================================================================
