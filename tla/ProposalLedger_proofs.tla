----------------------- MODULE ProposalLedger_proofs -------------------------
(***************************************************************************)
(* Proofs about documents and the proposal ledger: what finalization,      *)
(* patching and inverse evidence do, the inductive invariant of            *)
(* ProposalInvariant, the safety properties it implies, and that the       *)
(* ledger implements the contract.                                         *)
(***************************************************************************)
EXTENDS ProposalRefinement, SequenceTheorems, FiniteSetTheorems, TLAPS

-----------------------------------------------------------------------------
\* What finalization, patching and inverse evidence do to any document.
(***************************************************************************)
(* Finalization stays within the documents: every write can be finalized.  *)
(***************************************************************************)
LEMMA NormalizeType ==
  ASSUME NEW doc \in State
  PROVE  Normalize(doc) \in State
BY DEF Normalize, State, Field, Value, Sources

(***************************************************************************)
(* A finalized document is a fixed point of finalization, so the second    *)
(* finalization that compare_and_swap performs on a patched document       *)
(* (app._derive_state after apply_patch_operations) changes nothing.       *)
(***************************************************************************)
THEOREM NormalizeIdempotent ==
  ASSUME NEW doc \in State
  PROVE  Normalize(Normalize(doc)) = Normalize(doc)
<1>1. Normalize(doc) \in State
  BY NormalizeType
<1>2. ASSUME NEW f \in Field
      PROVE  Normalize(Normalize(doc))[f] = Normalize(doc)[f]
  BY DocumentAssumption DEF Normalize, State, Field, Value, Sources, Unprovided
<1> QED
  BY <1>2 DEF Normalize

(***************************************************************************)
(* A batch patches a document into a finalized document.                   *)
(***************************************************************************)
LEMMA PatchType ==
  ASSUME NEW doc \in State, NEW batch \in Batch
  PROVE  /\ Patch(doc, batch) \in State
         /\ Normalize(Patch(doc, batch)) = Patch(doc, batch)
<1> DEFINE written ==
      [f \in Field |->
         IF f \in DOMAIN batch.sets THEN batch.sets[f]
         ELSE IF f = "suffix_source" /\ "model_suffix" \in DOMAIN batch.sets
              THEN "user"
              ELSE IF f = "cards" /\ batch.cards # Keep
                   THEN batch.cards
                   ELSE doc[f]]
<1>1. batch.sets \in Assignment /\ batch.cards \in Cards \cup {Keep}
  BY DEF Batch
<1>2. PICK P \in SUBSET SetPath : batch.sets \in [P -> Value]
  BY <1>1 DEF Assignment
<1>3. written \in State
  BY <1>1, <1>2 DEF State, Field, Value, Sources
<1>4. Patch(doc, batch) = Normalize(written)
  BY DEF Patch
<1> QED
  BY <1>3, <1>4, NormalizeType, NormalizeIdempotent

(***************************************************************************)
(* The values recorded at the paths of a batch are an assignment, and the  *)
(* batch that sets them back is one the service can create.                *)
(***************************************************************************)
LEMMA ValuesAtType ==
  ASSUME NEW doc \in State, NEW batch \in Batch
  PROVE  /\ ValuesAt(doc, batch) \in Assignment
         /\ SetBatch(ValuesAt(doc, batch)) \in Batch
<1>1. PICK P \in SUBSET SetPath : batch.sets \in [P -> Value]
  BY DEF Batch, Assignment
<1>2. ValuesAt(doc, batch) \in [P -> Value]
  BY <1>1 DEF ValuesAt, State, Field, SetPath
<1>3. ValuesAt(doc, batch) \in Assignment
  BY <1>1, <1>2 DEF Assignment
<1> QED
  BY <1>3 DEF SetBatch, Batch

(***************************************************************************)
(* Evidence captured from a dry run is met by the dry-run document itself. *)
(***************************************************************************)
LEMMA EvidenceOfDryRun ==
  ASSUME NEW doc \in State, NEW batch \in Batch,
         HasInverse(doc, Patch(doc, batch), batch)
  PROVE  EvidenceMatches(Patch(doc, batch), ValuesAt(Patch(doc, batch), batch))
BY DEF HasInverse, EvidenceMatches, ValuesAt

(***************************************************************************)
(* The value of each visible field after a batch of "set" operations.      *)
(***************************************************************************)
LEMMA PatchedValues ==
  ASSUME NEW doc \in State, NEW batch \in Batch, batch.cards = Keep
  PROVE  LET set(f)  == IF f \in DOMAIN batch.sets THEN batch.sets[f] ELSE doc[f]
             after   == Patch(doc, batch)
             typed   == set("request_type") = Development
             project == typed /\ doc["project"] \notin Unprovided
             system  == doc["suffix_source"] = "system" /\ "model_suffix" \notin DOMAIN batch.sets
         IN /\ after["request_type"] = set("request_type")
            /\ after["description"] = set("description")
            /\ after["cards"] = doc["cards"]
            /\ after["project"] = IF project THEN doc["project"] ELSE Blank
            /\ after["npi_stage"] = IF project THEN set("npi_stage") ELSE Blank
            /\ after["model_suffix"] =
                 IF project \/ (~typed /\ ~system) THEN set("model_suffix") ELSE Blank
<1>1. PICK P \in SUBSET SetPath : batch.sets \in [P -> Value]
  BY DEF Batch, Assignment
<1> QED
  BY <1>1 DEF Patch, Normalize, State, Field, SetPath, Unprovided

(***************************************************************************)
(* What a finalized document cannot hold.                                  *)
(***************************************************************************)
LEMMA NormalValues ==
  ASSUME NEW doc \in State, Normalize(doc) = doc
  PROVE  /\ doc["request_type"] # Development =>
              /\ doc["project"] = Blank
              /\ doc["npi_stage"] = Blank
              /\ doc["suffix_source"] = "user"
         /\ doc["request_type"] = Development /\ doc["project"] \in Unprovided =>
              /\ doc["project"] = Blank
              /\ doc["npi_stage"] = Blank
              /\ doc["model_suffix"] = Blank
<1>1. \A f \in Field : Normalize(doc)[f] = doc[f]
  OBVIOUS
<1> QED
  BY <1>1 DEF Normalize, Field

(***************************************************************************)
(* _inverse_evidence captures an inverse of every batch it accepts that    *)
(* keeps the kind of the request: on a finalized document, applying the    *)
(* batch and then the recorded inverse gives every value back.             *)
(***************************************************************************)
THEOREM InverseRestores ==
  ASSUME NEW doc \in State, NEW batch \in Batch,
         Normalize(doc) = doc,
         HasInverse(doc, Patch(doc, batch), batch),
         "request_type" \in DOMAIN batch.sets =>
            Development \notin {batch.sets["request_type"], doc["request_type"]}
  PROVE  Visible(Patch(Patch(doc, batch), SetBatch(ValuesAt(doc, batch)))) = Visible(doc)
<1> DEFINE after == Patch(doc, batch)
           back  == Patch(after, SetBatch(ValuesAt(doc, batch)))
<1>1. PICK P \in SUBSET SetPath : batch.sets \in [P -> Value]
  BY DEF Batch, Assignment
<1>2. /\ after \in State
      /\ SetBatch(ValuesAt(doc, batch)) \in Batch
      /\ SetBatch(ValuesAt(doc, batch)).cards = Keep
      /\ SetBatch(ValuesAt(doc, batch)).sets = [p \in P |-> doc[p]]
  BY <1>1, PatchType, ValuesAtType DEF SetBatch, ValuesAt
<1>3. /\ batch.cards = Keep
      /\ \A p \in P : doc[p] \notin Unprovided /\ after[p] \notin Unprovided
  BY <1>1 DEF HasInverse
<1>4. "suffix_source" \notin P /\ DOMAIN batch.sets = P
  BY <1>1 DEF SetPath
<1>5. after["request_type"] = Development <=> doc["request_type"] = Development
  BY <1>1, <1>3, <1>4, PatchedValues
<1>6. doc["project"] = after["project"]
  BY <1>1, <1>3, <1>4, <1>5, PatchedValues, NormalValues
<1>7. ASSUME NEW f \in {"request_type", "description", "cards", "project", "npi_stage"}
      PROVE  back[f] = doc[f]
  BY <1>1, <1>2, <1>3, <1>4, <1>5, <1>6, PatchedValues, NormalValues DEF SetPath, Unprovided
<1>8. back["model_suffix"] = doc["model_suffix"]
  <2>1. CASE "model_suffix" \in P
    BY <2>1, <1>1, <1>2, <1>3, <1>4, <1>5, <1>6, <1>7, PatchedValues, NormalValues
    DEF Unprovided
  <2>2. CASE "model_suffix" \notin P
    <3>1. Normalize(after) = after
      BY PatchType
    <3>2. after["model_suffix"] = doc["model_suffix"]
      BY <2>2, <1>1, <1>3, <1>4, <1>5, <1>7, PatchedValues, NormalValues
    <3>3. back["model_suffix"] = after["model_suffix"]
      BY <2>2, <3>1, <1>2, <1>5, <1>7, PatchedValues, NormalValues
    <3> QED
      BY <3>2, <3>3
  <2> QED
    BY <2>1, <2>2
<1>9. \A f \in Field \ {"suffix_source"} : back[f] = doc[f]
  BY <1>7, <1>8 DEF Field
<1> QED
  BY <1>9 DEF Visible

-----------------------------------------------------------------------------
\* The ledger.

\* The data part of the type invariant.
DataTypes ==
  /\ requests \in [Request -> Snapshot]
  /\ history \in [Request -> Seq(Entry)]
  /\ proposals \in [ProposalId -> Proposal \cup {Absent}]

(***************************************************************************)
(* A recorded proposal is a record.                                        *)
(***************************************************************************)
LEMMA RecordedType ==
  ASSUME DataTypes, NEW p \in Recorded
  PROVE  p \in ProposalId /\ proposals[p] \in Proposal
BY DEF DataTypes, Recorded

(***************************************************************************)
(* The document of a version a proposal was based on.                      *)
(***************************************************************************)
LEMMA StateAtType ==
  ASSUME DataTypes, HistoryMatches, NEW r \in Request, NEW v \in 0..requests[r].version
  PROVE  /\ v + 1 \in DOMAIN history[r]
         /\ StateAt(r, v) \in State
         /\ Normalize(StateAt(r, v)) = StateAt(r, v)
<1>1. history[r] \in Seq(Entry) /\ requests[r].version \in Nat
  BY DEF DataTypes, Snapshot
<1>2. DOMAIN history[r] = 1..(requests[r].version + 1)
  BY <1>1 DEF HistoryMatches
<1>3. v + 1 \in DOMAIN history[r]
  BY <1>1, <1>2
<1>4. history[r][v + 1] \in Entry
  BY <1>1, <1>3
<1> QED
  BY <1>3, <1>4 DEF StateAt, Entry, HistoryMatches

(***************************************************************************)
(* The stores start out in the invariant.                                  *)
(***************************************************************************)
LEMMA InitInvariant == Init => LedgerInvariant
<1> SUFFICES ASSUME Init
             PROVE  LedgerInvariant
  OBVIOUS
<1>1. PICK first \in [Request -> Edits] :
        /\ requests = [r \in Request |-> [version |-> 0, state |-> Normalize(first[r])]]
        /\ history = [r \in Request |-> <<[state |-> Normalize(first[r]), author |-> None]>>]
  BY DEF Init
<1>2. ASSUME NEW r \in Request
      PROVE  /\ Normalize(first[r]) \in State
             /\ Normalize(Normalize(first[r])) = Normalize(first[r])
  BY LedgerAssumption, NormalizeType, NormalizeIdempotent
<1>3. proposals = [p \in ProposalId |-> Absent] /\ section = Free
  BY DEF Init
<1>4. Recorded = {}
  BY <1>3 DEF Recorded
<1>5. TypeOK
  BY <1>1, <1>2, <1>3 DEF TypeOK, Snapshot, Entry
<1>6. HistoryMatches
  BY <1>1, <1>2 DEF HistoryMatches
<1>7. DataInvariant
  BY <1>4, <1>6 DEF DataInvariant, RecordsAreDryRuns, SinglePending, Pending,
     ApprovedIsPreview, UndoFollowsApproval, UndoOnce, UndoOperationsRecorded
<1>8. OnlyApprovedApply
  BY <1>1 DEF OnlyApprovedApply
<1>9. SectionInvariant
  BY <1>3 DEF Free, SectionInvariant, CreateSection, ApproveSection, SettleSection,
     UndoSection, LinkSection
<1> QED
  BY <1>5, <1>7, <1>8, <1>9 DEF LedgerInvariant

-----------------------------------------------------------------------------
\* Every entry the history holds stays where it is, and versions only grow.
HistoryGrows ==
  \A r \in Request :
    /\ requests'[r].version \in Nat
    /\ requests[r].version <= requests'[r].version
    /\ \A i \in DOMAIN history[r] :
         i \in DOMAIN history'[r] /\ history'[r][i] = history[r][i]

(***************************************************************************)
(* What compare_and_swap does to a request and its history.                *)
(***************************************************************************)
LEMMA CommitEffect ==
  ASSUME DataTypes, HistoryMatches,
         NEW r \in Request, NEW candidate \in State, NEW author \in ProposalId \cup {None},
         Commit(r, candidate, author)
  PROVE  /\ requests' \in [Request -> Snapshot]
         /\ history' \in [Request -> Seq(Entry)]
         /\ requests'[r] = [version |-> requests[r].version + 1,
                            state |-> Normalize(candidate)]
         /\ DOMAIN history'[r] = 1..(requests[r].version + 2)
         /\ history'[r][requests[r].version + 2] =
              [state |-> Normalize(candidate), author |-> author]
         /\ \A s \in Request \ {r} : requests'[s] = requests[s] /\ history'[s] = history[s]
         /\ HistoryGrows
         /\ HistoryMatches'
<1> DEFINE entry == [state |-> Normalize(candidate), author |-> author]
<1>1. Normalize(candidate) \in State /\ Normalize(Normalize(candidate)) = Normalize(candidate)
  BY NormalizeType, NormalizeIdempotent
<1>2. entry \in Entry
  BY <1>1 DEF Entry
<1>3. /\ history[r] \in Seq(Entry)
      /\ requests[r].version \in Nat
      /\ Len(history[r]) = requests[r].version + 1
  BY DEF DataTypes, Snapshot, HistoryMatches
<1>4. requests' = [requests EXCEPT ![r] = [version |-> requests[r].version + 1,
                                           state |-> Normalize(candidate)]]
  BY DEF Commit
<1>5. history' = [history EXCEPT ![r] = Append(history[r], entry)]
  BY DEF Commit
<1>6. /\ Append(history[r], entry) \in Seq(Entry)
      /\ Len(Append(history[r], entry)) = requests[r].version + 2
      /\ \A i \in 1..(requests[r].version + 1) : Append(history[r], entry)[i] = history[r][i]
      /\ Append(history[r], entry)[requests[r].version + 2] = entry
  BY <1>2, <1>3, AppendProperties
<1>7. /\ requests' \in [Request -> Snapshot]
      /\ history' \in [Request -> Seq(Entry)]
  BY <1>1, <1>3, <1>4, <1>5, <1>6 DEF DataTypes, Snapshot
<1>8. /\ requests'[r] = [version |-> requests[r].version + 1, state |-> Normalize(candidate)]
      /\ history'[r] = Append(history[r], entry)
      /\ \A s \in Request \ {r} : requests'[s] = requests[s] /\ history'[s] = history[s]
  BY <1>4, <1>5 DEF DataTypes
<1>9. DOMAIN history'[r] = 1..(requests[r].version + 2)
  BY <1>3, <1>6, <1>7, <1>8
<1>10. DOMAIN history[r] = 1..(requests[r].version + 1)
  BY <1>3
<1>11. HistoryGrows
  <2>1. ASSUME NEW s \in Request, s # r
        PROVE  /\ requests'[s].version \in Nat
               /\ requests[s].version <= requests'[s].version
               /\ \A i \in DOMAIN history[s] :
                    i \in DOMAIN history'[s] /\ history'[s][i] = history[s][i]
    BY <2>1, <1>8 DEF DataTypes, Snapshot
  <2>2. /\ requests'[r].version \in Nat
        /\ requests[r].version <= requests'[r].version
        /\ \A i \in DOMAIN history[r] :
             i \in DOMAIN history'[r] /\ history'[r][i] = history[r][i]
    BY <1>3, <1>6, <1>8, <1>9, <1>10
  <2> QED
    BY <2>1, <2>2 DEF HistoryGrows
<1>12. HistoryMatches'
  <2>1. ASSUME NEW s \in Request, s # r
        PROVE  /\ Len(history'[s]) = requests'[s].version + 1
               /\ history'[s][requests'[s].version + 1].state = requests'[s].state
               /\ \A i \in DOMAIN history'[s] :
                    Normalize(history'[s][i].state) = history'[s][i].state
    BY <2>1, <1>8 DEF HistoryMatches
  <2>2. /\ Len(history'[r]) = requests'[r].version + 1
        /\ history'[r][requests'[r].version + 1].state = requests'[r].state
    BY <1>3, <1>6, <1>8
  <2>3. ASSUME NEW i \in DOMAIN history'[r]
        PROVE  Normalize(history'[r][i].state) = history'[r][i].state
    <3>1. CASE i \in 1..(requests[r].version + 1)
      BY <3>1, <1>6, <1>8, <1>10 DEF HistoryMatches
    <3>2. CASE i = requests[r].version + 2
      BY <3>2, <1>1, <1>6, <1>8
    <3> QED
      BY <3>1, <3>2, <1>3, <1>9
  <2> QED
    BY <2>1, <2>2, <2>3 DEF HistoryMatches
<1> QED
  BY <1>6, <1>7, <1>8, <1>9, <1>11, <1>12

(***************************************************************************)
(* A record is a dry run on a version that stays what it was, so whatever  *)
(* is written to the requests afterwards leaves the records in order.      *)
(***************************************************************************)
LEMMA CommitKeepsRecords ==
  ASSUME DataTypes, DataInvariant, HistoryGrows, HistoryMatches', UNCHANGED proposals
  PROVE  DataInvariant'
<1>1. Recorded' = Recorded
  BY DEF Recorded
<1>2. RecordsAreDryRuns'
  <2>1. ASSUME NEW p \in Recorded
        PROVE  /\ proposals[p].request \in Request
               /\ proposals[p].base_version \in 0..requests[proposals[p].request].version
    <3>1. /\ proposals[p].request \in Request
          /\ proposals[p].base_version \in Nat
      BY RecordedType DEF Proposal
    <3>2. requests[proposals[p].request].version \in Nat
      BY <3>1 DEF DataTypes, Snapshot
    <3>3. proposals[p].base_version <= requests[proposals[p].request].version
      BY DEF DataInvariant, RecordsAreDryRuns
    <3> QED
      BY <3>1, <3>2, <3>3
  <2>2. ASSUME NEW p \in Recorded
        PROVE  /\ StateAt(proposals[p].request, proposals[p].base_version)' =
                    StateAt(proposals[p].request, proposals[p].base_version)
               /\ proposals[p].base_version <= requests'[proposals[p].request].version
    BY <2>1, StateAtType DEF StateAt, HistoryGrows, DataInvariant, DataTypes, Snapshot
  <2> QED
    BY <1>1, <2>2 DEF RecordsAreDryRuns, DataInvariant
<1>3. ApprovedIsPreview'
  BY <1>1, RecordedType DEF ApprovedIsPreview, DataInvariant, HistoryGrows, Proposal
<1>4. /\ SinglePending'
      /\ UndoFollowsApproval'
      /\ UndoOnce'
      /\ UndoOperationsRecorded'
  BY <1>1 DEF DataInvariant, SinglePending, Pending, UndoFollowsApproval, UndoOnce, InversesOf,
     UndoOperationsRecorded
<1> QED
  BY <1>2, <1>3, <1>4 DEF DataInvariant

(***************************************************************************)
(* A form save, at any point of any operation, keeps the invariant.        *)
(***************************************************************************)
LEMMA SaveFormKeeps ==
  ASSUME LedgerInvariant, NEW r \in Request, NEW document \in Edits, SaveForm(r, document)
  PROVE  LedgerInvariant'
<1>1. document \in State /\ DataTypes /\ HistoryMatches /\ DataInvariant
  BY LedgerAssumption DEF LedgerInvariant, DataInvariant, TypeOK, DataTypes
<1>2. Commit(r, document, None) /\ proposals' = proposals /\ section' = section
  BY DEF SaveForm
<1>3. /\ requests' \in [Request -> Snapshot]
      /\ history' \in [Request -> Seq(Entry)]
      /\ DOMAIN history'[r] = 1..(requests[r].version + 2)
      /\ history'[r][requests[r].version + 2] = [state |-> Normalize(document), author |-> None]
      /\ \A s \in Request \ {r} : requests'[s] = requests[s] /\ history'[s] = history[s]
      /\ HistoryGrows
      /\ HistoryMatches'
  <2>1. None \in ProposalId \cup {None}
    OBVIOUS
  <2> QED
    BY <1>1, <1>2, <2>1, CommitEffect
<1>4. TypeOK'
  BY <1>2, <1>3 DEF LedgerInvariant, TypeOK
<1>5. DataInvariant'
  BY <1>1, <1>2, <1>3, CommitKeepsRecords
<1>6. Recorded' = Recorded
  BY <1>2 DEF Recorded
<1>7. OnlyApprovedApply'
  <2> SUFFICES ASSUME NEW s \in Request, NEW i \in DOMAIN history'[s],
                      history'[s][i].author # None
               PROVE  LET p == history'[s][i].author
                      IN /\ p \in Recorded
                         /\ proposals[p].request = s
                         /\ i = proposals[p].base_version + 2
                         /\ Applied(p)
    BY <1>2, <1>6 DEF OnlyApprovedApply, Applied
  <2>1. i \in DOMAIN history[s] /\ history'[s][i] = history[s][i]
    <3>1. CASE s # r
      BY <3>1, <1>3
    <3>2. CASE s = r
      <4>1. DOMAIN history[r] = 1..(requests[r].version + 1)
        BY <1>1 DEF DataTypes, HistoryMatches, Snapshot
      <4>2. requests[r].version \in Nat
        BY <1>1 DEF DataTypes, Snapshot
      <4>3. i # requests[r].version + 2
        BY <3>2, <1>3
      <4> QED
        BY <3>2, <4>1, <4>2, <4>3, <1>3 DEF HistoryGrows
    <3> QED
      BY <3>1, <3>2
  <2> QED
    BY <2>1 DEF LedgerInvariant, OnlyApprovedApply
<1>8. SectionInvariant'
  <2>1. CreateSection'
    <3> SUFFICES ASSUME section.at = "create"
                 PROVE  LET q == section.request
                        IN /\ Pending(q) = {}
                           /\ section.snapshot.version <= requests'[q].version
                           /\ section.snapshot.state =
                                history'[q][section.snapshot.version + 1].state
      BY <1>2, <1>6 DEF CreateSection, Pending, StateAt
    <3>1. section \in Creating
      BY DEF LedgerInvariant, TypeOK, Approving, Settling, Undoing, Linking, Free
    <3>2. /\ section.request \in Request
          /\ section.snapshot.version \in 0..requests[section.request].version
          /\ Pending(section.request) = {}
          /\ section.snapshot.state = StateAt(section.request, section.snapshot.version)
      BY <3>1, <1>1 DEF Creating, Snapshot, LedgerInvariant, SectionInvariant, CreateSection,
         DataTypes
    <3>3. /\ requests[section.request].version \in Nat
          /\ section.snapshot.version + 1 \in DOMAIN history[section.request]
      BY <3>2, <1>1, StateAtType DEF DataTypes, Snapshot
    <3>4. /\ requests[section.request].version <= requests'[section.request].version
          /\ requests'[section.request].version \in Nat
      BY <3>2, <1>3 DEF HistoryGrows
    <3>5. section.snapshot.version <= requests'[section.request].version
      BY <3>2, <3>3, <3>4
    <3>6. history'[section.request][section.snapshot.version + 1] =
            history[section.request][section.snapshot.version + 1]
      BY <3>2, <3>3, <1>3 DEF HistoryGrows
    <3> QED
      BY <3>2, <3>5, <3>6 DEF StateAt
  <2>2. SettleSection'
    <3> SUFFICES ASSUME section.at = "settle"
                 PROVE  LET p == section.proposal
                        IN /\ Undecided(p)
                           /\ section.outcome = "approved" =>
                                /\ section.version = proposals[p].base_version + 1
                                /\ section.version + 1 \in DOMAIN history'[proposals[p].request]
                                /\ history'[proposals[p].request][section.version + 1] =
                                     [state |-> proposals[p].preview, author |-> p]
      BY <1>2, <1>6 DEF SettleSection, Undecided
    <3>1. Undecided(section.proposal) /\ SettleSection
      BY DEF LedgerInvariant, SectionInvariant, SettleSection
    <3>2. proposals[section.proposal].request \in Request
      BY <3>1, <1>1, RecordedType DEF Undecided, Proposal
    <3> QED
      BY <3>1, <3>2, <1>3 DEF SettleSection, HistoryGrows
  <2>3. ApproveSection' /\ UndoSection' /\ LinkSection'
    BY <1>2, <1>6 DEF LedgerInvariant, SectionInvariant, ApproveSection, UndoSection, LinkSection,
       Undecided, Undoable, InversesOf, Pending
  <2> QED
    BY <2>1, <2>2, <2>3 DEF SectionInvariant
<1> QED
  BY <1>4, <1>5, <1>7, <1>8 DEF LedgerInvariant

(***************************************************************************)
(* Steps that only move the operation in progress.                         *)
(***************************************************************************)
LEMMA SectionMoves ==
  ASSUME LedgerInvariant, UNCHANGED <<requests, history, proposals>>, section.at # "settle",
         section' \in Creating \cup Approving \cup Settling \cup Undoing \cup Linking \cup {Free},
         SectionInvariant'
  PROVE  LedgerInvariant'
<1>1. Recorded' = Recorded
  BY DEF Recorded
<1>2. TypeOK'
  BY DEF LedgerInvariant, TypeOK
<1>3. DataInvariant'
  <2>1. HistoryMatches' /\ RecordsAreDryRuns'
    BY <1>1 DEF LedgerInvariant, DataInvariant, HistoryMatches, RecordsAreDryRuns, StateAt
  <2>2. SinglePending' /\ ApprovedIsPreview' /\ UndoOnce'
    BY <1>1 DEF LedgerInvariant, DataInvariant, SinglePending, Pending, ApprovedIsPreview, UndoOnce,
       InversesOf
  <2>3. UndoFollowsApproval' /\ UndoOperationsRecorded'
    BY <1>1 DEF LedgerInvariant, DataInvariant, UndoFollowsApproval, UndoOperationsRecorded
  <2> QED
    BY <2>1, <2>2, <2>3 DEF DataInvariant
<1>4. OnlyApprovedApply'
  BY <1>1 DEF LedgerInvariant, OnlyApprovedApply, Applied
<1> QED
  BY <1>2, <1>3, <1>4 DEF LedgerInvariant

(***************************************************************************)
(* The operation in progress, by the step it is about to take.             *)
(***************************************************************************)
LEMMA SectionKind ==
  ASSUME TypeOK
  PROVE  /\ section.at = "create" => section \in Creating
         /\ section.at = "approve" => section \in Approving
         /\ section.at = "settle" => section \in Settling
         /\ section.at = "undo" => section \in Undoing
         /\ section.at = "link" => section \in Linking
BY DEF TypeOK, Creating, Approving, Settling, Undoing, Linking, Free

(***************************************************************************)
(* Releasing the lock without a record keeps the invariant.                *)
(***************************************************************************)
LEMMA ReleaseKeeps ==
  ASSUME LedgerInvariant, section.at # "settle", section' = Free,
         UNCHANGED <<requests, history, proposals>>
  PROVE  LedgerInvariant'
<1>1. SectionInvariant'
  BY DEF Free, SectionInvariant, CreateSection, ApproveSection, SettleSection, UndoSection,
     LinkSection
<1> QED
  BY <1>1, SectionMoves

(***************************************************************************)
(* Taking the lock, or moving to the next step of an operation, without    *)
(* writing to a store.                                                     *)
(***************************************************************************)
LEMMA BeginCreateKeeps ==
  ASSUME LedgerInvariant, NEW r \in Request, NEW operations \in Batches,
         BeginCreate(r, operations)
  PROVE  LedgerInvariant'
<1>1. /\ section.at # "settle"
      /\ section' = [at |-> "create", request |-> r, snapshot |-> requests[r],
                     operations |-> operations]
      /\ UNCHANGED <<requests, history, proposals>>
      /\ Pending(r) = {}
  BY DEF BeginCreate, Free
<1>2. section' \in Creating
  BY <1>1, LedgerAssumption DEF LedgerInvariant, TypeOK, Creating
<1>3. Recorded' = Recorded
  BY <1>1 DEF Recorded
<1>4. CreateSection'
  <2>1. requests[r].version \in Nat /\ StateAt(r, requests[r].version) = requests[r].state
    BY DEF LedgerInvariant, TypeOK, Snapshot, DataInvariant, HistoryMatches, StateAt
  <2> QED
    BY <2>1, <1>1, <1>3 DEF CreateSection, Pending, StateAt
<1>5. SectionInvariant'
  BY <1>1, <1>4 DEF SectionInvariant, ApproveSection, SettleSection, UndoSection, LinkSection
<1> QED
  BY <1>1, <1>2, <1>5, SectionMoves

\* An approval begins on an undecided proposal and touches no store.
LEMMA BeginApproveKeeps ==
  ASSUME LedgerInvariant, NEW p \in ProposalId, BeginApprove(p)
  PROVE  LedgerInvariant'
<1>1. /\ section.at # "settle"
      /\ section' = [at |-> "approve", proposal |-> p]
      /\ UNCHANGED <<requests, history, proposals>>
      /\ Undecided(p)
  BY DEF BeginApprove, Free, Undecided
<1>2. section' \in Approving /\ Recorded' = Recorded
  BY <1>1 DEF Approving, Recorded
<1>3. SectionInvariant'
  BY <1>1, <1>2 DEF SectionInvariant, CreateSection, ApproveSection, Undecided, SettleSection,
     UndoSection, LinkSection
<1> QED
  BY <1>1, <1>2, <1>3, SectionMoves

\* An approval that wrote nothing is settled as a conflict or a failure.
LEMMA UnappliedKeeps ==
  ASSUME LedgerInvariant, ConflictApproved \/ FailApproved
  PROVE  LedgerInvariant'
<1>1. /\ section.at = "approve"
      /\ UNCHANGED <<requests, history, proposals>>
  BY DEF ConflictApproved, FailApproved
<1>2. PICK outcome \in {"conflicted", "failed"} :
        section' = [at |-> "settle", proposal |-> section.proposal, outcome |-> outcome,
                    version |-> None]
  BY DEF ConflictApproved, FailApproved, Settle
<1>3. section.proposal \in ProposalId /\ Undecided(section.proposal)
  BY <1>1, SectionKind
  DEF LedgerInvariant, Approving, SectionInvariant, ApproveSection
<1>4. section' \in Settling /\ Recorded' = Recorded
  BY <1>1, <1>2, <1>3 DEF Settling, Recorded
<1>5. SectionInvariant'
  BY <1>1, <1>2, <1>3, <1>4 DEF SectionInvariant, CreateSection, ApproveSection, Undecided,
     SettleSection, UndoSection, LinkSection
<1> QED
  BY <1>1, <1>4, <1>5, SectionMoves

\* An undo begins on an approval that is still the latest write.
LEMMA BeginUndoKeeps ==
  ASSUME LedgerInvariant, NEW p \in ProposalId, BeginUndo(p)
  PROVE  LedgerInvariant'
<1>1. /\ section.at # "settle"
      /\ section' = [at |-> "undo", original |-> p,
                     version |-> requests[proposals[p].request].version]
      /\ UNCHANGED <<requests, history, proposals>>
      /\ Undoable(p)
      /\ requests[proposals[p].request].version = proposals[p].request_version
      /\ Pending(proposals[p].request) = {}
  BY DEF BeginUndo, Free, Undoable
<1>2. Recorded' = Recorded
  BY <1>1 DEF Recorded
<1>3. requests[proposals[p].request].version \in Nat
  BY <1>1, RecordedType DEF LedgerInvariant, TypeOK, DataTypes, Snapshot, Undoable, Proposal
<1>4. section' \in Undoing
  BY <1>1, <1>3 DEF Undoing
<1>5. SectionInvariant'
  BY <1>1, <1>2 DEF SectionInvariant, CreateSection, ApproveSection, SettleSection,
     UndoSection, LinkSection, Undoable, InversesOf, Pending
<1> QED
  BY <1>1, <1>4, <1>5, SectionMoves

\* A refused creation or undo only leaves its section.
LEMMA RefuseKeeps ==
  ASSUME LedgerInvariant, RefuseCreate \/ RefuseUndo
  PROVE  LedgerInvariant'
<1>1. /\ section.at # "settle"
      /\ section' = Free
      /\ UNCHANGED <<requests, history, proposals>>
  BY DEF RefuseCreate, RefuseUndo
<1> QED
  BY <1>1, ReleaseKeeps

(***************************************************************************)
(* The compare-and-swap of an approval writes the document the proposal    *)
(* was dry-run to: the base version is current, and the dry run was made   *)
(* on the document of that version.                                        *)
(***************************************************************************)
LEMMA ApplyApprovedKeeps ==
  ASSUME LedgerInvariant, ApplyApproved
  PROVE  LedgerInvariant'
<1> DEFINE p == section.proposal
           this == proposals[p]
           r == this.request
           base == this.base_version
<1>1. DataTypes /\ HistoryMatches /\ DataInvariant /\ TypeOK
  BY DEF LedgerInvariant, DataInvariant, TypeOK, DataTypes
<1>2. /\ section.at = "approve"
      /\ requests[r].version = base
      /\ Commit(r, Patch(requests[r].state, this.operations), p)
      /\ section' = [at |-> "settle", proposal |-> p, outcome |-> "approved", version |-> base + 1]
      /\ proposals' = proposals
  BY DEF ApplyApproved, Settle
<1>3. p \in ProposalId /\ Undecided(p)
  BY <1>1, <1>2, SectionKind DEF LedgerInvariant, Approving, SectionInvariant, ApproveSection
<1>4. /\ this \in Proposal
      /\ r \in Request
      /\ base \in Nat
      /\ this.operations \in Batch
      /\ requests[r].state \in State
  BY <1>1, <1>3, RecordedType DEF Undecided, Proposal, DataTypes, Snapshot
<1>5. this.preview = Patch(requests[r].state, this.operations)
  <2>1. StateAt(r, base) = requests[r].state
    BY <1>1, <1>2, <1>4 DEF HistoryMatches, StateAt
  <2> QED
    BY <2>1, <1>1, <1>3 DEF DataInvariant, RecordsAreDryRuns, Undecided
<1>6. this.preview \in State /\ Normalize(this.preview) = this.preview
  BY <1>4, <1>5, PatchType
<1>7. /\ requests' \in [Request -> Snapshot]
      /\ history' \in [Request -> Seq(Entry)]
      /\ DOMAIN history'[r] = 1..(base + 2)
      /\ history'[r][base + 2] = [state |-> this.preview, author |-> p]
      /\ \A s \in Request \ {r} : requests'[s] = requests[s] /\ history'[s] = history[s]
      /\ HistoryGrows
      /\ HistoryMatches'
  <2>1. PICK t \in Request, doc \in State, author \in ProposalId :
          t = r /\ doc = this.preview /\ author = p
    BY <1>3, <1>4, <1>6
  <2>2. Commit(t, doc, author)
    BY <2>1, <1>2, <1>5
  <2>3. /\ requests' \in [Request -> Snapshot]
        /\ history' \in [Request -> Seq(Entry)]
        /\ DOMAIN history'[t] = 1..(requests[t].version + 2)
        /\ history'[t][requests[t].version + 2] = [state |-> Normalize(doc), author |-> author]
        /\ \A s \in Request \ {t} : requests'[s] = requests[s] /\ history'[s] = history[s]
        /\ HistoryGrows
        /\ HistoryMatches'
    BY <2>2, <1>1, CommitEffect, ZenonT(40)
  <2> QED
    BY <2>1, <2>3, <1>2, <1>6
<1>8. TypeOK'
  <2>1. section' \in Settling
    BY <1>2, <1>3, <1>4 DEF Settling
  <2> QED
    BY <2>1, <1>1, <1>2, <1>7 DEF TypeOK
<1>9. DataInvariant' /\ Recorded' = Recorded
  BY <1>1, <1>2, <1>7, CommitKeepsRecords DEF Recorded
<1>10. OnlyApprovedApply'
  <2> SUFFICES ASSUME NEW s \in Request, NEW i \in DOMAIN history'[s],
                      history'[s][i].author # None
               PROVE  LET q == history'[s][i].author
                      IN /\ q \in Recorded
                         /\ proposals[q].request = s
                         /\ i = proposals[q].base_version + 2
                         /\ q = p \/ proposals[q].status = "approved"
    BY <1>2, <1>9 DEF OnlyApprovedApply, Applied
  <2>1. CASE s = r /\ i = base + 2
    BY <2>1, <1>3, <1>7 DEF Undecided
  <2>2. CASE ~(s = r /\ i = base + 2)
    <3>1. DOMAIN history[r] = 1..(base + 1)
      BY <1>1, <1>2, <1>4 DEF DataTypes, HistoryMatches
    <3>2. i \in DOMAIN history[s]
      <4>1. CASE s # r
        BY <4>1, <1>7
      <4>2. CASE s = r
        <5>1. i \in 1..(base + 2) /\ i # base + 2 /\ base \in Nat
          BY <4>2, <2>2, <1>4, <1>7
        <5> QED
          BY <5>1, <4>2, <3>1
      <4> QED
        BY <4>1, <4>2
    <3>3. history'[s][i] = history[s][i]
      BY <3>2, <1>7 DEF HistoryGrows
    <3> QED
      BY <3>2, <3>3, <1>2 DEF LedgerInvariant, OnlyApprovedApply, Applied
  <2> QED
    BY <2>1, <2>2
<1>11. SectionInvariant'
  <2>1. SettleSection'
    BY <1>2, <1>3, <1>4, <1>7, <1>9 DEF SettleSection, Undecided
  <2> QED
    BY <2>1, <1>2 DEF SectionInvariant, CreateSection, ApproveSection, UndoSection, LinkSection
<1> QED
  BY <1>8, <1>9, <1>10, <1>11 DEF LedgerInvariant

(***************************************************************************)
(* Deciding a pending record changes only its status and result, so what   *)
(* the records know of each other stays true.                              *)
(***************************************************************************)
LEMMA DecideKeepsRecords ==
  ASSUME DataTypes, DataInvariant, NEW p \in ProposalId, Undecided(p),
         proposals' \in [ProposalId -> Proposal \cup {Absent}],
         UNCHANGED <<requests, history>>,
         \A q \in ProposalId \ {p} : proposals'[q] = proposals[q],
         proposals'[p] \in Proposal,
         proposals'[p].request = proposals[p].request,
         proposals'[p].base_version = proposals[p].base_version,
         proposals'[p].operations = proposals[p].operations,
         proposals'[p].preview = proposals[p].preview,
         proposals'[p].inverse = proposals[p].inverse,
         proposals'[p].undo_of = proposals[p].undo_of,
         proposals'[p].status \in Terminal,
         proposals'[p].status = "approved" =>
           /\ proposals'[p].request_version = proposals[p].base_version + 1
           /\ proposals'[p].request_version + 1 \in DOMAIN history[proposals[p].request]
           /\ history[proposals[p].request][proposals'[p].request_version + 1] =
                [state |-> proposals[p].preview, author |-> p]
  PROVE  DataInvariant' /\ Recorded' = Recorded
<1>1. Recorded' = Recorded
  BY LedgerAssumption DEF Recorded, Undecided
<1>2. HistoryMatches'
  BY DEF DataInvariant, HistoryMatches
<1>3. RecordsAreDryRuns'
  BY <1>1 DEF DataInvariant, RecordsAreDryRuns, StateAt, Recorded
<1>4. SinglePending'
  BY <1>1 DEF DataInvariant, SinglePending, Pending, Recorded, Terminal
<1>5. ApprovedIsPreview'
  BY <1>1 DEF DataInvariant, ApprovedIsPreview, Recorded
<1>6. UndoFollowsApproval'
  BY <1>1 DEF DataInvariant, UndoFollowsApproval, Recorded, Undecided
<1>7. UndoOnce'
  BY <1>1 DEF DataInvariant, UndoOnce, InversesOf, Recorded
<1>8. UndoOperationsRecorded'
  BY <1>1 DEF DataInvariant, UndoOperationsRecorded, Recorded
<1> QED
  BY <1>1, <1>2, <1>3, <1>4, <1>5, <1>6, <1>7, <1>8 DEF DataInvariant

(***************************************************************************)
(* Writing the terminal record of an approval.                             *)
(***************************************************************************)
LEMMA RecordTerminalKeeps ==
  ASSUME LedgerInvariant, RecordTerminal
  PROVE  LedgerInvariant'
<1>1. DataTypes /\ DataInvariant /\ TypeOK /\ OnlyApprovedApply
  BY DEF LedgerInvariant, TypeOK, DataTypes
<1>2. /\ section.at = "settle"
      /\ section' = Free
      /\ requests' = requests
      /\ history' = history
      /\ proposals' = [proposals EXCEPT ![section.proposal].status = section.outcome,
                                        ![section.proposal].request_version = section.version]
  BY DEF RecordTerminal
<1>3. PICK p \in ProposalId : p = section.proposal
  BY <1>1, <1>2, SectionKind DEF Settling
<1>4. /\ section.outcome \in {"approved", "conflicted", "failed"}
      /\ section.version \in Nat \cup {None}
  BY <1>1, <1>2, SectionKind DEF Settling
<1>5. /\ Undecided(p)
      /\ section.outcome = "approved" =>
           /\ section.version = proposals[p].base_version + 1
           /\ section.version + 1 \in DOMAIN history[proposals[p].request]
           /\ history[proposals[p].request][section.version + 1] =
                [state |-> proposals[p].preview, author |-> p]
  BY <1>2, <1>3 DEF LedgerInvariant, SectionInvariant, SettleSection
<1>6. proposals[p] \in Proposal
  BY <1>1, <1>5, RecordedType DEF Undecided
<1>7. /\ \A q \in ProposalId \ {p} : proposals'[q] = proposals[q]
      /\ proposals'[p] = [proposals[p] EXCEPT !.status = section.outcome,
                                             !.request_version = section.version]
  BY <1>1, <1>2, <1>3 DEF DataTypes
<1>8. proposals'[p] \in Proposal
  BY <1>4, <1>6, <1>7 DEF Proposal, Terminal
<1>9. proposals' \in [ProposalId -> Proposal \cup {Absent}]
  BY <1>1, <1>2, <1>3, <1>7, <1>8 DEF DataTypes
<1>10. /\ proposals'[p].request = proposals[p].request
       /\ proposals'[p].base_version = proposals[p].base_version
       /\ proposals'[p].operations = proposals[p].operations
       /\ proposals'[p].preview = proposals[p].preview
       /\ proposals'[p].inverse = proposals[p].inverse
       /\ proposals'[p].undo_of = proposals[p].undo_of
       /\ proposals'[p].status = section.outcome
       /\ proposals'[p].request_version = section.version
  BY <1>6, <1>7 DEF Proposal
<1>11. DataInvariant' /\ Recorded' = Recorded
  <2>1. /\ proposals'[p].status \in Terminal
        /\ proposals'[p].status = "approved" =>
             /\ proposals'[p].request_version = proposals[p].base_version + 1
             /\ proposals'[p].request_version + 1 \in DOMAIN history[proposals[p].request]
             /\ history[proposals[p].request][proposals'[p].request_version + 1] =
                  [state |-> proposals[p].preview, author |-> p]
    BY <1>4, <1>5, <1>10 DEF Terminal
  <2>2. UNCHANGED <<requests, history>>
    BY <1>2
  <2> QED
    BY <1>1, <1>5, <1>7, <1>8, <1>9, <1>10, <2>1, <2>2, DecideKeepsRecords
<1>12. OnlyApprovedApply'
  <2>1. ASSUME NEW q \in Recorded, Applied(q)
        PROVE  proposals'[q].status = "approved"
    <3>1. CASE q = p
      BY <3>1, <2>1, <1>3, <1>5, <1>10 DEF Applied, Undecided
    <3>2. CASE q # p
      BY <3>2, <2>1, <1>3, <1>7 DEF Applied, Recorded
    <3> QED
      BY <3>1, <3>2
  <2>2. ASSUME NEW q \in Recorded
        PROVE  /\ proposals'[q].request = proposals[q].request
               /\ proposals'[q].base_version = proposals[q].base_version
    BY <1>7, <1>10 DEF Recorded
  <2>3. history' = history /\ Recorded' = Recorded
    BY <1>2, <1>11
  <2> QED
    BY <2>1, <2>2, <2>3, <1>1 DEF OnlyApprovedApply, Applied
<1>13. TypeOK'
  BY <1>1, <1>2, <1>9 DEF TypeOK
<1>14. SectionInvariant'
  BY <1>2 DEF Free, SectionInvariant, CreateSection, ApproveSection, SettleSection, UndoSection,
     LinkSection
<1> QED
  BY <1>11, <1>12, <1>13, <1>14 DEF LedgerInvariant

(***************************************************************************)
(* Rejecting or expiring a pending proposal.                               *)
(***************************************************************************)
LEMMA ResolveKeeps ==
  ASSUME LedgerInvariant, NEW p \in ProposalId, NEW status \in {"rejected", "expired"},
         ResolveWithoutApply(p, status)
  PROVE  LedgerInvariant'
<1>1. DataTypes /\ DataInvariant /\ TypeOK /\ OnlyApprovedApply
  BY DEF LedgerInvariant, TypeOK, DataTypes
<1>2. /\ section = Free
      /\ section' = section
      /\ requests' = requests
      /\ history' = history
      /\ proposals' = [proposals EXCEPT ![p].status = status]
      /\ Undecided(p)
  BY DEF ResolveWithoutApply, Undecided
<1>3. proposals[p] \in Proposal
  BY <1>1, <1>2, RecordedType DEF Undecided
<1>4. /\ \A q \in ProposalId \ {p} : proposals'[q] = proposals[q]
      /\ proposals'[p] = [proposals[p] EXCEPT !.status = status]
  BY <1>1, <1>2 DEF DataTypes
<1>5. proposals'[p] \in Proposal
  BY <1>3, <1>4 DEF Proposal, Terminal
<1>6. proposals' \in [ProposalId -> Proposal \cup {Absent}]
  BY <1>1, <1>2, <1>4, <1>5 DEF DataTypes
<1>7. /\ proposals'[p].request = proposals[p].request
      /\ proposals'[p].base_version = proposals[p].base_version
      /\ proposals'[p].operations = proposals[p].operations
      /\ proposals'[p].preview = proposals[p].preview
      /\ proposals'[p].inverse = proposals[p].inverse
      /\ proposals'[p].undo_of = proposals[p].undo_of
      /\ proposals'[p].status = status
  BY <1>3, <1>4 DEF Proposal
<1>8. DataInvariant' /\ Recorded' = Recorded
  BY <1>1, <1>2, <1>4, <1>5, <1>6, <1>7, DecideKeepsRecords DEF Terminal
<1>9. OnlyApprovedApply'
  <2>1. ASSUME NEW q \in Recorded, Applied(q)
        PROVE  proposals'[q].status = "approved"
    BY <2>1, <1>2, <1>4 DEF Applied, Undecided, Free, Recorded
  <2>2. ASSUME NEW q \in Recorded
        PROVE  /\ proposals'[q].request = proposals[q].request
               /\ proposals'[q].base_version = proposals[q].base_version
    BY <1>4, <1>7 DEF Recorded
  <2> QED
    BY <2>1, <2>2, <1>1, <1>2, <1>8 DEF OnlyApprovedApply, Applied
<1>10. TypeOK'
  BY <1>1, <1>2, <1>6 DEF TypeOK
<1>11. SectionInvariant'
  BY <1>2 DEF Free, SectionInvariant, CreateSection, ApproveSection, SettleSection, UndoSection,
     LinkSection
<1> QED
  BY <1>8, <1>9, <1>10, <1>11 DEF LedgerInvariant

(***************************************************************************)
(* The record of a dry run is well formed.                                 *)
(***************************************************************************)
LEMMA DryRunRecord ==
  ASSUME NEW r \in Request, NEW snapshot \in Snapshot, NEW operations \in Batch
  PROVE  LET record == DryRun(r, snapshot, operations)
         IN /\ record \in Proposal
            /\ record.request = r
            /\ record.base_version = snapshot.version
            /\ record.operations = operations
            /\ record.preview = Patch(snapshot.state, operations)
            /\ record.status = "pending"
            /\ record.undo_of = None
            /\ record.inverse # None =>
                 /\ HasInverse(snapshot.state, record.preview, operations)
                 /\ record.inverse = [restore  |-> ValuesAt(snapshot.state, operations),
                                      expected |-> ValuesAt(record.preview, operations)]
<1> DEFINE after == Patch(snapshot.state, operations)
           evidence == [restore  |-> ValuesAt(snapshot.state, operations),
                        expected |-> ValuesAt(after, operations)]
<1>1. snapshot.version \in Nat /\ snapshot.state \in State
  BY DEF Snapshot
<1>2. after \in State
  BY <1>1, PatchType
<1>3. evidence \in Evidence
  BY <1>1, <1>2, ValuesAtType DEF Evidence
<1>4. DryRun(r, snapshot, operations) =
        [request         |-> r,
         base_version    |-> snapshot.version,
         operations      |-> operations,
         preview         |-> after,
         status          |-> "pending",
         request_version |-> None,
         inverse         |-> IF HasInverse(snapshot.state, after, operations)
                             THEN evidence ELSE None,
         undo_of         |-> None]
  BY DEF DryRun
<1> HIDE DEF after, evidence
<1>5. DryRun(r, snapshot, operations) \in Proposal
  BY <1>1, <1>2, <1>3, <1>4 DEF Proposal
<1>6. DryRun(r, snapshot, operations).inverse # None =>
        /\ HasInverse(snapshot.state, after, operations)
        /\ DryRun(r, snapshot, operations).inverse = evidence
  BY <1>4
<1> QED
  BY <1>4, <1>5, <1>6 DEF after, evidence

(***************************************************************************)
(* Recording a dry run on a version the request had, while the request has *)
(* no pending proposal, keeps what the records know of each other.         *)
(***************************************************************************)
LEMMA RecordKeepsRecords ==
  ASSUME DataTypes, DataInvariant,
         NEW p \in ProposalId, proposals[p] = Absent,
         NEW r \in Request, Pending(r) = {},
         NEW snapshot \in Snapshot, NEW operations \in Batch,
         snapshot.version <= requests[r].version,
         snapshot.state = StateAt(r, snapshot.version),
         proposals' = [proposals EXCEPT ![p] = DryRun(r, snapshot, operations)],
         UNCHANGED <<requests, history>>
  PROVE  /\ proposals' \in [ProposalId -> Proposal \cup {Absent}]
         /\ Recorded' = Recorded \cup {p}
         /\ \A q \in Recorded : q # p /\ proposals'[q] = proposals[q]
         /\ DataInvariant'
<1> DEFINE record == DryRun(r, snapshot, operations)
<1>1. /\ record \in Proposal
      /\ record.request = r
      /\ record.base_version = snapshot.version
      /\ record.operations = operations
      /\ record.preview = Patch(snapshot.state, operations)
      /\ record.status = "pending"
      /\ record.undo_of = None
      /\ record.inverse # None =>
           /\ HasInverse(snapshot.state, record.preview, operations)
           /\ record.inverse = [restore  |-> ValuesAt(snapshot.state, operations),
                                expected |-> ValuesAt(record.preview, operations)]
  BY DryRunRecord
<1> HIDE DEF record
<1>2. /\ proposals'[p] = record
      /\ \A q \in ProposalId \ {p} : proposals'[q] = proposals[q]
  BY DEF DataTypes, record
<1>3. proposals' \in [ProposalId -> Proposal \cup {Absent}]
  BY <1>1 DEF DataTypes, record
<1>4. /\ Recorded' = Recorded \cup {p}
      /\ \A q \in Recorded : q # p /\ proposals'[q] = proposals[q]
  BY <1>1, <1>2, LedgerAssumption DEF Recorded
<1>5. HistoryMatches'
  BY DEF DataInvariant, HistoryMatches
<1>6. RecordsAreDryRuns'
  <2> DEFINE Fits(q, this, before) ==
               /\ this.base_version <= requests[this.request].version
               /\ this.preview = Patch(before, this.operations)
               /\ this.inverse # None =>
                    /\ HasInverse(before, this.preview, this.operations)
                    /\ this.inverse = [restore  |-> ValuesAt(before, this.operations),
                                       expected |-> ValuesAt(this.preview, this.operations)]
  <2>1. \A q \in Recorded : Fits(q, proposals[q],
                                StateAt(proposals[q].request, proposals[q].base_version))
    BY DEF DataInvariant, RecordsAreDryRuns
  <2>2. Fits(p, record, StateAt(record.request, record.base_version))
    BY <1>1
  <2> HIDE DEF Fits
  <2>3. \A q \in Recorded' : Fits(q, proposals'[q],
                                StateAt(proposals'[q].request, proposals'[q].base_version))
    BY <1>2, <1>4, <2>1, <2>2
  <2> QED
    BY <2>3 DEF Fits, RecordsAreDryRuns, StateAt
<1>7. SinglePending'
  BY <1>1, <1>2, <1>4 DEF DataInvariant, SinglePending, Pending
<1>8. ApprovedIsPreview'
  BY <1>1, <1>2, <1>4 DEF DataInvariant, ApprovedIsPreview
<1>9. UndoFollowsApproval'
  BY <1>1, <1>2, <1>4 DEF DataInvariant, UndoFollowsApproval
<1>10. UndoOnce'
  <2>1. ASSUME NEW q1 \in Recorded', NEW q2 \in Recorded', NEW o \in Recorded',
               proposals'[q1].undo_of = o, proposals'[q2].undo_of = o
        PROVE  q1 = q2
    <3>1. o # None
      BY LedgerAssumption DEF Recorded
    <3>2. q1 \in Recorded /\ q2 \in Recorded
      BY <2>1, <3>1, <1>1, <1>2, <1>4
    <3>3. o \in Recorded
      BY <2>1, <3>1, <3>2, <1>4 DEF DataInvariant, UndoFollowsApproval
    <3> QED
      BY <2>1, <3>2, <3>3, <1>4 DEF DataInvariant, UndoOnce, InversesOf
  <2> QED
    BY <2>1 DEF UndoOnce, InversesOf
<1>11. UndoOperationsRecorded'
  BY <1>1, <1>2, <1>4 DEF DataInvariant, UndoOperationsRecorded
<1> QED
  BY <1>3, <1>4, <1>5, <1>6, <1>7, <1>8, <1>9, <1>10, <1>11 DEF DataInvariant

(***************************************************************************)
(* A new record was never applied.                                         *)
(***************************************************************************)
LEMMA RecordKeepsAuthors ==
  ASSUME OnlyApprovedApply, section.at # "settle", UNCHANGED history,
         Recorded \subseteq Recorded',
         \A q \in Recorded : proposals'[q] = proposals[q]
  PROVE  OnlyApprovedApply'
BY DEF OnlyApprovedApply, Applied

\* A proposal is recorded on a version its request has reached.
LEMMA RecordCreateKeeps ==
  ASSUME LedgerInvariant, NEW p \in ProposalId, RecordCreate(p)
  PROVE  LedgerInvariant'
<1>1. DataTypes /\ DataInvariant /\ TypeOK /\ OnlyApprovedApply
  BY DEF LedgerInvariant, TypeOK, DataTypes
<1>2. /\ section.at = "create"
      /\ section' = Free
      /\ proposals[p] = Absent
      /\ requests' = requests
      /\ history' = history
      /\ proposals' = [proposals EXCEPT
           ![p] = DryRun(section.request, section.snapshot, section.operations)]
  BY DEF RecordCreate
<1>3. PICK r \in Request, snapshot \in Snapshot, operations \in Batch :
        r = section.request /\ snapshot = section.snapshot /\ operations = section.operations
  BY <1>1, <1>2, SectionKind DEF Creating
<1>4. /\ Pending(r) = {}
      /\ snapshot.version <= requests[r].version
      /\ snapshot.state = StateAt(r, snapshot.version)
  BY <1>2, <1>3 DEF LedgerInvariant, SectionInvariant, CreateSection
<1>5. /\ proposals' \in [ProposalId -> Proposal \cup {Absent}]
      /\ Recorded' = Recorded \cup {p}
      /\ \A q \in Recorded : proposals'[q] = proposals[q]
      /\ DataInvariant'
  BY <1>1, <1>2, <1>3, <1>4, RecordKeepsRecords
<1>6. TypeOK'
  BY <1>1, <1>2, <1>5 DEF TypeOK
<1>7. OnlyApprovedApply'
  BY <1>1, <1>2, <1>5, RecordKeepsAuthors
<1>8. SectionInvariant'
  BY <1>2 DEF Free, SectionInvariant, CreateSection, ApproveSection, SettleSection, UndoSection,
     LinkSection
<1> QED
  BY <1>5, <1>6, <1>7, <1>8 DEF LedgerInvariant

(***************************************************************************)
(* The inverse is dry-run on the version the original's approval wrote,    *)
(* and is recorded before it names its original.                           *)
(***************************************************************************)
LEMMA RecordUndoKeeps ==
  ASSUME LedgerInvariant, NEW q \in ProposalId, RecordUndo(q)
  PROVE  LedgerInvariant'
<1>1. DataTypes /\ DataInvariant /\ TypeOK /\ OnlyApprovedApply
  BY DEF LedgerInvariant, TypeOK, DataTypes
<1>2. /\ section.at = "undo"
      /\ section' = [at |-> "link", original |-> section.original, inverse |-> q]
      /\ proposals[q] = Absent
      /\ requests[UndoRequest].version = section.version
      /\ requests' = requests
      /\ history' = history
      /\ proposals' = [proposals EXCEPT
           ![q] = DryRun(UndoRequest, requests[UndoRequest], UndoOperations)]
  BY DEF RecordUndo
<1>3. PICK p \in ProposalId : p = section.original
  BY <1>1, <1>2, SectionKind DEF Undoing
<1>4. /\ Undoable(p)
      /\ section.version = proposals[p].request_version
      /\ Pending(proposals[p].request) = {}
  BY <1>2, <1>3 DEF LedgerInvariant, SectionInvariant, UndoSection
<1>5. proposals[p] \in Proposal
  BY <1>1, <1>4, RecordedType DEF Undoable
<1>6. SetBatch(proposals[p].inverse.restore) \in Batch
  BY <1>4, <1>5 DEF Undoable, Proposal, Evidence, SetBatch, Batch
<1>7. PICK r \in Request, snapshot \in Snapshot, operations \in Batch :
        /\ r = UndoRequest
        /\ snapshot = requests[UndoRequest]
        /\ operations = UndoOperations
  BY <1>1, <1>3, <1>5, <1>6 DEF UndoRequest, UndoOperations, DataTypes, Proposal
<1>8. /\ r = proposals[p].request
      /\ operations = SetBatch(proposals[p].inverse.restore)
      /\ snapshot = requests[r]
      /\ snapshot.version = proposals[p].request_version
  BY <1>2, <1>3, <1>4, <1>7 DEF UndoRequest, UndoOperations
<1>9. snapshot.version <= requests[r].version /\ snapshot.state = StateAt(r, snapshot.version)
  BY <1>1, <1>8 DEF DataInvariant, HistoryMatches, StateAt, Snapshot
<1>10. /\ proposals' \in [ProposalId -> Proposal \cup {Absent}]
       /\ Recorded' = Recorded \cup {q}
       /\ \A o \in Recorded : o # q /\ proposals'[o] = proposals[o]
       /\ DataInvariant'
  BY <1>1, <1>2, <1>4, <1>7, <1>8, <1>9, RecordKeepsRecords
<1>11. /\ proposals'[q].status = "pending"
       /\ proposals'[q].undo_of = None
       /\ proposals'[q].request = r
       /\ proposals'[q].base_version = snapshot.version
       /\ proposals'[q].operations = operations
  <2>1. proposals' = [proposals EXCEPT ![q] = DryRun(r, snapshot, operations)]
    BY <1>2, <1>7
  <2>2. proposals'[q] = DryRun(r, snapshot, operations)
    BY <2>1, <1>1 DEF DataTypes
  <2> QED
    BY <2>2 DEF DryRun
<1>12. TypeOK'
  <2>1. section' \in Linking
    BY <1>2, <1>3 DEF Linking
  <2> QED
    BY <2>1, <1>1, <1>2, <1>10 DEF TypeOK
<1>13. OnlyApprovedApply'
  BY <1>1, <1>2, <1>10, RecordKeepsAuthors
<1>14. LinkSection'
  <2>1. p \in Recorded /\ proposals'[p] = proposals[p]
    BY <1>4, <1>10 DEF Undoable
  <2>2. InversesOf(p)' = {}
    BY <1>4, <1>10, <1>11, LedgerAssumption DEF Undoable, InversesOf
  <2>3. Undoable(p)'
    BY <2>1, <2>2, <1>4, <1>10 DEF Undoable
  <2>4. section'.original = p /\ section'.inverse = q
    BY <1>2, <1>3
  <2> QED
    BY <2>1, <2>3, <2>4, <1>8, <1>10, <1>11 DEF LinkSection, Undecided
<1>15. SectionInvariant'
  BY <1>2, <1>14 DEF SectionInvariant, CreateSection, ApproveSection, SettleSection, UndoSection
<1> QED
  BY <1>10, <1>12, <1>13, <1>15 DEF LedgerInvariant

\* The original is marked with the inverse that was just recorded.
LEMMA LinkUndoKeeps ==
  ASSUME LedgerInvariant, LinkUndo
  PROVE  LedgerInvariant'
<1>1. DataTypes /\ DataInvariant /\ TypeOK /\ OnlyApprovedApply
  BY DEF LedgerInvariant, TypeOK, DataTypes
<1>2. /\ section.at = "link"
      /\ section' = Free
      /\ requests' = requests
      /\ history' = history
      /\ proposals' = [proposals EXCEPT ![section.inverse].undo_of = section.original]
  BY DEF LinkUndo
<1>3. PICK p \in ProposalId, q \in ProposalId : p = section.original /\ q = section.inverse
  BY <1>1, <1>2, SectionKind DEF Linking
<1>4. /\ Undoable(p)
      /\ Undecided(q)
      /\ proposals[q].undo_of = None
      /\ proposals[q].request = proposals[p].request
      /\ proposals[q].base_version = proposals[p].request_version
      /\ proposals[q].operations = SetBatch(proposals[p].inverse.restore)
  BY <1>2, <1>3 DEF LedgerInvariant, SectionInvariant, LinkSection
<1>5. proposals[q] \in Proposal
  BY <1>1, <1>4, RecordedType DEF Undecided
<1>6. /\ \A o \in ProposalId \ {q} : proposals'[o] = proposals[o]
      /\ proposals'[q] = [proposals[q] EXCEPT !.undo_of = p]
  BY <1>1, <1>2, <1>3 DEF DataTypes
<1>7. proposals'[q] \in Proposal
  BY <1>5, <1>6 DEF Proposal
<1>8. proposals' \in [ProposalId -> Proposal \cup {Absent}]
  BY <1>1, <1>2, <1>3, <1>6, <1>7 DEF DataTypes
<1>9. /\ proposals'[q].request = proposals[q].request
      /\ proposals'[q].base_version = proposals[q].base_version
      /\ proposals'[q].operations = proposals[q].operations
      /\ proposals'[q].preview = proposals[q].preview
      /\ proposals'[q].inverse = proposals[q].inverse
      /\ proposals'[q].status = "pending"
      /\ proposals'[q].undo_of = p
  BY <1>4, <1>5, <1>6 DEF Proposal, Undecided
<1>10. Recorded' = Recorded
  BY <1>4, <1>6, <1>7, LedgerAssumption DEF Recorded, Undecided
<1>11. p # q /\ p \in Recorded /\ q \in Recorded
  BY <1>4 DEF Undoable, Undecided
<1>12. \A o \in Recorded \ {q} : proposals'[o] = proposals[o]
  BY <1>6 DEF Recorded
<1>13. DataInvariant'
  <2>1. HistoryMatches'
    BY <1>1, <1>2 DEF DataInvariant, HistoryMatches
  <2>2. RecordsAreDryRuns'
    <3>1. ASSUME NEW o \in Recorded
          PROVE  /\ proposals'[o].request = proposals[o].request
                 /\ proposals'[o].base_version = proposals[o].base_version
                 /\ proposals'[o].operations = proposals[o].operations
                 /\ proposals'[o].preview = proposals[o].preview
                 /\ proposals'[o].inverse = proposals[o].inverse
      BY <1>9, <1>12
    <3>2. requests' = requests /\ history' = history
      BY <1>2
    <3> QED
      BY <3>1, <3>2, <1>1, <1>10 DEF DataInvariant, RecordsAreDryRuns, StateAt
  <2>3. SinglePending'
    BY <1>1, <1>4, <1>9, <1>10, <1>12 DEF DataInvariant, SinglePending, Pending, Undecided
  <2>4. ApprovedIsPreview'
    BY <1>1, <1>2, <1>9, <1>10, <1>12 DEF DataInvariant, ApprovedIsPreview
  <2>5. UndoFollowsApproval'
    BY <1>1, <1>4, <1>9, <1>10, <1>11, <1>12
    DEF DataInvariant, UndoFollowsApproval, Undoable, Undecided
  <2>6. UndoOnce'
    <3>1. ASSUME NEW o \in Recorded, NEW q1 \in Recorded, NEW q2 \in Recorded,
                 proposals'[q1].undo_of = o, proposals'[q2].undo_of = o
          PROVE  q1 = q2
      <4>1. CASE o = p
        BY <4>1, <3>1, <1>4, <1>12 DEF Undoable, InversesOf
      <4>2. CASE o # p
        <5>1. q1 # q /\ q2 # q
          BY <4>2, <3>1, <1>9
        <5> QED
          BY <5>1, <3>1, <1>1, <1>12 DEF DataInvariant, UndoOnce, InversesOf
      <4> QED
        BY <4>1, <4>2
    <3> QED
      BY <3>1, <1>10 DEF UndoOnce, InversesOf
  <2>7. UndoOperationsRecorded'
    BY <1>1, <1>4, <1>9, <1>10, <1>11, <1>12
    DEF DataInvariant, UndoOperationsRecorded, Undoable
  <2> QED
    BY <2>1, <2>2, <2>3, <2>4, <2>5, <2>6, <2>7 DEF DataInvariant
<1>14. OnlyApprovedApply'
  BY <1>1, <1>2, <1>4, <1>9, <1>10, <1>12 DEF OnlyApprovedApply, Applied, Undecided
<1>15. TypeOK'
  BY <1>1, <1>2, <1>8 DEF TypeOK
<1>16. SectionInvariant'
  BY <1>2 DEF Free, SectionInvariant, CreateSection, ApproveSection, SettleSection, UndoSection,
     LinkSection
<1> QED
  BY <1>13, <1>14, <1>15, <1>16 DEF LedgerInvariant

(***************************************************************************)
(* Every step of every operation, and every form save between two of them, *)
(* preserves the invariant.                                                *)
(***************************************************************************)
LEMMA NextKeeps ==
  ASSUME LedgerInvariant, [Next]_vars
  PROVE  LedgerInvariant'
<1>1. CASE Next
  <2>1. ASSUME NEW r \in Request, NEW d \in Edits, SaveForm(r, d)
        PROVE  LedgerInvariant'
    BY <2>1, SaveFormKeeps
  <2>2. ASSUME NEW r \in Request, NEW b \in Batches, BeginCreate(r, b)
        PROVE  LedgerInvariant'
    BY <2>2, BeginCreateKeeps
  <2>3. ASSUME NEW p \in ProposalId, BeginApprove(p)
        PROVE  LedgerInvariant'
    BY <2>3, BeginApproveKeeps
  <2>4. ASSUME NEW p \in ProposalId, NEW s \in {"rejected", "expired"},
               ResolveWithoutApply(p, s)
        PROVE  LedgerInvariant'
    BY <2>4, ResolveKeeps
  <2>5. ASSUME NEW p \in ProposalId, BeginUndo(p)
        PROVE  LedgerInvariant'
    BY <2>5, BeginUndoKeeps
  <2>6. CASE RefuseCreate \/ RefuseUndo
    BY <2>6, RefuseKeeps
  <2>7. ASSUME NEW p \in ProposalId, RecordCreate(p)
        PROVE  LedgerInvariant'
    BY <2>7, RecordCreateKeeps
  <2>8. CASE ApplyApproved
    BY <2>8, ApplyApprovedKeeps
  <2>9. CASE ConflictApproved \/ FailApproved
    BY <2>9, UnappliedKeeps
  <2>10. CASE RecordTerminal
    BY <2>10, RecordTerminalKeeps
  <2>11. ASSUME NEW p \in ProposalId, RecordUndo(p)
         PROVE  LedgerInvariant'
    BY <2>11, RecordUndoKeeps
  <2>12. CASE LinkUndo
    BY <2>12, LinkUndoKeeps
  <2> QED
    BY <1>1, <2>1, <2>2, <2>3, <2>4, <2>5, <2>6, <2>7, <2>8, <2>9, <2>10, <2>11, <2>12
    DEF Next, Begin, SectionStep
<1>2. CASE UNCHANGED vars
  <2>1. UNCHANGED <<requests, proposals, history, section>> /\ Recorded' = Recorded
    BY <1>2 DEF vars, Recorded
  <2>2. TypeOK' /\ HistoryMatches' /\ RecordsAreDryRuns'
    BY <2>1 DEF LedgerInvariant, TypeOK, DataInvariant, HistoryMatches, RecordsAreDryRuns, StateAt
  <2>3. SinglePending' /\ ApprovedIsPreview' /\ UndoOnce'
    BY <2>1 DEF LedgerInvariant, DataInvariant, SinglePending, Pending, ApprovedIsPreview, UndoOnce,
       InversesOf
  <2>4. UndoFollowsApproval' /\ UndoOperationsRecorded' /\ OnlyApprovedApply'
    BY <2>1 DEF LedgerInvariant, DataInvariant, UndoFollowsApproval, UndoOperationsRecorded,
       OnlyApprovedApply, Applied
  <2>5. SectionInvariant'
    BY <2>1 DEF LedgerInvariant, SectionInvariant, CreateSection, ApproveSection, SettleSection,
       UndoSection, LinkSection, Undoable, Undecided, InversesOf, Pending, StateAt
  <2> QED
    BY <2>2, <2>3, <2>4, <2>5 DEF LedgerInvariant, DataInvariant
<1> QED
  BY <1>1, <1>2

(***************************************************************************)
(* Every reachable state of the stores and of the operation in progress    *)
(* satisfies the inductive invariant.                                      *)
(***************************************************************************)
THEOREM LedgerInvariantHolds == Spec => []LedgerInvariant
<1>1. Init => LedgerInvariant
  BY InitInvariant
<1>2. LedgerInvariant /\ [Next]_vars => LedgerInvariant'
  BY NextKeeps
<1> QED
  BY <1>1, <1>2, PTL DEF Spec

(***************************************************************************)
(* What the ledger promises, for any number of requests, proposals, forms  *)
(* and batches: well-formed stores, one undecided proposal per request,    *)
(* the approved preview written as it was shown and by nothing but its     *)
(* approval, and one undo per approval, made on the version it wrote.      *)
(***************************************************************************)
THEOREM TypeCorrect == Spec => []TypeOK
<1>1. LedgerInvariant => TypeOK
  BY DEF LedgerInvariant
<1> QED
  BY <1>1, LedgerInvariantHolds, PTL

\* No interleaving gives a request two undecided proposals.
THEOREM SinglePendingHolds == Spec => []SinglePending
<1>1. LedgerInvariant => SinglePending
  BY DEF LedgerInvariant, DataInvariant
<1> QED
  BY <1>1, LedgerInvariantHolds, PTL

\* The version an approval wrote is the one its proposal previewed.
THEOREM ApprovedIsPreviewHolds == Spec => []ApprovedIsPreview
<1>1. LedgerInvariant => ApprovedIsPreview
  BY DEF LedgerInvariant, DataInvariant
<1> QED
  BY <1>1, LedgerInvariantHolds, PTL

\* A proposal writes at most one version, and only when it ends approved.
THEOREM OnlyApprovedApplyHolds == Spec => []OnlyApprovedApply
<1>1. LedgerInvariant => OnlyApprovedApply
  BY DEF LedgerInvariant
<1> QED
  BY <1>1, LedgerInvariantHolds, PTL

\* An undo is proposed on the very version its original wrote.
THEOREM UndoFollowsApprovalHolds == Spec => []UndoFollowsApproval
<1>1. LedgerInvariant => UndoFollowsApproval
  BY DEF LedgerInvariant, DataInvariant
<1> QED
  BY <1>1, LedgerInvariantHolds, PTL

\* An approval has at most one inverse, decided or not.
THEOREM UndoOnceHolds == Spec => []UndoOnce
<1>1. LedgerInvariant => UndoOnce
  BY DEF LedgerInvariant, DataInvariant
<1> QED
  BY <1>1, LedgerInvariantHolds, PTL

(***************************************************************************)
(* What the invariant says of one record.                                  *)
(***************************************************************************)
LEMMA RecordedDryRun ==
  ASSUME RecordsAreDryRuns, NEW p \in Recorded
  PROVE  LET before == StateAt(proposals[p].request, proposals[p].base_version)
             after  == Patch(before, proposals[p].operations)
         IN /\ proposals[p].preview = after
            /\ proposals[p].base_version <= requests[proposals[p].request].version
            /\ proposals[p].inverse # None =>
                 /\ HasInverse(before, after, proposals[p].operations)
                 /\ proposals[p].inverse.restore = ValuesAt(before, proposals[p].operations)
                 /\ proposals[p].inverse.expected = ValuesAt(after, proposals[p].operations)
<1> DEFINE before == StateAt(proposals[p].request, proposals[p].base_version)
           after  == Patch(before, proposals[p].operations)
<1>1. /\ proposals[p].base_version <= requests[proposals[p].request].version
      /\ proposals[p].preview = after
      /\ proposals[p].inverse # None =>
           /\ HasInverse(before, proposals[p].preview, proposals[p].operations)
           /\ proposals[p].inverse =
                [restore  |-> ValuesAt(before, proposals[p].operations),
                 expected |-> ValuesAt(proposals[p].preview, proposals[p].operations)]
  BY Zenon DEF RecordsAreDryRuns
<1> HIDE DEF before, after
<1>2. /\ proposals[p].preview = after
      /\ proposals[p].base_version <= requests[proposals[p].request].version
      /\ proposals[p].inverse # None =>
           /\ HasInverse(before, after, proposals[p].operations)
           /\ proposals[p].inverse.restore = ValuesAt(before, proposals[p].operations)
           /\ proposals[p].inverse.expected = ValuesAt(after, proposals[p].operations)
  BY <1>1
<1> QED
  BY <1>2 DEF before, after

\* The version an approval reports holds what its proposal previewed.
LEMMA ApprovedWrote ==
  ASSUME ApprovedIsPreview, NEW p \in Recorded, proposals[p].status = "approved"
  PROVE  StateAt(proposals[p].request, proposals[p].request_version) = proposals[p].preview
<1>1. history[proposals[p].request][proposals[p].request_version + 1] =
        [state |-> proposals[p].preview, author |-> p]
  BY DEF ApprovedIsPreview
<1> QED
  BY <1>1 DEF StateAt

(***************************************************************************)
(* The undo of an approval that is still the latest write finds the values *)
(* its evidence recorded at the dry run: RequestVersionConflictError is    *)
(* the only staleness it can meet.                                         *)
(***************************************************************************)
THEOREM EvidenceHoldsAlways == Spec => []EvidenceHolds
<1>1. LedgerInvariant => EvidenceHolds
  <2> SUFFICES ASSUME LedgerInvariant, NEW p \in Recorded,
                      proposals[p].status = "approved",
                      proposals[p].inverse # None,
                      requests[proposals[p].request].version = proposals[p].request_version
               PROVE  EvidenceMatches(requests[proposals[p].request].state,
                                      proposals[p].inverse.expected)
    BY DEF EvidenceHolds
  <2>1. DataTypes /\ DataInvariant
    BY DEF LedgerInvariant, TypeOK, DataTypes
  <2>2. proposals[p] \in Proposal /\ p \in ProposalId
    BY <2>1, RecordedType DEF Recorded
  <2>3. PICK r \in Request, base \in Nat, batch \in Batch :
          /\ r = proposals[p].request
          /\ base = proposals[p].base_version
          /\ batch = proposals[p].operations
    BY <2>2 DEF Proposal
  <2>4. base <= requests[r].version
    BY <2>1, <2>3 DEF DataInvariant, RecordsAreDryRuns
  <2>5. StateAt(r, base) \in State
    BY <2>1, <2>3, <2>4, StateAtType DEF DataInvariant
  <2> DEFINE before == StateAt(r, base)
             after  == Patch(before, batch)
  <2>6. /\ HasInverse(before, after, batch)
        /\ proposals[p].inverse.expected = ValuesAt(after, batch)
        /\ proposals[p].preview = after
    BY <2>1, <2>3, RecordedDryRun DEF DataInvariant
  <2>7. requests[r].state = after
    <3>1. StateAt(r, proposals[p].request_version) = proposals[p].preview
      BY <2>1, <2>3, ApprovedWrote DEF DataInvariant
    <3>2. StateAt(r, requests[r].version) = requests[r].state
      BY <2>1 DEF DataInvariant, HistoryMatches, StateAt
    <3> QED
      BY <3>1, <3>2, <2>3, <2>6
  <2> QED
    BY <2>3, <2>5, <2>6, <2>7, EvidenceOfDryRun
<1> QED
  BY <1>1, LedgerInvariantHolds, PTL

(***************************************************************************)
(* An approved undo of a proposal that kept the kind of the request gives  *)
(* back the document the user had before, for all values of every field.   *)
(***************************************************************************)
THEOREM UndoRestores == Spec => []UndoRestoresDocument
<1>1. LedgerInvariant => UndoRestoresDocument
  <2> SUFFICES ASSUME LedgerInvariant, NEW q \in Recorded,
                      ApprovedUndo(q), KeepsKind(proposals[q].undo_of)
               PROVE  UndoneBy(q)
    BY DEF UndoRestoresDocument
  <2>1. DataTypes /\ DataInvariant
    BY DEF LedgerInvariant, TypeOK, DataTypes
  <2>2. PICK p \in Recorded : p = proposals[q].undo_of
    BY <2>1 DEF ApprovedUndo, DataInvariant, UndoFollowsApproval
  <2>3. /\ p \in ProposalId
        /\ proposals[p] \in Proposal
        /\ proposals[q] \in Proposal
    BY <2>1, RecordedType DEF Recorded
  <2>4. /\ proposals[p].status = "approved"
        /\ proposals[q].status = "approved"
        /\ proposals[q].request = proposals[p].request
        /\ proposals[q].base_version = proposals[p].request_version
        /\ proposals[p].inverse # None
        /\ proposals[q].operations = SetBatch(proposals[p].inverse.restore)
    BY <2>1, <2>2 DEF ApprovedUndo, DataInvariant, UndoFollowsApproval, UndoOperationsRecorded
  <2>5. PICK r \in Request, base \in Nat, batch \in Batch :
          /\ r = proposals[p].request
          /\ base = proposals[p].base_version
          /\ batch = proposals[p].operations
    BY <2>3 DEF Proposal
  <2>6. base <= requests[r].version
    BY <2>1, <2>5 DEF DataInvariant, RecordsAreDryRuns
  <2> DEFINE before == StateAt(r, base)
             after  == Patch(before, batch)
             back   == SetBatch(ValuesAt(before, batch))
  <2>7. before \in State
    BY <2>1, <2>5, <2>6, StateAtType DEF DataInvariant
  <2>8. Normalize(before) = before
    <3>1. base + 1 \in DOMAIN history[r]
      BY <2>1, <2>6, <2>5 DEF DataInvariant, HistoryMatches, DataTypes, Snapshot
    <3> QED
      BY <3>1, <2>1 DEF DataInvariant, HistoryMatches, StateAt
  <2>9. /\ HasInverse(before, after, batch)
        /\ proposals[p].inverse.restore = ValuesAt(before, batch)
        /\ proposals[p].preview = after
    BY <2>1, <2>4, <2>5, RecordedDryRun DEF DataInvariant
  <2>10. StateAt(r, proposals[p].request_version) = after
    BY <2>1, <2>4, <2>5, <2>9, ApprovedWrote DEF DataInvariant
  <2>11. StateAt(r, proposals[q].request_version) = Patch(after, back)
    <3>1. proposals[q].preview = Patch(StateAt(r, proposals[q].base_version), proposals[q].operations)
      BY <2>1, <2>4, <2>5, RecordedDryRun DEF DataInvariant
    <3>2. proposals[q].preview = Patch(after, back)
      BY <3>1, <2>4, <2>9, <2>10
    <3>3. StateAt(r, proposals[q].request_version) = proposals[q].preview
      BY <2>1, <2>4, <2>5, ApprovedWrote DEF DataInvariant
    <3> QED
      BY <3>2, <3>3
  <2>12. "request_type" \in DOMAIN batch.sets =>
           Development \notin {batch.sets["request_type"], before["request_type"]}
    BY <2>2, <2>5 DEF KeepsKind
  <2>13. Visible(Patch(after, back)) = Visible(before)
    BY <2>7, <2>8, <2>9, <2>12, InverseRestores
  <2> QED
    BY <2>2, <2>4, <2>5, <2>11, <2>13 DEF UndoneBy
<1> QED
  BY <1>1, LedgerInvariantHolds, PTL

(***************************************************************************)
(* A decided proposal never changes again.                                 *)
(***************************************************************************)
THEOREM TerminalFrozenHolds == Spec => TerminalFrozen
<1>1. LedgerInvariant /\ [Next]_vars =>
        [\A p \in Recorded :
           proposals[p].status \in Terminal => proposals'[p] = proposals[p]]_vars
  <2> SUFFICES ASSUME LedgerInvariant, Next, NEW p \in Recorded,
                      proposals[p].status \in Terminal
               PROVE  proposals'[p] = proposals[p]
    OBVIOUS
  <2>1. /\ proposals \in [ProposalId -> Proposal \cup {Absent}]
        /\ ApproveSection
        /\ SettleSection
        /\ LinkSection
    BY DEF LedgerInvariant, TypeOK, SectionInvariant
  <2>2. p \in ProposalId /\ proposals[p] # Absent /\ proposals[p].status # "pending"
    BY DEF Recorded, Terminal
  <2>3. CASE proposals' = proposals
    BY <2>3
  <2>4. ASSUME NEW q \in ProposalId, RecordCreate(q) \/ RecordUndo(q)
        PROVE  proposals'[p] = proposals[p]
    BY <2>4, <2>1, <2>2 DEF RecordCreate, RecordUndo
  <2>5. ASSUME NEW q \in ProposalId, NEW s \in {"rejected", "expired"}, ResolveWithoutApply(q, s)
        PROVE  proposals'[p] = proposals[p]
    BY <2>5, <2>1, <2>2 DEF ResolveWithoutApply
  <2>6. CASE RecordTerminal
    BY <2>6, <2>1, <2>2 DEF RecordTerminal, SettleSection, Undecided
  <2>7. CASE LinkUndo
    BY <2>7, <2>1, <2>2 DEF LinkUndo, LinkSection, Undecided
  <2> QED
    BY <2>3, <2>4, <2>5, <2>6, <2>7
    DEF Next, Begin, SectionStep, SaveForm, BeginCreate, BeginApprove, BeginUndo, RefuseCreate,
        RefuseUndo, ApplyApproved, ConflictApproved, FailApproved
<1> QED
  BY <1>1, LedgerInvariantHolds, PTL DEF Spec, TerminalFrozen
(***************************************************************************)
(* The capacity needs the set of records to be finite: Cardinality says    *)
(* nothing of any other.                                                   *)
(***************************************************************************)
CapacityInvariant == IsFiniteSet(Recorded) /\ CapacityHolds

(***************************************************************************)
(* A step that touches one record at most, a new one only when the ledger  *)
(* has room, keeps the capacity.                                           *)
(***************************************************************************)
LEMMA OneRecordKeepsCapacity ==
  ASSUME CapacityInvariant, NEW p \in ProposalId,
         p \in Recorded \/ ~LedgerFull,
         \A q \in ProposalId \ {p} : proposals'[q] = proposals[q]
  PROVE  CapacityInvariant'
<1>1. /\ IsFiniteSet(Recorded)
      /\ Cardinality(Recorded) <= MaxProposals
  BY DEF CapacityInvariant, CapacityHolds
<1>2. Cardinality(Recorded) \in Nat /\ MaxProposals \in Nat
  BY <1>1, FS_CardinalityType, LedgerAssumption
<1>3. /\ IsFiniteSet(Recorded \cup {p})
      /\ Cardinality(Recorded \cup {p}) =
           IF p \in Recorded THEN Cardinality(Recorded) ELSE Cardinality(Recorded) + 1
  BY <1>1, FS_AddElement
<1>4. Cardinality(Recorded \cup {p}) <= MaxProposals
  BY <1>1, <1>2, <1>3 DEF LedgerFull
<1>5. Recorded' \in SUBSET (Recorded \cup {p})
  BY DEF Recorded
<1>6. IsFiniteSet(Recorded') /\ Cardinality(Recorded') <= Cardinality(Recorded \cup {p})
  BY <1>3, <1>5, FS_Subset
<1>7. Cardinality(Recorded') \in Nat /\ Cardinality(Recorded \cup {p}) \in Nat
  BY <1>3, <1>6, FS_CardinalityType
<1>8. Cardinality(Recorded') <= MaxProposals
  BY <1>2, <1>4, <1>6, <1>7
<1> QED
  BY <1>6, <1>8 DEF CapacityInvariant, CapacityHolds

(***************************************************************************)
(* The ledger never holds more records than max_proposals, the decided     *)
(* ones and the inverses included: a record is never removed to make room, *)
(* and the check for room and the record are one operation of the lock.    *)
(***************************************************************************)
THEOREM CapacityHoldsAlways == Spec => []CapacityHolds
<1>1. Init => CapacityInvariant
  <2> SUFFICES ASSUME Init
               PROVE  CapacityInvariant
    OBVIOUS
  <2>1. Recorded = {}
    BY DEF Init, Recorded
  <2> QED
    BY <2>1, FS_EmptySet, LedgerAssumption DEF CapacityInvariant, CapacityHolds
<1>2. LedgerInvariant /\ CapacityInvariant /\ [Next]_vars => CapacityInvariant'
  <2> SUFFICES ASSUME LedgerInvariant, CapacityInvariant, [Next]_vars
               PROVE  CapacityInvariant'
    OBVIOUS
  <2>1. TypeOK /\ SettleSection /\ LinkSection
    BY DEF LedgerInvariant, SectionInvariant
  <2>2. CASE proposals' = proposals
    BY <2>2 DEF CapacityInvariant, CapacityHolds, Recorded
  <2>3. ASSUME NEW p \in ProposalId, RecordCreate(p) \/ RecordUndo(p)
        PROVE  CapacityInvariant'
    <3>1. ~LedgerFull /\ \A q \in ProposalId \ {p} : proposals'[q] = proposals[q]
      BY <2>1, <2>3 DEF RecordCreate, RecordUndo, Recordable, TypeOK
    <3> QED
      BY <3>1, OneRecordKeepsCapacity
  <2>4. ASSUME NEW p \in ProposalId, NEW s \in {"rejected", "expired"}, ResolveWithoutApply(p, s)
        PROVE  CapacityInvariant'
    <3>1. p \in Recorded /\ \A q \in ProposalId \ {p} : proposals'[q] = proposals[q]
      BY <2>1, <2>4 DEF ResolveWithoutApply, TypeOK
    <3> QED
      BY <3>1, OneRecordKeepsCapacity
  <2>5. CASE RecordTerminal
    <3>1. PICK p \in ProposalId : p = section.proposal /\ p \in Recorded
      BY <2>1, <2>5, SectionKind DEF RecordTerminal, SettleSection, Settling, Undecided
    <3>2. \A q \in ProposalId \ {p} : proposals'[q] = proposals[q]
      BY <2>1, <2>5, <3>1 DEF RecordTerminal, TypeOK
    <3> QED
      BY <3>1, <3>2, OneRecordKeepsCapacity
  <2>6. CASE LinkUndo
    <3>1. PICK p \in ProposalId : p = section.inverse /\ p \in Recorded
      BY <2>1, <2>6, SectionKind DEF LinkUndo, LinkSection, Linking, Undecided
    <3>2. \A q \in ProposalId \ {p} : proposals'[q] = proposals[q]
      BY <2>1, <2>6, <3>1 DEF LinkUndo, TypeOK
    <3> QED
      BY <3>1, <3>2, OneRecordKeepsCapacity
  <2> QED
    BY <2>2, <2>3, <2>4, <2>5, <2>6
    DEF Next, Begin, SectionStep, SaveForm, BeginCreate, BeginApprove, BeginUndo, RefuseCreate,
        RefuseUndo, ApplyApproved, ConflictApproved, FailApproved, vars
<1>3. CapacityInvariant => CapacityHolds
  BY DEF CapacityInvariant
<1> QED
  BY <1>1, <1>2, <1>3, LedgerInvariantHolds, PTL DEF Spec

-----------------------------------------------------------------------------
(***************************************************************************)
(* The ledger implements the contract: each step of an operation is one    *)
(* step of the contract or leaves it as it is.                             *)
(***************************************************************************)

\* The parts of a record that the contract knows.
Seen(p) == <<proposals[p].request, proposals[p].base_version, StatusSeen(p), OriginSeen(p)>>

(***************************************************************************)
(* The contract's ledger as a function of what is seen of each record.     *)
(***************************************************************************)
LEMMA SeenRecord ==
  ASSUME LedgerInvariant, NEW p \in ProposalId
  PROVE  /\ p \notin Recorded => LedgerSeen[p] = Absent
         /\ p \in Recorded =>
              /\ LedgerSeen[p] = [request |-> proposals[p].request,
                                  base    |-> proposals[p].base_version,
                                  status  |-> StatusSeen(p),
                                  undo_of |-> OriginSeen(p)]
              /\ LedgerSeen[p] \in Contract!Lifecycle
              /\ LedgerSeen[p] # Absent
<1>1. CASE p \notin Recorded
  BY <1>1 DEF LedgerSeen, Recorded
<1>2. CASE p \in Recorded
  <2>1. proposals[p] \in Proposal
    BY <1>2, RecordedType DEF LedgerInvariant, TypeOK, DataTypes
  <2>2. LedgerSeen[p] = [request |-> proposals[p].request,
                         base    |-> proposals[p].base_version,
                         status  |-> StatusSeen(p),
                         undo_of |-> OriginSeen(p)]
    BY <1>2 DEF LedgerSeen, Recorded
  <2>3. StatusSeen(p) \in {"pending", "approved", "rejected", "expired", "conflicted", "failed"}
    <3>1. section.at = "settle" => section.outcome \in {"approved", "conflicted", "failed"}
      BY SectionKind DEF LedgerInvariant, TypeOK, Settling
    <3> QED
      BY <3>1, <2>1 DEF StatusSeen, Proposal, Terminal
  <2>4. OriginSeen(p) \in ProposalId \cup {None}
    <3>1. section.at = "link" => section.original \in ProposalId
      BY SectionKind DEF LedgerInvariant, TypeOK, Linking
    <3> QED
      BY <3>1, <2>1 DEF OriginSeen, Proposal
  <2>5. proposals[p].request \in Request /\ proposals[p].base_version \in Nat
    BY <2>1 DEF Proposal
  <2>6. LedgerSeen[p] \in Contract!Lifecycle
    BY <2>2, <2>3, <2>4, <2>5 DEF Contract!Lifecycle
  <2> QED
    BY <1>2, <2>2, <2>6, RefinementAssumption
<1> QED
  BY <1>1, <1>2

\* What the contract sees of a recorded proposal.
LEMMA SeenFields ==
  ASSUME LedgerInvariant, NEW p \in Recorded
  PROVE  /\ p \in Contract!Issued
         /\ LedgerSeen[p].request = proposals[p].request
         /\ LedgerSeen[p].base = proposals[p].base_version
         /\ LedgerSeen[p].status = StatusSeen(p)
         /\ LedgerSeen[p].undo_of = OriginSeen(p)
<1>1. p \in ProposalId
  BY DEF Recorded
<1>2. /\ LedgerSeen[p] # Absent
      /\ LedgerSeen[p] = [request |-> proposals[p].request,
                          base    |-> proposals[p].base_version,
                          status  |-> StatusSeen(p),
                          undo_of |-> OriginSeen(p)]
  BY <1>1, SeenRecord
<1> QED
  BY <1>1, <1>2 DEF Contract!Issued

(***************************************************************************)
(* A step that changes nothing of what is seen of the records is a stutter *)
(* of the contract's ledger, and one that changes what is seen of one      *)
(* record updates it at that record.                                       *)
(***************************************************************************)
LEMMA SeenFrame ==
  ASSUME Recorded' = Recorded,
         \A p \in Recorded : Seen(p)' = Seen(p)
  PROVE  LedgerSeen' = LedgerSeen
BY DEF LedgerSeen, Recorded, Seen

\* A ledger that differs in one proposal is the other with that one replaced.
LEMMA SeenUpdate ==
  ASSUME NEW q \in ProposalId, NEW record,
         LedgerSeen'[q] = record,
         \A p \in ProposalId \ {q} : LedgerSeen'[p] = LedgerSeen[p]
  PROVE  LedgerSeen' = [LedgerSeen EXCEPT ![q] = record]
<1>1. LedgerSeen = [p \in ProposalId |-> LedgerSeen[p]]
  BY DEF LedgerSeen
<1>2. LedgerSeen' = [p \in ProposalId |-> LedgerSeen'[p]]
  BY DEF LedgerSeen
<1> QED
  BY <1>1, <1>2

(***************************************************************************)
(* Beginning an operation, giving it up, writing the terminal record and   *)
(* linking the inverse are invisible.                                      *)
(***************************************************************************)
LEMMA BeginIsStutter ==
  ASSUME LedgerInvariant, UNCHANGED <<requests, proposals>>,
         section.at \notin {"settle", "link"}, section'.at \notin {"settle", "link"}
  PROVE  UNCHANGED <<VersionSeen, LedgerSeen>>
<1>1. Recorded' = Recorded /\ \A p \in Recorded : Seen(p)' = Seen(p)
  BY DEF Recorded, Seen, StatusSeen, OriginSeen
<1>2. VersionSeen' = VersionSeen
  BY DEF VersionSeen
<1> QED
  BY <1>1, <1>2, SeenFrame

\* The contract saw the outcome when it was reached, before it is recorded.
LEMMA RecordTerminalIsStutter ==
  ASSUME LedgerInvariant, RecordTerminal
  PROVE  UNCHANGED <<VersionSeen, LedgerSeen>>
<1>1. PICK p \in ProposalId : p = section.proposal
  BY SectionKind DEF LedgerInvariant, TypeOK, RecordTerminal, Settling
<1>2. /\ section.at = "settle"
      /\ section'.at = "free"
      /\ p \in Recorded
  BY <1>1 DEF RecordTerminal, Free, LedgerInvariant, SectionInvariant, SettleSection, Undecided
<1>3. proposals[p] \in Proposal
  BY <1>2, RecordedType DEF LedgerInvariant, TypeOK, DataTypes
<1>4. /\ \A q \in ProposalId \ {p} : proposals'[q] = proposals[q]
      /\ proposals'[p] = [proposals[p] EXCEPT !.status = section.outcome,
                                              !.request_version = section.version]
  BY <1>1 DEF RecordTerminal, LedgerInvariant, TypeOK
<1>5. /\ proposals'[p].request = proposals[p].request
      /\ proposals'[p].base_version = proposals[p].base_version
      /\ proposals'[p].undo_of = proposals[p].undo_of
      /\ proposals'[p].status = section.outcome
      /\ proposals'[p] # Absent
  <2>1. proposals'[p] \in Proposal
    BY <1>1, <1>2, <1>3, <1>4, SectionKind
    DEF LedgerInvariant, TypeOK, Settling, Proposal, Terminal
  <2> QED
    BY <2>1, <1>3, <1>4, LedgerAssumption DEF Proposal
<1>6. Recorded' = Recorded
  BY <1>2, <1>4, <1>5 DEF Recorded
<1>7. ASSUME NEW q \in Recorded
      PROVE  Seen(q)' = Seen(q)
  BY <1>1, <1>2, <1>4, <1>5 DEF Seen, StatusSeen, OriginSeen, Recorded
<1>8. VersionSeen' = VersionSeen
  BY DEF VersionSeen, RecordTerminal
<1> QED
  BY <1>6, <1>7, <1>8, SeenFrame

\* The contract saw the inverse when it was recorded, before it is linked.
LEMMA LinkUndoIsStutter ==
  ASSUME LedgerInvariant, LinkUndo
  PROVE  UNCHANGED <<VersionSeen, LedgerSeen>>
<1>1. PICK p \in ProposalId, q \in ProposalId : p = section.original /\ q = section.inverse
  BY SectionKind DEF LedgerInvariant, TypeOK, LinkUndo, Linking
<1>2. /\ section.at = "link"
      /\ section'.at = "free"
      /\ q \in Recorded
  BY <1>1 DEF LinkUndo, Free, LedgerInvariant, SectionInvariant, LinkSection, Undecided
<1>3. proposals[q] \in Proposal
  BY <1>2, RecordedType DEF LedgerInvariant, TypeOK, DataTypes
<1>4. /\ \A o \in ProposalId \ {q} : proposals'[o] = proposals[o]
      /\ proposals'[q] = [proposals[q] EXCEPT !.undo_of = p]
  BY <1>1 DEF LinkUndo, LedgerInvariant, TypeOK
<1>5. /\ proposals'[q].request = proposals[q].request
      /\ proposals'[q].base_version = proposals[q].base_version
      /\ proposals'[q].undo_of = p
      /\ proposals'[q].status = proposals[q].status
      /\ proposals'[q] # Absent
  <2>1. proposals'[q] \in Proposal
    BY <1>3, <1>4 DEF Proposal
  <2> QED
    BY <2>1, <1>3, <1>4, LedgerAssumption DEF Proposal
<1>6. Recorded' = Recorded
  BY <1>2, <1>4, <1>5 DEF Recorded
<1>7. ASSUME NEW o \in Recorded
      PROVE  Seen(o)' = Seen(o)
  BY <1>1, <1>2, <1>4, <1>5 DEF Seen, StatusSeen, OriginSeen, Recorded
<1>8. VersionSeen' = VersionSeen
  BY DEF VersionSeen, LinkUndo
<1> QED
  BY <1>6, <1>7, <1>8, SeenFrame

(***************************************************************************)
(* A step that gives one undecided proposal its final status is a decision *)
(* of the contract.                                                        *)
(***************************************************************************)
LEMMA DecideSeen ==
  ASSUME LedgerInvariant, NEW p \in Recorded,
         NEW status \in {"approved", "rejected", "expired", "conflicted", "failed"},
         StatusSeen(p) = "pending",
         Recorded' = Recorded,
         Seen(p)' = <<proposals[p].request, proposals[p].base_version, status, OriginSeen(p)>>,
         \A q \in Recorded \ {p} : Seen(q)' = Seen(q)
  PROVE  Contract!Decide(p, status)
<1>1. p \in ProposalId
  BY DEF Recorded
<1>2. /\ LedgerSeen[p] = [request |-> proposals[p].request,
                          base    |-> proposals[p].base_version,
                          status  |-> "pending",
                          undo_of |-> OriginSeen(p)]
      /\ LedgerSeen[p] # Absent
  BY <1>1, SeenRecord
<1>3. LedgerSeen'[p] = [LedgerSeen[p] EXCEPT !.status = status]
  <2>1. LedgerSeen'[p] = [request |-> proposals'[p].request,
                          base    |-> proposals'[p].base_version,
                          status  |-> StatusSeen(p)',
                          undo_of |-> OriginSeen(p)']
    BY <1>1 DEF LedgerSeen, Recorded
  <2>2. LedgerSeen'[p] = [request |-> proposals[p].request,
                          base    |-> proposals[p].base_version,
                          status  |-> status,
                          undo_of |-> OriginSeen(p)]
    BY <2>1 DEF Seen
  <2> QED
    BY <1>2, <2>2
<1>4. \A q \in ProposalId \ {p} : LedgerSeen'[q] = LedgerSeen[q]
  BY DEF LedgerSeen, Recorded, Seen
<1>5. LedgerSeen' = [LedgerSeen EXCEPT ![p] = [LedgerSeen[p] EXCEPT !.status = status]]
  BY <1>1, <1>3, <1>4, SeenUpdate
<1>6. LedgerSeen[p].status = "pending" /\ p \in Contract!Issued
  BY <1>1, <1>2 DEF Contract!Issued
<1> QED
  BY <1>5, <1>6 DEF Contract!Decide

(***************************************************************************)
(* The outcome of an approval is decided before its record is written.     *)
(***************************************************************************)
LEMMA SettleSeen ==
  ASSUME LedgerInvariant, section.at = "approve",
         NEW outcome \in {"approved", "conflicted", "failed"}, NEW version,
         Settle(section.proposal, outcome, version), UNCHANGED proposals
  PROVE  Contract!Decide(section.proposal, outcome)
<1>1. PICK p \in ProposalId : p = section.proposal
  BY SectionKind DEF LedgerInvariant, TypeOK, Approving
<1>2. p \in Recorded /\ proposals[p].status = "pending"
  BY <1>1 DEF LedgerInvariant, SectionInvariant, ApproveSection, Undecided
<1>3. section'.at = "settle" /\ section'.proposal = p /\ section'.outcome = outcome
  BY <1>1 DEF Settle
<1>4. StatusSeen(p) = "pending" /\ Recorded' = Recorded
  BY <1>2 DEF StatusSeen, Recorded
<1>5. Seen(p)' = <<proposals[p].request, proposals[p].base_version, outcome, OriginSeen(p)>>
  BY <1>3 DEF Seen, StatusSeen, OriginSeen
<1>6. \A q \in Recorded \ {p} : Seen(q)' = Seen(q)
  BY <1>3 DEF Seen, StatusSeen, OriginSeen
<1> QED
  BY <1>1, <1>2, <1>4, <1>5, <1>6, DecideSeen

\* The write of an approval is the approval of the contract.
LEMMA ApproveImplements ==
  ASSUME LedgerInvariant, ApplyApproved
  PROVE  Contract!Approve(section.proposal)
<1>1. PICK p \in ProposalId : p = section.proposal
  BY SectionKind DEF LedgerInvariant, TypeOK, Approving, ApplyApproved
<1>2. p \in Recorded
  BY <1>1 DEF LedgerInvariant, SectionInvariant, ApproveSection, Undecided, ApplyApproved
<1>3. PICK r \in Request : r = proposals[p].request
  BY <1>2, RecordedType DEF LedgerInvariant, TypeOK, DataTypes, Proposal
<1>4. Contract!Decide(p, "approved")
  BY <1>1, SettleSeen DEF ApplyApproved
<1>5. LedgerSeen[p].request = r /\ LedgerSeen[p].base = proposals[p].base_version
  BY <1>2, <1>3, SeenFields
<1>6. requests[r].version = proposals[p].base_version
  BY <1>1, <1>3 DEF ApplyApproved
<1>7. VersionSeen' = [VersionSeen EXCEPT ![r] = @ + 1]
  <2>1. requests' = [requests EXCEPT ![r] = [version |-> requests[r].version + 1,
                       state |-> Normalize(Patch(requests[r].state, proposals[p].operations))]]
    BY <1>1, <1>3 DEF ApplyApproved, Commit
  <2>2. \A o \in Request : requests'[o].version =
                             IF o = r THEN requests[o].version + 1 ELSE requests[o].version
    BY <2>1 DEF LedgerInvariant, TypeOK
  <2> QED
    BY <2>2 DEF VersionSeen
<1>8. VersionSeen[LedgerSeen[p].request] = LedgerSeen[p].base
  BY <1>5, <1>6 DEF VersionSeen
<1> QED
  BY <1>1, <1>4, <1>5, <1>7, <1>8 DEF Contract!Approve

\* A refused write is the conflict, and one that raised the refusal, of the contract.
LEMMA UnappliedImplements ==
  ASSUME LedgerInvariant
  PROVE  /\ ConflictApproved => Contract!Conflict(section.proposal)
         /\ FailApproved => Contract!Decline(section.proposal)
<1>1. ASSUME ConflictApproved
      PROVE  Contract!Conflict(section.proposal)
  <2>1. Contract!Decide(section.proposal, "conflicted")
    BY <1>1, SettleSeen DEF ConflictApproved
  <2>2. VersionSeen' = VersionSeen
    BY <1>1 DEF ConflictApproved, VersionSeen
  <2>3. section.proposal \in ProposalId /\ section.proposal \in Recorded
    BY <1>1, SectionKind
    DEF LedgerInvariant, TypeOK, SectionInvariant, ApproveSection, Undecided, Approving,
        ConflictApproved
  <2>4. proposals[section.proposal].request \in Request
    BY <2>3, RecordedType DEF LedgerInvariant, TypeOK, DataTypes, Proposal
  <2>5. VersionSeen[LedgerSeen[section.proposal].request] # LedgerSeen[section.proposal].base
    BY <1>1, <2>3, <2>4, SeenFields DEF ConflictApproved, VersionSeen
  <2> QED
    BY <2>1, <2>2, <2>5 DEF Contract!Conflict
<1>2. ASSUME FailApproved
      PROVE  Contract!Decline(section.proposal)
  <2>1. Contract!Decide(section.proposal, "failed")
    BY <1>2, SettleSeen DEF FailApproved
  <2>2. VersionSeen' = VersionSeen
    BY <1>2 DEF FailApproved, VersionSeen
  <2> QED
    BY <2>1, <2>2 DEF Contract!Decline
<1> QED
  BY <1>1, <1>2

\* A rejection or an expiration is the refusal of the contract.
LEMMA ResolveImplements ==
  ASSUME LedgerInvariant, NEW p \in ProposalId, NEW status \in {"rejected", "expired"},
         ResolveWithoutApply(p, status)
  PROVE  Contract!Decline(p)
<1>1. /\ p \in Recorded
      /\ proposals[p].status = "pending"
      /\ section = Free /\ section' = section
      /\ requests' = requests
      /\ proposals' = [proposals EXCEPT ![p].status = status]
  BY DEF ResolveWithoutApply
<1>2. proposals[p] \in Proposal
  BY <1>1, RecordedType DEF LedgerInvariant, TypeOK, DataTypes
<1>3. /\ \A q \in ProposalId \ {p} : proposals'[q] = proposals[q]
      /\ proposals'[p] = [proposals[p] EXCEPT !.status = status]
  BY <1>1 DEF LedgerInvariant, TypeOK
<1>4. /\ proposals'[p].request = proposals[p].request
      /\ proposals'[p].base_version = proposals[p].base_version
      /\ proposals'[p].undo_of = proposals[p].undo_of
      /\ proposals'[p].status = status
      /\ proposals'[p] # Absent
  <2>1. proposals'[p] \in Proposal
    BY <1>2, <1>3 DEF Proposal, Terminal
  <2> QED
    BY <2>1, <1>2, <1>3, LedgerAssumption DEF Proposal
<1>5. Recorded' = Recorded
  BY <1>1, <1>3, <1>4 DEF Recorded
<1>6. StatusSeen(p) = "pending"
  BY <1>1 DEF StatusSeen, Free
<1>7. Seen(p)' = <<proposals[p].request, proposals[p].base_version, status, OriginSeen(p)>>
  BY <1>1, <1>4 DEF Seen, StatusSeen, OriginSeen, Free
<1>8. \A q \in Recorded \ {p} : Seen(q)' = Seen(q)
  BY <1>1, <1>3 DEF Seen, StatusSeen, OriginSeen, Free, Recorded
<1>9. Contract!Decide(p, status)
  BY <1>1, <1>5, <1>6, <1>7, <1>8, DecideSeen
<1>10. VersionSeen' = VersionSeen
  BY <1>1 DEF VersionSeen
<1> QED
  BY <1>9, <1>10 DEF Contract!Decline

\* A saved form is the write of the contract that is no approval.
LEMMA SaveImplements ==
  ASSUME LedgerInvariant, NEW r \in Request, NEW document \in Edits, SaveForm(r, document)
  PROVE  Contract!Save(r)
<1>1. requests' = [requests EXCEPT
         ![r] = [version |-> requests[r].version + 1, state |-> Normalize(document)]]
  BY DEF SaveForm, Commit
<1>2. \A o \in Request : requests'[o].version =
                           IF o = r THEN requests[o].version + 1 ELSE requests[o].version
  BY <1>1 DEF LedgerInvariant, TypeOK
<1>3. VersionSeen' = [VersionSeen EXCEPT ![r] = @ + 1]
  BY <1>2 DEF VersionSeen
<1>4. VersionSeen[r] < MaxVersion
  BY DEF SaveForm, VersionSeen
<1>5. LedgerSeen' = LedgerSeen
  <2>1. Recorded' = Recorded /\ \A p \in Recorded : Seen(p)' = Seen(p)
    BY DEF SaveForm, Recorded, Seen, StatusSeen, OriginSeen
  <2> QED
    BY <2>1, SeenFrame
<1> QED
  BY <1>3, <1>4, <1>5 DEF Contract!Save

(***************************************************************************)
(* Recording a dry run issues a proposal on a version the request had.     *)
(***************************************************************************)
LEMMA IssueSeen ==
  ASSUME LedgerInvariant, NEW p \in ProposalId, p \notin Recorded,
         NEW r \in Request, Pending(r) = {}, NEW base, NEW origin,
         section.at # "settle", section.at # "link", requests' = requests,
         Recorded' = Recorded \cup {p},
         Seen(p)' = <<r, base, "pending", origin>>,
         \A q \in Recorded : Seen(q)' = Seen(q)
  PROVE  Contract!Issue(p, r, base, origin)
<1>1. LedgerSeen[p] = Absent
  BY SeenRecord
<1>2. LedgerSeen'[p] = [request |-> r, base |-> base, status |-> "pending", undo_of |-> origin]
  <2>1. LedgerSeen'[p] = [request |-> proposals'[p].request,
                          base    |-> proposals'[p].base_version,
                          status  |-> StatusSeen(p)',
                          undo_of |-> OriginSeen(p)']
    BY DEF LedgerSeen, Recorded
  <2> QED
    BY <2>1 DEF Seen
<1>3. \A q \in ProposalId \ {p} : LedgerSeen'[q] = LedgerSeen[q]
  BY DEF LedgerSeen, Recorded, Seen
<1>4. LedgerSeen' = [LedgerSeen EXCEPT
         ![p] = [request |-> r, base |-> base, status |-> "pending", undo_of |-> origin]]
  BY <1>2, <1>3, SeenUpdate
<1>5. Contract!Undecided(r) = {}
  <2> SUFFICES ASSUME NEW q \in Contract!Issued,
                      LedgerSeen[q].request = r, LedgerSeen[q].status = "pending"
               PROVE  FALSE
    BY DEF Contract!Undecided
  <2>1. q \in Recorded
    BY SeenRecord DEF Contract!Issued
  <2>2. proposals[q].request = r /\ proposals[q].status = "pending"
    BY <2>1, SeenFields DEF StatusSeen
  <2> QED
    BY <2>1, <2>2 DEF Pending
<1> QED
  BY <1>1, <1>4, <1>5 DEF Contract!Issue, VersionSeen

\* A recorded proposal is one the contract issues on a version up to the current.
LEMMA ProposeImplements ==
  ASSUME LedgerInvariant, NEW p \in ProposalId, RecordCreate(p)
  PROVE  \E r \in Request : Contract!Propose(p, r)
<1>1. /\ section.at = "create"
      /\ section'.at = "free"
      /\ proposals[p] = Absent
      /\ requests' = requests
      /\ proposals' = [proposals EXCEPT
           ![p] = DryRun(section.request, section.snapshot, section.operations)]
  BY DEF RecordCreate, Free
<1>2. PICK r \in Request, snapshot \in Snapshot, operations \in Batch :
        r = section.request /\ snapshot = section.snapshot /\ operations = section.operations
  BY <1>1, SectionKind DEF LedgerInvariant, TypeOK, Creating
<1>3. Pending(r) = {} /\ snapshot.version <= requests[r].version
  BY <1>1, <1>2 DEF LedgerInvariant, SectionInvariant, CreateSection
<1>4. /\ \A q \in ProposalId \ {p} : proposals'[q] = proposals[q]
      /\ proposals'[p] = DryRun(r, snapshot, operations)
  BY <1>1, <1>2 DEF LedgerInvariant, TypeOK
<1>5. /\ proposals'[p].request = r
      /\ proposals'[p].base_version = snapshot.version
      /\ proposals'[p].status = "pending"
      /\ proposals'[p].undo_of = None
  BY <1>4 DEF DryRun
<1>6. proposals'[p] # Absent
  <2>1. DryRun(r, snapshot, operations) \in Proposal
    BY DryRunRecord
  <2> QED
    BY <2>1, <1>4, LedgerAssumption
<1>7. p \notin Recorded /\ Recorded' = Recorded \cup {p}
  BY <1>1, <1>4, <1>6 DEF Recorded
<1>8. Seen(p)' = <<r, snapshot.version, "pending", None>>
  BY <1>1, <1>5 DEF Seen, StatusSeen, OriginSeen
<1>9. \A q \in Recorded : Seen(q)' = Seen(q)
  BY <1>1, <1>4, <1>7 DEF Seen, StatusSeen, OriginSeen, Recorded
<1>10. Contract!Issue(p, r, snapshot.version, None)
  BY <1>1, <1>3, <1>7, <1>8, <1>9, IssueSeen
<1>11. snapshot.version \in 0..VersionSeen[r]
  BY <1>3 DEF LedgerInvariant, TypeOK, VersionSeen, Snapshot
<1> QED
  BY <1>10, <1>11 DEF Contract!Propose

\* A recorded inverse is one the contract issues on the current version.
LEMMA ProposeUndoImplements ==
  ASSUME LedgerInvariant, NEW q \in ProposalId, RecordUndo(q)
  PROVE  \E p \in ProposalId : Contract!ProposeUndo(q, p)
<1>1. /\ section.at = "undo"
      /\ section' = [at |-> "link", original |-> section.original, inverse |-> q]
      /\ proposals[q] = Absent
      /\ requests[UndoRequest].version = section.version
      /\ requests' = requests
      /\ proposals' = [proposals EXCEPT
           ![q] = DryRun(UndoRequest, requests[UndoRequest], UndoOperations)]
  BY DEF RecordUndo
<1>2. PICK p \in ProposalId : p = section.original
  BY <1>1, SectionKind DEF LedgerInvariant, TypeOK, Undoing
<1>3. /\ Undoable(p)
      /\ section.version = proposals[p].request_version
      /\ Pending(proposals[p].request) = {}
  BY <1>1, <1>2 DEF LedgerInvariant, SectionInvariant, UndoSection
<1>4. p \in Recorded /\ proposals[p] \in Proposal
  BY <1>3, RecordedType DEF LedgerInvariant, TypeOK, DataTypes, Undoable
<1>5. PICK r \in Request : r = proposals[p].request
  BY <1>4 DEF Proposal
<1>6. PICK snapshot \in Snapshot, operations \in Batch :
        snapshot = requests[r] /\ operations = UndoOperations
  <2>1. UndoOperations \in Batch
    BY <1>2, <1>3, <1>4 DEF Undoable, Proposal, Evidence, SetBatch, Batch, UndoOperations
  <2> QED
    BY <2>1 DEF LedgerInvariant, TypeOK
<1>7. UndoRequest = r /\ snapshot.version = proposals[p].request_version
  BY <1>1, <1>2, <1>3, <1>5, <1>6 DEF UndoRequest
<1>8. proposals' = [proposals EXCEPT ![q] = DryRun(r, snapshot, operations)]
  BY <1>1, <1>6, <1>7
<1>9. /\ \A o \in ProposalId \ {q} : proposals'[o] = proposals[o]
      /\ proposals'[q] = DryRun(r, snapshot, operations)
  BY <1>8 DEF LedgerInvariant, TypeOK
<1>10. /\ proposals'[q].request = r
       /\ proposals'[q].base_version = snapshot.version
       /\ proposals'[q].status = "pending"
  BY <1>9 DEF DryRun
<1>11. proposals'[q] # Absent
  <2>1. DryRun(r, snapshot, operations) \in Proposal
    BY DryRunRecord
  <2> QED
    BY <2>1, <1>9, LedgerAssumption
<1>12. q \notin Recorded /\ Recorded' = Recorded \cup {q}
  BY <1>1, <1>9, <1>11 DEF Recorded
<1>13. section'.at = "link" /\ section'.inverse = q /\ section'.original = p
  BY <1>1, <1>2
<1>14. Seen(q)' = <<r, VersionSeen[r], "pending", p>>
  BY <1>6, <1>10, <1>13 DEF Seen, StatusSeen, OriginSeen, VersionSeen
<1>15. \A o \in Recorded : Seen(o)' = Seen(o)
  BY <1>1, <1>9, <1>12, <1>13 DEF Seen, StatusSeen, OriginSeen, Recorded
<1>16. Contract!Issue(q, r, VersionSeen[r], p)
  BY <1>1, <1>3, <1>5, <1>12, <1>14, <1>15, IssueSeen
<1>17. /\ p \in Contract!Issued
       /\ LedgerSeen[p].request = r
       /\ LedgerSeen[p].status = "approved"
       /\ LedgerSeen[p].undo_of = None
       /\ LedgerSeen[p].base = proposals[p].base_version
  BY <1>1, <1>3, <1>4, <1>5, SeenFields DEF Undoable, StatusSeen, OriginSeen
<1>18. LedgerSeen[p].base + 1 = VersionSeen[r]
  BY <1>3, <1>4, <1>6, <1>7, <1>17
  DEF LedgerInvariant, DataInvariant, ApprovedIsPreview, Undoable, VersionSeen
<1>19. ASSUME NEW other \in Contract!Issued
       PROVE  LedgerSeen[other].undo_of # p
  <2>1. other \in Recorded
    BY SeenRecord DEF Contract!Issued
  <2>2. LedgerSeen[other].undo_of = proposals[other].undo_of
    BY <1>1, <2>1, SeenFields DEF OriginSeen
  <2> QED
    BY <1>3, <2>1, <2>2 DEF Undoable, InversesOf
<1>20. VersionSeen' = VersionSeen
  BY <1>1 DEF VersionSeen
<1> QED
  BY <1>16, <1>17, <1>18, <1>19 DEF Contract!ProposeUndo

\* Every step of the service is a step of the contract or none.
LEMMA StepImplements ==
  ASSUME LedgerInvariant, [Next]_vars
  PROVE  [Contract!ContractNext]_<<VersionSeen, LedgerSeen>>
<1>1. ASSUME NEW r \in Request, NEW d \in Edits, SaveForm(r, d)
      PROVE  Contract!ContractNext
  BY <1>1, SaveImplements DEF Contract!ContractNext
<1>2. ASSUME NEW p \in ProposalId, RecordCreate(p)
      PROVE  Contract!ContractNext
  BY <1>2, ProposeImplements DEF Contract!ContractNext
<1>3. ASSUME NEW q \in ProposalId, RecordUndo(q)
      PROVE  Contract!ContractNext
  BY <1>3, ProposeUndoImplements DEF Contract!ContractNext
<1>4. section.at = "approve" => section.proposal \in ProposalId
  BY SectionKind DEF LedgerInvariant, TypeOK, Approving
<1>5. CASE ApplyApproved
  BY <1>4, <1>5, ApproveImplements DEF Contract!ContractNext, ApplyApproved
<1>6. CASE ConflictApproved
  BY <1>4, <1>6, UnappliedImplements DEF Contract!ContractNext, ConflictApproved
<1>7. CASE FailApproved
  BY <1>4, <1>7, UnappliedImplements DEF Contract!ContractNext, FailApproved
<1>8. ASSUME NEW p \in ProposalId, NEW s \in {"rejected", "expired"}, ResolveWithoutApply(p, s)
      PROVE  Contract!ContractNext
  BY <1>8, ResolveImplements DEF Contract!ContractNext
<1>9. CASE RecordTerminal
  BY <1>9, RecordTerminalIsStutter
<1>10. CASE LinkUndo
  BY <1>10, LinkUndoIsStutter
<1>11. ASSUME NEW r \in Request, NEW b \in Batches, BeginCreate(r, b)
       PROVE  UNCHANGED <<VersionSeen, LedgerSeen>>
  BY <1>11, BeginIsStutter DEF BeginCreate, Free
<1>12. ASSUME NEW p \in ProposalId, BeginApprove(p) \/ BeginUndo(p)
       PROVE  UNCHANGED <<VersionSeen, LedgerSeen>>
  BY <1>12, BeginIsStutter DEF BeginApprove, BeginUndo, Free
<1>13. CASE RefuseCreate \/ RefuseUndo
  BY <1>13, BeginIsStutter DEF RefuseCreate, RefuseUndo, Free
<1>14. CASE UNCHANGED vars
  BY <1>14 DEF vars, VersionSeen, LedgerSeen, StatusSeen, OriginSeen
<1> QED
  BY <1>1, <1>2, <1>3, <1>5, <1>6, <1>7, <1>8, <1>9, <1>10, <1>11, <1>12, <1>13, <1>14
  DEF Next, Begin, SectionStep

(***************************************************************************)
(* The two stores and the service, locks, dry runs and two-step records    *)
(* included, implement the atomic contract, for any number of requests and *)
(* proposals and whatever the documents and the batches are.               *)
(***************************************************************************)
THEOREM LedgerImplementsContract == Spec => ImplementsContract
<1>1. Init => Contract!ContractInit
  <2> SUFFICES ASSUME Init
               PROVE  Contract!ContractInit
    OBVIOUS
  <2>1. PICK first \in [Request -> Edits] :
          /\ requests = [r \in Request |-> [version |-> 0, state |-> Normalize(first[r])]]
          /\ proposals = [p \in ProposalId |-> Absent]
    BY DEF Init
  <2>2. VersionSeen = [r \in Request |-> 0]
    BY <2>1 DEF VersionSeen
  <2>3. LedgerSeen = [p \in ProposalId |-> Absent]
    BY <2>1 DEF LedgerSeen
  <2> QED
    BY <2>2, <2>3 DEF Contract!ContractInit
<1>2. LedgerInvariant /\ [Next]_vars => [Contract!ContractNext]_(Contract!contractVars)
  BY StepImplements DEF Contract!contractVars
<1> QED
  BY <1>1, <1>2, LedgerInvariantHolds, PTL DEF Spec, ImplementsContract, Contract!ContractSpec
=============================================================================
