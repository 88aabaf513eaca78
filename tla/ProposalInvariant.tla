------------------------- MODULE ProposalInvariant ---------------------------
(***************************************************************************)
(* The inductive invariant behind the safety properties of the ledger:     *)
(* what the records, the request and the operation in progress know of     *)
(* each other.                                                             *)
(***************************************************************************)
EXTENDS ProposalLedger

\* The current document is the last one the history holds, and is finalized.
HistoryMatches ==
  \A r \in Request :
    /\ Len(history[r]) = requests[r].version + 1
    /\ history[r][requests[r].version + 1].state = requests[r].state
    /\ \A i \in DOMAIN history[r] : Normalize(history[r][i].state) = history[r][i].state

\* A record is what the dry run on its base version yields, whatever came later.
RecordsAreDryRuns ==
  \A p \in Recorded :
    LET this   == proposals[p]
        before == StateAt(this.request, this.base_version)
    IN /\ this.base_version <= requests[this.request].version
       /\ this.preview = Patch(before, this.operations)
       /\ this.inverse # None =>
            /\ HasInverse(before, this.preview, this.operations)
            /\ this.inverse = [restore  |-> ValuesAt(before, this.operations),
                               expected |-> ValuesAt(this.preview, this.operations)]

\* An inverse carries the operations that its original recorded for it.
UndoOperationsRecorded ==
  \A q \in Recorded :
    proposals[q].undo_of # None =>
      LET p == proposals[q].undo_of
      IN /\ p \in Recorded
         /\ proposals[p].inverse # None
         /\ proposals[q].operations = SetBatch(proposals[p].inverse.restore)

CreateSection ==
  section.at = "create" =>
    LET r == section.request
    IN /\ Pending(r) = {}
       /\ section.snapshot.version <= requests[r].version
       /\ section.snapshot.state = StateAt(r, section.snapshot.version)

Undecided(p) == p \in Recorded /\ proposals[p].status = "pending"

ApproveSection == section.at = "approve" => Undecided(section.proposal)

SettleSection ==
  section.at = "settle" =>
    LET p == section.proposal
        this == proposals[p]
    IN /\ Undecided(p)
       /\ section.outcome = "approved" =>
            /\ section.version = this.base_version + 1
            /\ section.version + 1 \in DOMAIN history[this.request]
            /\ history[this.request][section.version + 1] =
                 [state |-> this.preview, author |-> p]

\* An approved proposal that can be undone: it has evidence and no inverse.
Undoable(p) ==
  /\ p \in Recorded
  /\ proposals[p].status = "approved"
  /\ proposals[p].undo_of = None
  /\ proposals[p].inverse # None
  /\ InversesOf(p) = {}

UndoSection ==
  section.at = "undo" =>
    /\ Undoable(section.original)
    /\ section.version = proposals[section.original].request_version
    /\ Pending(proposals[section.original].request) = {}

LinkSection ==
  section.at = "link" =>
    LET p == section.original
        q == section.inverse
    IN /\ Undoable(p)
       /\ Undecided(q)
       /\ proposals[q].undo_of = None
       /\ proposals[q].request = proposals[p].request
       /\ proposals[q].base_version = proposals[p].request_version
       /\ proposals[q].operations = SetBatch(proposals[p].inverse.restore)

\* What the stores hold, whatever operation is in progress.
DataInvariant ==
  /\ HistoryMatches
  /\ RecordsAreDryRuns
  /\ SinglePending
  /\ ApprovedIsPreview
  /\ UndoFollowsApproval
  /\ UndoOnce
  /\ UndoOperationsRecorded

\* What the operation in progress may rely on, form saves notwithstanding.
SectionInvariant ==
  /\ CreateSection
  /\ ApproveSection
  /\ SettleSection
  /\ UndoSection
  /\ LinkSection

(***************************************************************************)
(* The invariant of the ledger: every step of every operation, and every   *)
(* form save between two of them, keeps all of these together.             *)
(***************************************************************************)
LedgerInvariant ==
  /\ TypeOK
  /\ DataInvariant
  /\ OnlyApprovedApply
  /\ SectionInvariant
=============================================================================
