--------------------------- MODULE ProposalLedger ----------------------------
(***************************************************************************)
(* RequestStateStore, ProposalStore and ProposalService as they run in one *)
(* process under a threaded server.                                        *)
(*                                                                         *)
(* Every lifecycle operation runs inside the ledger's lifecycle lock, so   *)
(* at most one of them is in progress: the variable "section" is that lock *)
(* together with the local variables of the operation that holds it.       *)
(* Writers of the request (form saves) only take the request lock, so they *)
(* interleave with every step of an operation inside the section, unless   *)
(* the operation fences them with RequestStateStore.at_version.            *)
(***************************************************************************)
EXTENDS RequestDocument, FiniteSets, Sequences

CONSTANTS
  Request,       \* ids of the created requests
  ProposalId,    \* ids the server can issue
  MaxProposals,  \* max_proposals: capacity of the ledger
  Batches,       \* batches of operations that reach create_proposal
  Edits,         \* documents a form save can carry
  MaxVersion,    \* bound: form saves stop at this request version
  Absent,        \* a proposal id that was not issued
  None           \* no reference, no version, no evidence, the lock is free

Terminal == {"approved", "rejected", "expired", "conflicted", "failed"}

Evidence == [restore : Assignment, expected : Assignment]

(***************************************************************************)
(* A ledger record.  preview is the dry-run state; the code keeps only its *)
(* diff_summary and validation, which are functions of it.                 *)
(***************************************************************************)
Proposal == [request         : Request,
             base_version    : Nat,
             operations      : Batch,
             preview         : State,
             status          : Terminal \cup {"pending"},
             request_version : Nat \cup {None},
             inverse         : Evidence \cup {None},
             undo_of         : ProposalId \cup {None}]

ASSUME LedgerAssumption ==
  /\ MaxProposals \in Nat \ {0}
  /\ MaxVersion \in Nat
  /\ Batches \subseteq Batch
  /\ Edits \subseteq State
  /\ None \notin ProposalId \cup Nat
  /\ None \notin Evidence
  /\ Absent \notin Proposal

Snapshot == [version : Nat, state : State]

\* A committed version: its state and the proposal that wrote it, None for a form.
Entry == [state : State, author : ProposalId \cup {None}]

VARIABLES
  requests,   \* RequestStateStore._records
  history,    \* auxiliary: what each version of a request was and who wrote it
  proposals,  \* ProposalStore._records
  section     \* _lifecycle_lock and the locals of its holder

vars == <<requests, history, proposals, section>>

(***************************************************************************)
(* The operations in progress, by the step they are about to take.         *)
(***************************************************************************)
Creating  == [at : {"create"}, request : Request, snapshot : Snapshot, operations : Batch]
Approving == [at : {"approve"}, proposal : ProposalId]
Settling  == [at : {"settle"}, proposal : ProposalId,
              outcome : {"approved", "conflicted", "failed"}, version : Nat \cup {None}]
Undoing   == [at : {"undo"}, original : ProposalId, version : Nat]
Linking   == [at : {"link"}, original : ProposalId, inverse : ProposalId]

Free == [at |-> "free"]

TypeOK ==
  /\ requests \in [Request -> Snapshot]
  /\ history \in [Request -> Seq(Entry)]
  /\ proposals \in [ProposalId -> Proposal \cup {Absent}]
  /\ section \in Creating \cup Approving \cup Settling \cup Undoing \cup Linking \cup {Free}

-----------------------------------------------------------------------------
(***************************************************************************)
(* Reading the ledger.                                                     *)
(***************************************************************************)
Recorded == {p \in ProposalId : proposals[p] # Absent}

Pending(r) == {p \in Recorded : proposals[p].request = r /\ proposals[p].status = "pending"}

InversesOf(p) == {q \in Recorded : proposals[q].undo_of = p}

\* Mutant: the capacity check is off by one.
LedgerFullOffByOne == Cardinality(Recorded) > MaxProposals

LedgerFull == Cardinality(Recorded) >= MaxProposals

(***************************************************************************)
(* RequestStateStore.compare_and_swap once the version matched and the     *)
(* mutation returned: finalization and the next version in one step.       *)
(***************************************************************************)
Commit(r, candidate, author) ==
  LET next == Normalize(candidate)
  IN /\ requests' = [requests EXCEPT
                        ![r] = [version |-> requests[r].version + 1, state |-> next]]
     /\ history' = [history EXCEPT ![r] = Append(@, [state |-> next, author |-> author])]

\* Mutant: the values expected at undo time are taken from before the batch.
DryRunSwapped(r, snapshot, operations) ==
  LET after == Patch(snapshot.state, operations)
  IN [request         |-> r,
      base_version    |-> snapshot.version,
      operations      |-> operations,
      preview         |-> after,
      status          |-> "pending",
      request_version |-> None,
      inverse         |-> IF HasInverse(snapshot.state, after, operations)
                          THEN [restore  |-> ValuesAt(after, operations),
                                expected |-> ValuesAt(snapshot.state, operations)]
                          ELSE None,
      undo_of         |-> None]

(***************************************************************************)
(* _create_proposal_from_request: the record of a dry run on a snapshot.   *)
(***************************************************************************)
DryRun(r, snapshot, operations) ==
  LET after == Patch(snapshot.state, operations)
  IN [request         |-> r,
      base_version    |-> snapshot.version,
      operations      |-> operations,
      preview         |-> after,
      status          |-> "pending",
      request_version |-> None,
      inverse         |-> IF HasInverse(snapshot.state, after, operations)
                          THEN [restore  |-> ValuesAt(snapshot.state, operations),
                                expected |-> ValuesAt(after, operations)]
                          ELSE None,
      undo_of         |-> None]

\* The dry run changed something and the ledger has room.
Recordable(snapshot, operations) ==
  /\ Patch(snapshot.state, operations) # snapshot.state
  /\ ~LedgerFull

-----------------------------------------------------------------------------
\* RequestStateStore.create: version 0 of a finalized document.
Init ==
  \E first \in [Request -> Edits] :
    /\ requests = [r \in Request |-> [version |-> 0, state |-> Normalize(first[r])]]
    /\ history = [r \in Request |-> <<[state |-> Normalize(first[r]), author |-> None]>>]
    /\ proposals = [p \in ProposalId |-> Absent]
    /\ section = Free

(***************************************************************************)
(* RequestStateStore.replace with the current version; with any other      *)
(* expected version it raises and nothing changes.                         *)
(***************************************************************************)
SaveForm(r, document) ==
  /\ requests[r].version < MaxVersion
  /\ Commit(r, document, None)
  /\ UNCHANGED <<proposals, section>>

\* Mutant: create_proposal does not look for a pending proposal.
BeginCreateUnchecked(r, operations) ==
  /\ section = Free
  /\ section' = [at |-> "create", request |-> r, snapshot |-> requests[r],
                 operations |-> operations]
  /\ UNCHANGED <<requests, history, proposals>>

(***************************************************************************)
(* create_proposal up to the snapshot it dry-runs on.                      *)
(***************************************************************************)
BeginCreate(r, operations) ==
  /\ section = Free
  /\ Pending(r) = {}
  /\ section' = [at |-> "create", request |-> r, snapshot |-> requests[r],
                 operations |-> operations]
  /\ UNCHANGED <<requests, history, proposals>>

\* The dry run changes nothing (ProposalValidationError) or the ledger is full.
RefuseCreate ==
  /\ section.at = "create"
  /\ ~Recordable(section.snapshot, section.operations)
  /\ section' = Free
  /\ UNCHANGED <<requests, history, proposals>>

RecordCreate(p) ==
  /\ section.at = "create"
  /\ proposals[p] = Absent
  /\ Recordable(section.snapshot, section.operations)
  /\ proposals' = [proposals EXCEPT
       ![p] = DryRun(section.request, section.snapshot, section.operations)]
  /\ section' = Free
  /\ UNCHANGED <<requests, history>>

(***************************************************************************)
(* approve_proposal: a terminal record is returned as it is; a pending one *)
(* goes through its compare-and-swap and is then replaced by its terminal  *)
(* record.  Readers see the request already changed and the proposal still *)
(* pending between the two.                                                *)
(***************************************************************************)
BeginApprove(p) ==
  /\ section = Free
  /\ p \in Recorded
  /\ proposals[p].status = "pending"
  /\ section' = [at |-> "approve", proposal |-> p]
  /\ UNCHANGED <<requests, history, proposals>>

Settle(p, outcome, version) ==
  section' = [at |-> "settle", proposal |-> p, outcome |-> outcome, version |-> version]

\* Mutant: the approval writes whatever the current version is.
ApplyUnfenced ==
  /\ section.at = "approve"
  /\ LET p == section.proposal
         r == proposals[p].request
     IN /\ Commit(r, Patch(requests[r].state, proposals[p].operations), p)
        /\ Settle(p, "approved", requests[r].version + 1)
  /\ UNCHANGED proposals

\* compare_and_swap at the recorded base version, with the recorded operations.
ApplyApproved ==
  /\ section.at = "approve"
  /\ LET p == section.proposal
         r == proposals[p].request
     IN /\ requests[r].version = proposals[p].base_version
        /\ Commit(r, Patch(requests[r].state, proposals[p].operations), p)
        /\ Settle(p, "approved", requests[r].version + 1)
  /\ UNCHANGED proposals

\* Mutant: the conflict escapes and no terminal record is written.
ConflictUncaught ==
  /\ section.at = "approve"
  /\ LET p == section.proposal
     IN requests[proposals[p].request].version # proposals[p].base_version
  /\ section' = Free
  /\ UNCHANGED <<requests, history, proposals>>

\* RequestVersionConflictError.
ConflictApproved ==
  /\ section.at = "approve"
  /\ LET p == section.proposal
     IN /\ requests[proposals[p].request].version # proposals[p].base_version
        /\ Settle(p, "conflicted", None)
  /\ UNCHANGED <<requests, history, proposals>>

\* The mutation or the finalization raised: nothing was committed.
FailApproved ==
  /\ section.at = "approve"
  /\ LET p == section.proposal
     IN /\ requests[proposals[p].request].version = proposals[p].base_version
        /\ Settle(p, "failed", None)
  /\ UNCHANGED <<requests, history, proposals>>

\* _terminal: the record becomes terminal and the lock is released.
RecordTerminal ==
  /\ section.at = "settle"
  /\ proposals' = [proposals EXCEPT
       ![section.proposal].status = section.outcome,
       ![section.proposal].request_version = section.version]
  /\ section' = Free
  /\ UNCHANGED <<requests, history>>

\* Mutant: a decided proposal can be decided again.
ResolveAgain(p, status) ==
  /\ section = Free
  /\ p \in Recorded
  /\ proposals' = [proposals EXCEPT ![p].status = status]
  /\ UNCHANGED <<requests, history, section>>

\* reject_proposal, expire_proposal: one step, no other store is touched.
ResolveWithoutApply(p, status) ==
  /\ section = Free
  /\ p \in Recorded
  /\ proposals[p].status = "pending"
  /\ proposals' = [proposals EXCEPT ![p].status = status]
  /\ UNCHANGED <<requests, history, section>>

-----------------------------------------------------------------------------
\* Mutant: an inverse that was rejected does not count.
BeginUndoAgain(p) ==
  /\ section = Free
  /\ p \in Recorded
  /\ proposals[p].status = "approved"
  /\ proposals[p].undo_of = None
  /\ proposals[p].inverse # None
  /\ LET latest == requests[proposals[p].request]
     IN /\ latest.version = proposals[p].request_version
        /\ EvidenceMatches(latest.state, proposals[p].inverse.expected)
        /\ Pending(proposals[p].request) = {}
        /\ section' = [at |-> "undo", original |-> p, version |-> latest.version]
  /\ UNCHANGED <<requests, history, proposals>>

(***************************************************************************)
(* create_undo_proposal up to the fenced dry run.  Each conjunct is one of *)
(* its refusals: undo_not_approved, undo_duplicate or                      *)
(* undo_already_resolved, undo_inverse_evidence_unavailable, undo_stale,   *)
(* undo_conflicted, and undo_creation_failed for a pending proposal.       *)
(***************************************************************************)
BeginUndo(p) ==
  /\ section = Free
  /\ p \in Recorded
  /\ proposals[p].status = "approved"
  /\ proposals[p].undo_of = None
  /\ InversesOf(p) = {}
  /\ proposals[p].inverse # None
  /\ LET latest == requests[proposals[p].request]
     IN /\ latest.version = proposals[p].request_version
        /\ EvidenceMatches(latest.state, proposals[p].inverse.expected)
        /\ Pending(proposals[p].request) = {}
        /\ section' = [at |-> "undo", original |-> p, version |-> latest.version]
  /\ UNCHANGED <<requests, history, proposals>>

UndoRequest == proposals[section.original].request

UndoOperations == SetBatch(proposals[section.original].inverse.restore)

\* at_version finds another version, or the dry run is not recordable.
RefuseUndo ==
  /\ section.at = "undo"
  /\ \/ requests[UndoRequest].version # section.version
     \/ ~Recordable(requests[UndoRequest], UndoOperations)
  /\ section' = Free
  /\ UNCHANGED <<requests, history, proposals>>

\* Mutant: the dry run reads the latest request without the at_version fence.
RecordUndoUnfenced(q) ==
  /\ section.at = "undo"
  /\ proposals[q] = Absent
  /\ Recordable(requests[UndoRequest], UndoOperations)
  /\ proposals' = [proposals EXCEPT
       ![q] = DryRun(UndoRequest, requests[UndoRequest], UndoOperations)]
  /\ section' = [at |-> "link", original |-> section.original, inverse |-> q]
  /\ UNCHANGED <<requests, history>>

\* The dry run and the record, with request writes fenced off.
RecordUndo(q) ==
  /\ section.at = "undo"
  /\ proposals[q] = Absent
  /\ requests[UndoRequest].version = section.version
  /\ Recordable(requests[UndoRequest], UndoOperations)
  /\ proposals' = [proposals EXCEPT
       ![q] = DryRun(UndoRequest, requests[UndoRequest], UndoOperations)]
  /\ section' = [at |-> "link", original |-> section.original, inverse |-> q]
  /\ UNCHANGED <<requests, history>>

\* The record is replaced by one that names its original.
LinkUndo ==
  /\ section.at = "link"
  /\ proposals' = [proposals EXCEPT ![section.inverse].undo_of = section.original]
  /\ section' = Free
  /\ UNCHANGED <<requests, history>>

-----------------------------------------------------------------------------
\* The next step of the operation that holds the lifecycle lock.
SectionStep ==
  \/ RefuseCreate
  \/ \E p \in ProposalId : RecordCreate(p)
  \/ ApplyApproved
  \/ ConflictApproved
  \/ FailApproved
  \/ RecordTerminal
  \/ RefuseUndo
  \/ \E p \in ProposalId : RecordUndo(p)
  \/ LinkUndo

Begin ==
  \/ \E r \in Request, b \in Batches : BeginCreate(r, b)
  \/ \E p \in ProposalId : BeginApprove(p)
  \/ \E p \in ProposalId, s \in {"rejected", "expired"} : ResolveWithoutApply(p, s)
  \/ \E p \in ProposalId : BeginUndo(p)

Next ==
  \/ \E r \in Request, d \in Edits : SaveForm(r, d)
  \/ Begin
  \/ SectionStep

Spec == Init /\ [][Next]_vars

(***************************************************************************)
(* The thread inside the section waits for nobody: the request lock it may *)
(* need is only ever held for one store operation.                         *)
(***************************************************************************)
FairSpec == Spec /\ WF_vars(SectionStep)

-----------------------------------------------------------------------------
(***************************************************************************)
(* Correctness.                                                            *)
(***************************************************************************)
StateAt(r, version) == history[r][version + 1].state

\* p's approval was committed, whether or not its record already says so.
Applied(p) ==
  \/ proposals[p].status = "approved"
  \/ section.at = "settle" /\ section.proposal = p /\ section.outcome = "approved"

(***************************************************************************)
(* A request never owns two undecided proposals, whichever of the chat,    *)
(* the correction path and undo created them: _raise_if_request_pending is *)
(* checked in one operation of the lifecycle lock with the record.         *)
(***************************************************************************)
SinglePending == \A r \in Request : \A p, q \in Pending(r) : p = q

(***************************************************************************)
(* What the user approved is what was written: an approved proposal        *)
(* authored the version right after the one it was dry-run on, and that    *)
(* version is the dry-run state, although forms may be saved at any time   *)
(* between the dry run, the approval and the terminal record.              *)
(***************************************************************************)
ApprovedIsPreview ==
  \A p \in Recorded :
    LET this == proposals[p]
    IN this.status = "approved" =>
         /\ this.request_version = this.base_version + 1
         /\ this.request_version + 1 \in DOMAIN history[this.request]
         /\ history[this.request][this.request_version + 1] =
              [state |-> this.preview, author |-> p]

(***************************************************************************)
(* A proposal is applied at most once and only by its approval: a version  *)
(* written by a proposal is the one after its base version, in its own     *)
(* request, and that proposal is never one that ended rejected, expired,   *)
(* conflicted or failed.                                                   *)
(***************************************************************************)
OnlyApprovedApply ==
  \A r \in Request : \A i \in DOMAIN history[r] :
    LET p == history[r][i].author
    IN p # None =>
         /\ p \in Recorded
         /\ proposals[p].request = r
         /\ i = proposals[p].base_version + 2
         /\ Applied(p)

(***************************************************************************)
(* An inverse proposal undoes an approved proposal that is not itself an   *)
(* inverse, in the same request, and is based on the very version that     *)
(* approval wrote: nothing was written in between (at_version).            *)
(***************************************************************************)
UndoFollowsApproval ==
  \A q \in Recorded :
    proposals[q].undo_of # None =>
      LET p == proposals[q].undo_of
      IN /\ p \in Recorded
         /\ proposals[p].status = "approved"
         /\ proposals[p].undo_of = None
         /\ proposals[q].request = proposals[p].request
         /\ proposals[q].base_version = proposals[p].request_version

(***************************************************************************)
(* An approved proposal has one inverse for ever: "a resolved inverse      *)
(* blocks a second Undo for the same original".                            *)
(***************************************************************************)
UndoOnce == \A p \in Recorded : \A q1, q2 \in InversesOf(p) : q1 = q2

(***************************************************************************)
(* While the approved version is the latest one the document holds the     *)
(* values the evidence recorded at the dry run: the answer undo_conflicted *)
(* can never be given.                                                     *)
(***************************************************************************)
EvidenceHolds ==
  \A p \in Recorded :
    LET this == proposals[p]
    IN /\ this.status = "approved"
       /\ this.inverse # None
       /\ requests[this.request].version = this.request_version
       => EvidenceMatches(requests[this.request].state, this.inverse.expected)

(***************************************************************************)
(* Whether a batch may turn a development project into another kind of     *)
(* request or back, which makes normalization drop what the PMS provided.  *)
(***************************************************************************)
KeepsKind(p) ==
  "request_type" \in DOMAIN proposals[p].operations.sets =>
    Development \notin {proposals[p].operations.sets["request_type"],
                       StateAt(proposals[p].request, proposals[p].base_version)["request_type"]}

UndoneBy(q) ==
  LET p == proposals[q].undo_of
  IN Visible(StateAt(proposals[q].request, proposals[q].request_version)) =
     Visible(StateAt(proposals[p].request, proposals[p].base_version))

ApprovedUndo(q) == proposals[q].status = "approved" /\ proposals[q].undo_of # None

(***************************************************************************)
(* An approved undo gives back the document the original proposal was      *)
(* based on, when the original kept the kind of the request.               *)
(***************************************************************************)
UndoRestoresDocument ==
  \A q \in Recorded :
    ApprovedUndo(q) /\ KeepsKind(proposals[q].undo_of) => UndoneBy(q)

(***************************************************************************)
(* The same without the restriction: inverse evidence is "present only     *)
(* when a canonical inverse can be proven" (proposal_store.py, the field   *)
(* inverse_evidence).  The code does not meet this one.                    *)
(***************************************************************************)
EvidenceIsAnInverse == \A q \in Recorded : ApprovedUndo(q) => UndoneBy(q)

\* The ledger never outgrows max_proposals, undo records included.
CapacityHolds == Cardinality(Recorded) <= MaxProposals

(***************************************************************************)
(* "Persist one immutable terminal record": once decided, a record never   *)
(* changes again, by a replayed decision, an undo or anything else.        *)
(***************************************************************************)
TerminalFrozen ==
  [][\A p \in Recorded :
       proposals[p].status \in Terminal => proposals'[p] = proposals[p]]_vars

(***************************************************************************)
(* An approval that was begun ends in a terminal record, whatever is       *)
(* written to the request meanwhile.                                       *)
(***************************************************************************)
ApprovalSettles ==
  \A p \in ProposalId :
    (section.at = "approve" /\ section.proposal = p)
      ~> (p \in Recorded /\ proposals[p].status \in Terminal)
=============================================================================
