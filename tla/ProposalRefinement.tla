------------------------- MODULE ProposalRefinement --------------------------
(***************************************************************************)
(* The ledger under its lifecycle lock implements the contract.  An        *)
(* approval takes effect when its compare-and-swap does, before its        *)
(* terminal record is written, and an inverse names its original when it   *)
(* is recorded, before the linked record replaces it: nobody who honours   *)
(* the lifecycle lock can tell.                                            *)
(***************************************************************************)
EXTENDS ProposalInvariant

\* The status a proposal has once the operation in progress is over.
StatusSeen(p) ==
  IF section.at = "settle" /\ section.proposal = p
  THEN section.outcome
  ELSE proposals[p].status

OriginSeen(p) ==
  IF section.at = "link" /\ section.inverse = p
  THEN section.original
  ELSE proposals[p].undo_of

LedgerSeen ==
  [p \in ProposalId |->
     IF proposals[p] = Absent
     THEN Absent
     ELSE [request |-> proposals[p].request,
           base    |-> proposals[p].base_version,
           status  |-> StatusSeen(p),
           undo_of |-> OriginSeen(p)]]

VersionSeen == [r \in Request |-> requests[r].version]

Contract == INSTANCE ProposalContract WITH version <- VersionSeen, ledger <- LedgerSeen

ASSUME RefinementAssumption == Absent \notin Contract!Lifecycle

(***************************************************************************)
(* Every behaviour of the two stores and the service, form saves           *)
(* interleaved with every step of an operation, is one of the contract.    *)
(***************************************************************************)
ImplementsContract == Contract!ContractSpec
=============================================================================
