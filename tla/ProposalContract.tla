-------------------------- MODULE ProposalContract ---------------------------
(***************************************************************************)
(* What the proposal service promises the chat, the correction path and    *)
(* the user interface, with every operation in one step: the version of    *)
(* each request and, of each proposal, only what its lifecycle depends on. *)
(***************************************************************************)
EXTENDS Integers

CONSTANTS
  Request, ProposalId, Absent, None,
  MaxVersion   \* bound: writes other than approvals stop at this version

VARIABLES
  version,  \* the current version of each request
  ledger    \* the lifecycle of each proposal

contractVars == <<version, ledger>>

Lifecycle == [request : Request,
              base    : Nat,
              status  : {"pending", "approved", "rejected", "expired", "conflicted", "failed"},
              undo_of : ProposalId \cup {None}]

ASSUME ContractAssumption ==
  /\ None \notin ProposalId
  /\ Absent \notin Lifecycle
  /\ MaxVersion \in Nat

ContractTypeOK ==
  /\ version \in [Request -> Nat]
  /\ ledger \in [ProposalId -> Lifecycle \cup {Absent}]

Issued == {p \in ProposalId : ledger[p] # Absent}

Undecided(r) == {p \in Issued : ledger[p].request = r /\ ledger[p].status = "pending"}

ContractInit ==
  /\ version = [r \in Request |-> 0]
  /\ ledger = [p \in ProposalId |-> Absent]

-----------------------------------------------------------------------------
\* A write of the request that is not an approval.
Save(r) ==
  /\ version[r] < MaxVersion
  /\ version' = [version EXCEPT ![r] = @ + 1]
  /\ UNCHANGED ledger

\* Mutant: the recorded base is one version behind.
IssueBehind(p, r, base, undo_of) ==
  /\ ledger[p] = Absent
  /\ Undecided(r) = {}
  /\ ledger' = [ledger EXCEPT
       ![p] = [request |-> r, base |-> base - 1, status |-> "pending", undo_of |-> undo_of]]
  /\ UNCHANGED version

Issue(p, r, base, undo_of) ==
  /\ ledger[p] = Absent
  /\ Undecided(r) = {}
  /\ ledger' = [ledger EXCEPT
       ![p] = [request |-> r, base |-> base, status |-> "pending", undo_of |-> undo_of]]
  /\ UNCHANGED version

\* The dry run was made on some version up to the current one.
Propose(p, r) ==
  \E base \in 0..version[r] : Issue(p, r, base, None)

\* The original approval is still the latest write and has no inverse yet.
ProposeUndo(q, p) ==
  /\ p \in Issued
  /\ ledger[p].status = "approved"
  /\ ledger[p].undo_of = None
  /\ ledger[p].base + 1 = version[ledger[p].request]
  /\ \A other \in Issued : ledger[other].undo_of # p
  /\ Issue(q, ledger[p].request, version[ledger[p].request], p)

Decide(p, status) ==
  /\ p \in Issued
  /\ ledger[p].status = "pending"
  /\ ledger' = [ledger EXCEPT ![p].status = status]

\* Mutant: an approval writes over the current version.
ApproveInPlace(p) ==
  /\ Decide(p, "approved")
  /\ version[ledger[p].request] = ledger[p].base
  /\ UNCHANGED version

\* Approval writes exactly the next version after the proposal's base ...
Approve(p) ==
  /\ Decide(p, "approved")
  /\ version[ledger[p].request] = ledger[p].base
  /\ version' = [version EXCEPT ![ledger[p].request] = @ + 1]

\* ... and is refused once anything else was written.
Conflict(p) ==
  /\ Decide(p, "conflicted")
  /\ version[ledger[p].request] # ledger[p].base
  /\ UNCHANGED version

\* The user's refusal, the expiration, or a write that raised.
Decline(p) ==
  /\ \E status \in {"rejected", "expired", "failed"} : Decide(p, status)
  /\ UNCHANGED version

ContractNext ==
  \/ \E r \in Request : Save(r)
  \/ \E p \in ProposalId, r \in Request : Propose(p, r)
  \/ \E q, p \in ProposalId : ProposeUndo(q, p)
  \/ \E p \in ProposalId : Approve(p)
  \/ \E p \in ProposalId : Conflict(p)
  \/ \E p \in ProposalId : Decline(p)

ContractSpec == ContractInit /\ [][ContractNext]_contractVars

-----------------------------------------------------------------------------
(***************************************************************************)
(* No two approvals wrote the same version of a request, and none wrote a  *)
(* version that is still to come: nobody's approved change is overwritten  *)
(* by another that was proposed against the same document.                 *)
(***************************************************************************)
OneApprovalPerVersion ==
  \A p, q \in Issued :
    /\ ledger[p].status = "approved"
    /\ ledger[q].status = "approved"
    /\ ledger[p].request = ledger[q].request
    => /\ ledger[p].base < version[ledger[p].request]
       /\ ledger[p].base = ledger[q].base => p = q

(***************************************************************************)
(* Whatever was decided since, an inverse was proposed on the version its  *)
(* original wrote, and an original never has a second one.                 *)
(***************************************************************************)
InverseIsNext ==
  \A p, q \in Issued :
    ledger[q].undo_of = p =>
      /\ ledger[p].status = "approved"
      /\ ledger[q].base = ledger[p].base + 1
      /\ \A other \in Issued : ledger[other].undo_of = p => other = q
=============================================================================
