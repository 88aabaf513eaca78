-------------------------- MODULE ChatSession_proofs ---------------------------
(***************************************************************************)
(* Conversations, for any number of threads, conversations and proposals:  *)
(* what a handler goes on using of what it read stays true of the stores,  *)
(* and every step of a handler is a step of the proposal contract, whose   *)
(* own guarantees come first.                                              *)
(***************************************************************************)
EXTENDS ChatSession, TLAPS

(***************************************************************************)
(* What the contract guarantees, for any number of requests and proposals. *)
(***************************************************************************)

\* An inverse never names a proposal that was not issued yet.
OriginsIssued == \A q \in Issued : ledger[q].undo_of \in Issued \cup {None}

ContractInvariant ==
  /\ ContractTypeOK
  /\ OneApprovalPerVersion
  /\ InverseIsNext
  /\ OriginsIssued

\* Nothing was issued yet.
LEMMA ContractInitInvariant == ContractInit => ContractInvariant
BY DEF ContractInit, ContractInvariant, ContractTypeOK, OneApprovalPerVersion, InverseIsNext,
   OriginsIssued, Issued

(***************************************************************************)
(* A new record is on a version its request has reached, and an inverse is *)
(* on the version its original wrote.                                      *)
(***************************************************************************)
LEMMA IssueKeeps ==
  ASSUME ContractInvariant, NEW p \in ProposalId, NEW r \in Request, NEW base \in Nat,
         NEW origin \in ProposalId \cup {None},
         origin # None =>
           /\ origin \in Issued
           /\ ledger[origin].status = "approved"
           /\ base = ledger[origin].base + 1
           /\ \A other \in Issued : ledger[other].undo_of # origin,
         Issue(p, r, base, origin)
  PROVE  ContractInvariant'
<1> DEFINE record == [request |-> r, base |-> base, status |-> "pending", undo_of |-> origin]
<1>1. /\ ledger \in [ProposalId -> Lifecycle \cup {Absent}]
      /\ version \in [Request -> Nat]
      /\ p \notin Issued
      /\ ledger' = [ledger EXCEPT ![p] = record]
      /\ version' = version
  BY DEF ContractInvariant, ContractTypeOK, Issue, Issued
<1>2. record \in Lifecycle
  BY DEF Lifecycle
<1>3. ContractTypeOK'
  BY <1>1, <1>2 DEF ContractTypeOK
<1>4. /\ Issued' = Issued \cup {p}
      /\ ledger'[p] = record
      /\ \A q \in Issued : q # p /\ ledger'[q] = ledger[q]
  BY <1>1, <1>2, ContractAssumption DEF Issued
<1>5. OneApprovalPerVersion'
  BY <1>1, <1>4 DEF ContractInvariant, OneApprovalPerVersion
<1>6. OriginsIssued'
  BY <1>4 DEF ContractInvariant, OriginsIssued
<1>7. InverseIsNext'
  <2> SUFFICES ASSUME NEW o \in Issued', NEW q \in Issued', ledger'[q].undo_of = o
               PROVE  /\ ledger'[o].status = "approved"
                      /\ ledger'[q].base = ledger'[o].base + 1
                      /\ \A other \in Issued' : ledger'[other].undo_of = o => other = q
    BY DEF InverseIsNext
  <2>1. o # None
    BY ContractAssumption DEF Issued
  <2>2. CASE q = p
    <3>1. o = origin /\ o # p
      BY <1>4, <2>1, <2>2
    <3> QED
      BY <1>4, <2>1, <2>2, <3>1
  <2>3. CASE q # p
    <3>1. q \in Issued /\ o \in Issued /\ o # p
      BY <1>4, <2>1, <2>3 DEF ContractInvariant, OriginsIssued
    <3>2. /\ ledger[o].status = "approved"
          /\ ledger[q].base = ledger[o].base + 1
          /\ \A other \in Issued : ledger[other].undo_of = o => other = q
      BY <1>4, <3>1 DEF ContractInvariant, InverseIsNext
    <3>3. origin # o
      BY <1>4, <2>1, <3>1
    <3> QED
      BY <1>4, <3>1, <3>2, <3>3
  <2> QED
    BY <2>2, <2>3
<1> QED
  BY <1>3, <1>5, <1>6, <1>7 DEF ContractInvariant

(***************************************************************************)
(* A decision moves one pending proposal to a final status; an approval is *)
(* made at its base version and moves the request on.                      *)
(***************************************************************************)
LEMMA DecideKeeps ==
  ASSUME ContractInvariant, NEW p \in ProposalId,
         NEW status \in {"approved", "rejected", "expired", "conflicted", "failed"},
         Decide(p, status),
         version' \in [Request -> Nat],
         \A r \in Request : version[r] <= version'[r],
         status = "approved" =>
           /\ version[ledger[p].request] = ledger[p].base
           /\ version'[ledger[p].request] = ledger[p].base + 1
  PROVE  ContractInvariant'
<1>1. /\ ledger \in [ProposalId -> Lifecycle \cup {Absent}]
      /\ version \in [Request -> Nat]
      /\ p \in Issued
      /\ ledger[p] \in Lifecycle
      /\ ledger[p].status = "pending"
      /\ ledger' = [ledger EXCEPT ![p] = [ledger[p] EXCEPT !.status = status]]
  BY DEF ContractInvariant, ContractTypeOK, Decide, Issued
<1>2. /\ \A q \in ProposalId \ {p} : ledger'[q] = ledger[q]
      /\ ledger'[p] = [ledger[p] EXCEPT !.status = status]
  BY <1>1
<1>3. ledger'[p] \in Lifecycle
  BY <1>1, <1>2 DEF Lifecycle
<1>4. /\ ledger'[p].request = ledger[p].request
      /\ ledger'[p].base = ledger[p].base
      /\ ledger'[p].undo_of = ledger[p].undo_of
      /\ ledger'[p].status = status
      /\ ledger'[p] # Absent
  BY <1>1, <1>2, <1>3, ContractAssumption DEF Lifecycle
<1>5. ContractTypeOK'
  BY <1>1, <1>2, <1>3 DEF ContractTypeOK
<1>6. Issued' = Issued
  BY <1>1, <1>2, <1>4 DEF Issued
<1>7. ASSUME NEW q \in Issued
      PROVE  /\ ledger[q] \in Lifecycle
             /\ ledger'[q].request = ledger[q].request
             /\ ledger'[q].base = ledger[q].base
             /\ ledger'[q].undo_of = ledger[q].undo_of
             /\ q # p => ledger'[q].status = ledger[q].status
  BY <1>1, <1>2, <1>4 DEF Issued
<1>8. OneApprovalPerVersion'
  <2> SUFFICES ASSUME NEW o \in Issued, NEW q \in Issued,
                      ledger'[o].status = "approved", ledger'[q].status = "approved",
                      ledger[o].request = ledger[q].request
               PROVE  /\ ledger[o].base < version'[ledger[o].request]
                      /\ ledger[o].base = ledger[q].base => o = q
    BY <1>6, <1>7 DEF OneApprovalPerVersion
  <2>1. ASSUME NEW x \in Issued, x # p, ledger'[x].status = "approved"
        PROVE  ledger[x].base < version[ledger[x].request]
    BY <2>1, <1>7 DEF ContractInvariant, OneApprovalPerVersion
  <2>2. /\ ledger[o].base \in Nat /\ ledger[q].base \in Nat
        /\ ledger[o].request \in Request
        /\ version[ledger[o].request] \in Nat /\ version'[ledger[o].request] \in Nat
    BY <1>1, <1>7 DEF Lifecycle
  <2>3. ledger[o].base < version'[ledger[o].request]
    <3>1. CASE o = p
      BY <3>1, <1>4, <2>2
    <3>2. CASE o # p
      <4>1. ledger[o].base < version[ledger[o].request]
        BY <3>2, <2>1
      <4>2. version[ledger[o].request] <= version'[ledger[o].request]
        BY <2>2
      <4> QED
        BY <4>1, <4>2, <2>2
    <3> QED
      BY <3>1, <3>2
  <2>4. ledger[o].base = ledger[q].base => o = q
    <3>1. CASE o # p /\ q # p
      BY <3>1, <1>7 DEF ContractInvariant, OneApprovalPerVersion
    <3>2. CASE o = p /\ q # p
      <4>1. ledger[q].base < version[ledger[q].request]
        BY <3>2, <2>1
      <4> QED
        BY <3>2, <4>1, <2>2, <1>4
    <3>3. CASE q = p /\ o # p
      <4>1. ledger[o].base < version[ledger[o].request]
        BY <3>3, <2>1
      <4> QED
        BY <3>3, <4>1, <2>2, <1>4
    <3> QED
      BY <3>1, <3>2, <3>3
  <2> QED
    BY <2>3, <2>4
<1>9. InverseIsNext'
  BY <1>1, <1>6, <1>7 DEF ContractInvariant, InverseIsNext
<1>10. OriginsIssued'
  BY <1>6, <1>7 DEF ContractInvariant, OriginsIssued
<1> QED
  BY <1>5, <1>8, <1>9, <1>10 DEF ContractInvariant

\* Every step of the contract keeps its invariant.
LEMMA ContractNextKeeps ==
  ASSUME ContractInvariant, [ContractNext]_contractVars
  PROVE  ContractInvariant'
<1>1. version \in [Request -> Nat] /\ ledger \in [ProposalId -> Lifecycle \cup {Absent}]
  BY DEF ContractInvariant, ContractTypeOK
<1>2. ASSUME NEW p \in Issued
      PROVE  ledger[p] \in Lifecycle
  BY <1>1 DEF Issued
<1>3. ASSUME NEW r \in Request, Save(r)
      PROVE  ContractInvariant'
  <2>1. /\ ledger' = ledger
        /\ Issued' = Issued
        /\ version' \in [Request -> Nat]
        /\ \A o \in Request : version[o] <= version'[o]
    BY <1>1, <1>3 DEF Save, Issued
  <2>2. OneApprovalPerVersion'
    <3> SUFFICES ASSUME NEW p \in Issued, ledger[p].base < version[ledger[p].request]
                 PROVE  ledger[p].base < version'[ledger[p].request]
      BY <2>1 DEF ContractInvariant, OneApprovalPerVersion
    <3> QED
      BY <1>1, <1>2, <2>1 DEF Lifecycle
  <2> QED
    BY <1>1, <2>1, <2>2 DEF ContractInvariant, ContractTypeOK, InverseIsNext, OriginsIssued
<1>4. ASSUME NEW p \in ProposalId, NEW r \in Request, Propose(p, r)
      PROVE  ContractInvariant'
  <2>1. PICK base \in 0..version[r] : Issue(p, r, base, None)
    BY <1>4 DEF Propose
  <2>2. base \in Nat
    BY <1>1, <2>1
  <2> QED
    BY <2>1, <2>2, IssueKeeps
<1>5. ASSUME NEW q \in ProposalId, NEW p \in ProposalId, ProposeUndo(q, p)
      PROVE  ContractInvariant'
  <2>1. /\ p \in Issued
        /\ ledger[p].status = "approved"
        /\ version[ledger[p].request] = ledger[p].base + 1
        /\ \A other \in Issued : ledger[other].undo_of # p
        /\ Issue(q, ledger[p].request, version[ledger[p].request], p)
    BY <1>5 DEF ProposeUndo
  <2>2. ledger[p].request \in Request /\ version[ledger[p].request] \in Nat
    BY <1>1, <1>2, <2>1 DEF Lifecycle
  <2> QED
    BY <2>1, <2>2, IssueKeeps
<1>6. ASSUME NEW p \in ProposalId, Approve(p)
      PROVE  ContractInvariant'
  <2>1. p \in Issued /\ version[ledger[p].request] = ledger[p].base /\ Decide(p, "approved")
    BY <1>6 DEF Approve, Decide
  <2>2. ledger[p].request \in Request /\ ledger[p].base \in Nat
    BY <1>2, <2>1 DEF Lifecycle
  <2>3. version' = [version EXCEPT ![ledger[p].request] = @ + 1]
    BY <1>6 DEF Approve
  <2>4. /\ version' \in [Request -> Nat]
        /\ \A r \in Request : version[r] <= version'[r]
        /\ version'[ledger[p].request] = ledger[p].base + 1
    BY <1>1, <2>1, <2>2, <2>3
  <2> QED
    BY <2>1, <2>4, DecideKeeps
<1>7. ASSUME NEW p \in ProposalId, Conflict(p) \/ Decline(p)
      PROVE  ContractInvariant'
  <2>1. version' = version
    BY <1>7 DEF Conflict, Decline
  <2>2. PICK status \in {"rejected", "expired", "conflicted", "failed"} : Decide(p, status)
    BY <1>7 DEF Conflict, Decline
  <2>3. version' \in [Request -> Nat] /\ \A r \in Request : version[r] <= version'[r]
    BY <1>1, <2>1
  <2> QED
    BY <2>2, <2>3, DecideKeeps
<1>8. CASE UNCHANGED contractVars
  BY <1>8 DEF contractVars, ContractInvariant, ContractTypeOK, OneApprovalPerVersion, InverseIsNext,
     OriginsIssued, Issued
<1> QED
  BY <1>3, <1>4, <1>5, <1>6, <1>7, <1>8 DEF ContractNext

(***************************************************************************)
(* The contract keeps one approval per version of a request and one        *)
(* inverse per approval, on the version that approval wrote.               *)
(***************************************************************************)
THEOREM ContractHolds ==
  ContractSpec => [](ContractTypeOK /\ OneApprovalPerVersion /\ InverseIsNext)
<1>1. ContractInit => ContractInvariant
  BY ContractInitInvariant
<1>2. ContractInvariant /\ [ContractNext]_contractVars => ContractInvariant'
  BY ContractNextKeeps
<1>3. ContractInvariant => ContractTypeOK /\ OneApprovalPerVersion /\ InverseIsNext
  BY DEF ContractInvariant
<1> QED
  BY <1>1, <1>2, <1>3, PTL DEF ContractSpec

-----------------------------------------------------------------------------
(* The inductive invariant.                                                *)

Home(p, r) == p \in Issued /\ ledger[p].request = r

(* A conversation waits for a proposal of its own request.                 *)
ConversationHolds(c) ==
  conversations[c].workflow = "awaiting_proposal_approval" =>
    Home(conversations[c].proposal, conversations[c].request)

LinkHolds(p) ==
  linked[p] # None => linked[p] \in Opened /\ Home(p, conversations[linked[p]].request)

(* Which handler is at which stage, and what it has in its hands there.    *)
HandlerHolds(j) ==
  /\ j.at = "idle" => j = Idle
  /\ j.at \in {"look", "think", "reply", "answer", "clarify", "keep", "create", "record", "drop"} =>
       j.handler = "chat"
  /\ j.at = "extract" => j.handler = "message"
  /\ j.at \in {"dispatch", "persist", "register"} => j.handler \in {"chat", "message", "decide"}
  /\ j.at \in {"plan", "ask"} => j.handler \in {"chat", "decide"}
  /\ j.at \in {"decided", "enter", "follow", "expire"} => j.handler = "decide"
  /\ j.at = "invalidate" => j.handler = "save"
  /\ j.at # "idle" => j.request \in Request
  /\ j.at \notin {"idle", "decided", "invalidate"} => j.conversation \in Conversation
  /\ j.at \in {"dispatch", "persist", "register", "record"} \/ (j.at # "idle" /\ j.handler = "decide")
     => j.proposal \in ProposalId
  /\ j.at = "expire" => j.followup \in ProposalId
  /\ /\ j.at \in {"look", "think", "create", "extract", "dispatch", "persist", "register", "record",
                  "plan"}
     /\ j.handler # "decide"
     => j.seen \in Seen

(* What it has in its hands is of the request it works on.                 *)
HandsHold(j) ==
  /\ j.conversation # None =>
       j.conversation \in Opened /\ conversations[j.conversation].request = j.request
  /\ j.proposal # None => Home(j.proposal, j.request)
  /\ j.followup # None => /\ Home(j.followup, j.request)
                          /\ j.handler = "decide"
                          /\ j.at \in {"dispatch", "persist", "register", "expire"}
  /\ j.pending # None => j.pending \in Issued
  /\ j.at \in {"persist", "ask"} =>
       /\ j.outcome \in Context
       /\ j.outcome.workflow = "awaiting_proposal_approval" => Home(j.outcome.proposal, j.request)
  /\ j.at = "persist" /\ (j.handler # "decide" \/ j.followup # None) =>
       j.outcome.workflow = "awaiting_proposal_approval"

(* A planning snapshot that is current was taken of the wait it ends.      *)
SnapshotHolds(w) ==
  w \in fresh /\ jobs[w].at = "ask" /\ jobs[w].handler = "decide" =>
    Awaits(jobs[w].conversation, jobs[w].proposal)

SessionInvariant ==
  /\ SessionTypeOK
  /\ \A c \in Opened : ConversationHolds(c)
  /\ \A p \in ProposalId : LinkHolds(p)
  /\ \A w \in Worker : HandlerHolds(jobs[w]) /\ HandsHold(jobs[w]) /\ SnapshotHolds(w)
  /\ FollowupIsShown

-----------------------------------------------------------------------------
(* The workflow machine.                                                   *)

(***************************************************************************)
(* An event that is allowed moves a conversation along the table, and only *)
(* the creation of a proposal changes its reference.                       *)
(***************************************************************************)
LEMMA TransitionMoves ==
  ASSUME NEW c \in Context, NEW type, NEW p \in ProposalId \cup {None},
         NEW out, out = Transition(c, [type |-> type, proposal |-> p]), out # Rejected
  PROVE  /\ out \in Context
         /\ out.status = c.status
         /\ <<c.workflow, type, out.workflow>> \in Moves
         /\ out.proposal = IF type = "proposal_created" THEN p ELSE c.proposal
         /\ type = "proposal_terminal" => p = c.proposal
<1> DEFINE e == [type |-> type, proposal |-> p]
<1>1. Allowed(c, e)
  BY DEF Transition
<1>2. PICK s \in WorkflowState : <<c.workflow, type, s>> \in Moves
  BY <1>1 DEF Allowed
<1>3. PICK t : t = CHOOSE x \in WorkflowState : <<c.workflow, type, x>> \in Moves
  OBVIOUS
<1>4. t \in WorkflowState /\ <<c.workflow, type, t>> \in Moves
  BY <1>2, <1>3
<1>5. out = [c EXCEPT !.workflow = t,
                      !.proposal = IF type = "proposal_created" THEN p ELSE c.proposal]
  BY <1>1, <1>3 DEF Transition
<1> QED
  BY <1>1, <1>4, <1>5 DEF Context, Allowed

(***************************************************************************)
(* A conversation begins to wait with the creation of a proposal only.     *)
(***************************************************************************)
LEMMA WaitsForCreated ==
  ASSUME NEW s, NEW type, NEW t, <<s, type, t>> \in Moves
  PROVE  /\ t = "awaiting_proposal_approval" <=> type = "proposal_created"
         /\ type = "proposal_terminal" => s = "awaiting_proposal_approval"
BY DEF Moves, WorkflowState

(***************************************************************************)
(* The same of one more event of a sequence: nothing before was rejected.  *)
(***************************************************************************)
LEMMA ThenMoves ==
  ASSUME NEW c \in Context \cup {Rejected}, NEW type, NEW p \in ProposalId \cup {None},
         NEW out, out = Then(c, [type |-> type, proposal |-> p]), out # Rejected
  PROVE  /\ c \in Context /\ out \in Context
         /\ <<c.workflow, type, out.workflow>> \in Moves
         /\ out.proposal = IF type = "proposal_created" THEN p ELSE c.proposal
<1>1. c \in Context /\ out = Transition(c, [type |-> type, proposal |-> p])
  BY DEF Then
<1> QED
  BY <1>1, TransitionMoves

(***************************************************************************)
(* Every event is either rejected or leaves a context.                     *)
(***************************************************************************)
LEMMA TransitionOrRejected ==
  ASSUME NEW c \in Context, NEW type, NEW p \in ProposalId \cup {None}
  PROVE  Transition(c, [type |-> type, proposal |-> p]) \in Context \cup {Rejected}
BY TransitionMoves

(***************************************************************************)
(* A created proposal is waited for, whatever state it found.              *)
(***************************************************************************)
LEMMA CreatedOutcome ==
  ASSUME NEW c \in Context, NEW read \in WorkflowState, NEW p \in ProposalId,
         NEW out, out = Created(c, read, p), out # Rejected
  PROVE  out \in Context /\ out.workflow = "awaiting_proposal_approval" /\ out.proposal = p
<1>1. ASSUME NEW d \in Context, out = Transition(d, [type |-> "proposal_created", proposal |-> p])
      PROVE  out \in Context /\ out.workflow = "awaiting_proposal_approval" /\ out.proposal = p
  <2>1. /\ out \in Context
        /\ <<d.workflow, "proposal_created", out.workflow>> \in Moves
        /\ out.proposal = p
    BY <1>1, TransitionMoves
  <2> QED
    BY <2>1, WaitsForCreated
<1>2. CASE read = "started"
  <2>1. PICK d \in Context \cup {Rejected} : d = Transition(c, [type |-> "start", proposal |-> None])
    BY TransitionOrRejected
  <2>2. out = Then(d, [type |-> "proposal_created", proposal |-> p])
    BY <1>2, <2>1 DEF Created, Start, Event, ProposalCreated
  <2>3. d \in Context /\ out = Transition(d, [type |-> "proposal_created", proposal |-> p])
    BY <2>1, <2>2 DEF Then
  <2> QED
    BY <1>1, <2>3
<1>3. CASE read # "started"
  BY <1>1, <1>3 DEF Created, ProposalCreated
<1> QED
  BY <1>2, <1>3

(***************************************************************************)
(* A decision goes on from the wait for that very proposal.                *)
(***************************************************************************)
LEMMA ContinuedOutcome ==
  ASSUME NEW c \in Context, NEW p \in ProposalId,
         NEW out, out = Continued(c, p), out # Rejected
  PROVE  /\ out \in Context /\ out.workflow # "awaiting_proposal_approval"
         /\ c.workflow = "awaiting_proposal_approval" /\ c.proposal = p
<1>1. PICK d \in Context \cup {Rejected} :
        d = Transition(c, [type |-> "proposal_terminal", proposal |-> p])
  BY TransitionOrRejected
<1>2. out = Then(d, [type |-> "plan_next_question", proposal |-> None])
  BY <1>1 DEF Continued, ProposalTerminal, PlanNextQuestion, Event
<1>3. d # Rejected
  BY <1>2 DEF Then
<1>4. /\ d \in Context /\ <<c.workflow, "proposal_terminal", d.workflow>> \in Moves /\ p = c.proposal
  BY <1>1, <1>3, TransitionMoves
<1>5. out \in Context /\ <<d.workflow, "plan_next_question", out.workflow>> \in Moves
  BY <1>1, <1>2, <1>4, ThenMoves
<1> QED
  BY <1>4, <1>5, WaitsForCreated

(***************************************************************************)
(* What an answer and a question do to a conversation begins no wait.      *)
(***************************************************************************)
LEMMA AnsweredOutcome ==
  ASSUME NEW c \in Context, NEW read \in WorkflowState,
         NEW out, out = Answered(c, read), out # Rejected
  PROVE  /\ out \in Context
         /\ out.workflow = "awaiting_proposal_approval" => out = c
<1>1. ASSUME NEW d \in Context \cup {Rejected}, NEW type, type # "proposal_created",
             out = Then(d, [type |-> type, proposal |-> None])
      PROVE  out \in Context /\ out.workflow # "awaiting_proposal_approval"
  <2>1. out \in Context /\ <<d.workflow, type, out.workflow>> \in Moves
    BY <1>1, ThenMoves
  <2> QED
    BY <1>1, <2>1, WaitsForCreated
<1>2. c \in Context \cup {Rejected} /\ c # Rejected
  BY SessionAssumption
<1>3. CASE read = "started"
  <2>1. PICK d \in Context \cup {Rejected} : d = Transition(c, [type |-> "start", proposal |-> None])
    BY TransitionOrRejected
  <2>2. out = Then(d, [type |-> "answer_received", proposal |-> None])
    BY <1>3, <2>1 DEF Answered, Start, Event, AnswerReceived
  <2> QED
    BY <1>1, <2>1, <2>2
<1>4. CASE read = "awaiting_answer"
  <2>1. out = Then(c, [type |-> "answer_received", proposal |-> None])
    BY <1>2, <1>4 DEF Answered, Event, AnswerReceived, Then
  <2> QED
    BY <1>1, <2>1
<1>5. CASE read = "proposal_completed"
  <2>1. out = Then(c, [type |-> "plan_next_question", proposal |-> None])
    BY <1>2, <1>5 DEF Answered, Event, PlanNextQuestion, Then
  <2> QED
    BY <1>1, <2>1
<1>6. CASE read \notin {"started", "awaiting_answer", "proposal_completed"}
  BY <1>6 DEF Answered
<1> QED
  BY <1>3, <1>4, <1>5, <1>6

(***************************************************************************)
(* A question moves a planning conversation, guidance leaves it as it is.  *)
(***************************************************************************)
LEMMA AskedOutcome ==
  ASSUME NEW c \in Context \cup {Rejected}, NEW isQuestion \in BOOLEAN,
         NEW out, out = Asked(c, isQuestion), out # Rejected
  PROVE  /\ c \in Context /\ out \in Context
         /\ out.workflow = "awaiting_proposal_approval" => out = c
<1>1. CASE isQuestion
  <2>1. out = Then(c, [type |-> "question_planned", proposal |-> None])
    BY <1>1 DEF Asked, QuestionPlanned, Event
  <2>2. c \in Context /\ out \in Context /\ <<c.workflow, "question_planned", out.workflow>> \in Moves
    BY <2>1, ThenMoves
  <2> QED
    BY <2>2, WaitsForCreated
<1>2. CASE ~isQuestion
  BY <1>2 DEF Asked
<1> QED
  BY <1>1, <1>2

-----------------------------------------------------------------------------
(* What every step leaves standing.                                        *)

\* No proposal and no conversation goes, and none changes its request.
Grows ==
  /\ \A p \in Issued : p \in Issued' /\ ledger'[p].request = ledger[p].request
  /\ \A c \in Opened : c \in Opened' /\ conversations'[c].request = conversations[c].request

\* A planning snapshot that is still current afterwards was current before.
StillFresh(w) ==
  w \in fresh' =>
    /\ w \in fresh
    /\ jobs[w].conversation \in Opened =>
         /\ conversations'[jobs[w].conversation].workflow = conversations[jobs[w].conversation].workflow
         /\ conversations'[jobs[w].conversation].proposal = conversations[jobs[w].conversation].proposal

(***************************************************************************)
(* What a handler has in its hands stays true while others write.          *)
(***************************************************************************)
LEMMA HandsStay ==
  ASSUME NEW j, HandsHold(j), Grows
  PROVE  HandsHold(j)'
<1>1. ASSUME NEW p, NEW r, Home(p, r)
      PROVE  Home(p, r)'
  BY <1>1 DEF Home, Grows
<1>2. j.conversation # None =>
        j.conversation \in Opened' /\ conversations'[j.conversation].request = j.request
  BY DEF HandsHold, Grows
<1>3. j.pending # None => j.pending \in Issued'
  BY DEF HandsHold, Grows
<1> QED
  BY <1>1, <1>2, <1>3 DEF HandsHold

(***************************************************************************)
(* A thread that does not move keeps its part of the invariant.            *)
(***************************************************************************)
LEMMA RestingKeeps ==
  ASSUME SessionInvariant, Grows, NEW v \in Worker, jobs'[v] = jobs[v], StillFresh(v)
  PROVE  (HandlerHolds(jobs[v]) /\ HandsHold(jobs[v]) /\ SnapshotHolds(v))'
<1>1. PICK j : j = jobs[v]
  OBVIOUS
<1>2. HandlerHolds(j) /\ HandsHold(j) /\ SnapshotHolds(v)
  BY <1>1 DEF SessionInvariant
<1>3. HandsHold(j)'
  BY <1>2, HandsStay
<1>4. HandlerHolds(jobs'[v])
  BY <1>1, <1>2
<1>5. HandsHold(jobs[v])'
  BY <1>1, <1>3
<1>6. SnapshotHolds(v)'
  BY <1>1, <1>2 DEF SnapshotHolds, StillFresh, Awaits, Grows
<1> QED
  BY <1>4, <1>5, <1>6

(***************************************************************************)
(* A step keeps the invariant if the threads that move and the stores do.  *)
(***************************************************************************)
LEMMA StepKeeps ==
  ASSUME SessionInvariant, Grows, SessionTypeOK',
         NEW Movers \in SUBSET Worker,
         \A v \in Worker \ Movers : jobs'[v] = jobs[v] /\ StillFresh(v),
         \A w \in Movers : (HandlerHolds(jobs[w]) /\ HandsHold(jobs[w]) /\ SnapshotHolds(w))',
         (\A c \in Opened : ConversationHolds(c))',
         (\A p \in ProposalId : LinkHolds(p))',
         FollowupIsShown'
  PROVE  SessionInvariant'
<1>1. ASSUME NEW v \in Worker
      PROVE  (HandlerHolds(jobs[v]) /\ HandsHold(jobs[v]) /\ SnapshotHolds(v))'
  BY RestingKeeps
<1> QED
  BY <1>1 DEF SessionInvariant

(***************************************************************************)
(* A follow-up is not lost by a step that decides nothing and lets it out  *)
(* of no hand.                                                             *)
(***************************************************************************)
LEMMA FollowupsStay ==
  ASSUME FollowupIsShown, UNCHANGED <<ledger, linked, source>>,
         \A v \in Worker, p \in Issued :
           jobs[v].followup = p /\ ledger[p].status = "pending" => jobs'[v].followup = p
  PROVE  FollowupIsShown'
BY DEF FollowupIsShown, Issued

(***************************************************************************)
(* A thread only moves.                                                    *)
(***************************************************************************)
LEMMA JobMoves ==
  ASSUME SessionInvariant, NEW w \in Worker, NEW j \in Job, OnlyJob, Goto(w, j),
         HandlerHolds(j), HandsHold(j), j.at # "ask",
         \/ jobs[w].followup = None
         \/ j.followup = jobs[w].followup
  PROVE  SessionInvariant'
<1>1. /\ jobs \in [Worker -> Job]
      /\ jobs' = [jobs EXCEPT ![w] = j]
  BY DEF SessionInvariant, SessionTypeOK, Goto
<1>2. /\ jobs' \in [Worker -> Job]
      /\ jobs'[w] = j
      /\ \A v \in Worker \ {w} : jobs'[v] = jobs[v]
  BY <1>1
<1>3. Grows
  BY DEF OnlyJob, Grows, Issued, Opened
<1>4. SessionTypeOK'
  BY <1>2 DEF OnlyJob, SessionInvariant, SessionTypeOK, ContractTypeOK, Issued
<1>5. \A v \in Worker \ {w} : jobs'[v] = jobs[v] /\ StillFresh(v)
  BY <1>2 DEF OnlyJob, StillFresh
<1>6. HandsHold(j)'
  BY <1>3, HandsStay
<1>7. (HandlerHolds(jobs[w]) /\ HandsHold(jobs[w]) /\ SnapshotHolds(w))'
  BY <1>2, <1>6 DEF SnapshotHolds
<1>8. (\A c \in Opened : ConversationHolds(c))' /\ (\A p \in ProposalId : LinkHolds(p))'
  BY DEF OnlyJob, SessionInvariant, ConversationHolds, LinkHolds, Home, Opened, Issued
<1>9. FollowupIsShown'
  <2>1. \A p \in Issued : jobs[w].followup = p => jobs'[w].followup = p
    BY <1>2, ContractAssumption DEF Issued
  <2> QED
    BY <1>2, <2>1, FollowupsStay DEF OnlyJob, SessionInvariant
<1>10. {w} \in SUBSET Worker
  OBVIOUS
<1> QED
  BY <1>3, <1>4, <1>5, <1>7, <1>8, <1>9, <1>10, StepKeeps

(***************************************************************************)
(* What is in order about the outcome c' of a write of a conversation of   *)
(* the request r.                                                          *)
(***************************************************************************)
RecordHolds(record, r) ==
  /\ record \in Record
  /\ record.request = r
  /\ record.workflow = "awaiting_proposal_approval" => Home(record.proposal, r)

(***************************************************************************)
(* A conversation is written or opened, and at most one thread moves.      *)
(***************************************************************************)
LEMMA ConversationMoves ==
  ASSUME SessionInvariant, NEW c \in Conversation, NEW record, NEW r,
         Replace(c, record), RecordHolds(record, r),
         c \in Opened => conversations[c].request = r,
         UNCHANGED <<version, ledger, linked, source>>,
         disclosed' \subseteq Issued, followupLock' \in Worker \cup {None},
         NEW Movers \in SUBSET Worker, jobs' \in [Worker -> Job],
         \A v \in Worker \ Movers : jobs'[v] = jobs[v],
         \A v \in Movers :
           /\ (HandlerHolds(jobs[v]) /\ HandsHold(jobs[v]))'
           /\ jobs'[v].at # "ask"
           /\ jobs[v].followup = None \/ jobs'[v].followup = jobs[v].followup
  PROVE  SessionInvariant'
<1>1. /\ conversations \in [Conversation -> Record \cup {Absent}]
      /\ conversations' = [conversations EXCEPT ![c] = record]
      /\ fresh' = {v \in fresh : jobs[v].conversation # c}
      /\ fresh \subseteq Worker
      /\ record \in Record /\ record # Absent
  BY SessionAssumption DEF SessionInvariant, SessionTypeOK, Replace, RecordHolds
<1>2. /\ conversations' \in [Conversation -> Record \cup {Absent}]
      /\ conversations'[c] = record
      /\ \A d \in Conversation \ {c} : conversations'[d] = conversations[d]
      /\ Opened' = Opened \cup {c}
  BY <1>1 DEF Opened
<1>3. Grows
  BY <1>2 DEF Grows, Issued, RecordHolds, Opened
<1>4. SessionTypeOK'
  BY <1>1, <1>2 DEF SessionInvariant, SessionTypeOK, ContractTypeOK, Issued
<1>5. \A v \in Worker \ Movers : jobs'[v] = jobs[v] /\ StillFresh(v)
  BY <1>1, <1>2 DEF StillFresh, Opened
<1>6. \A v \in Movers : (HandlerHolds(jobs[v]) /\ HandsHold(jobs[v]) /\ SnapshotHolds(v))'
  BY DEF SnapshotHolds
<1>7. (\A d \in Opened : ConversationHolds(d))'
  BY <1>2 DEF RecordHolds, SessionInvariant, ConversationHolds, Home, Opened, Issued
<1>8. (\A p \in ProposalId : LinkHolds(p))'
  BY <1>3 DEF Grows, SessionInvariant, LinkHolds, Home
<1>9. FollowupIsShown'
  <2>1. \A v \in Worker, p \in Issued : jobs[v].followup = p => jobs'[v].followup = p
    BY ContractAssumption DEF Issued
  <2> QED
    BY <2>1, FollowupsStay DEF SessionInvariant
<1> QED
  BY <1>3, <1>4, <1>5, <1>6, <1>7, <1>8, <1>9, StepKeeps

(***************************************************************************)
(* A handler writes the conversation it works on and moves on.             *)
(***************************************************************************)
LEMMA HandlerWrites ==
  ASSUME SessionInvariant, NEW w \in Worker, NEW j \in Job, NEW c \in Opened, NEW record,
         Replace(c, record), RecordHolds(record, conversations[c].request),
         UNCHANGED <<version, ledger, linked, source, followupLock>>, disclosed' \subseteq Issued,
         Goto(w, j), HandlerHolds(j), HandsHold(j), j.at # "ask",
         \/ jobs[w].followup = None
         \/ j.followup = jobs[w].followup
  PROVE  SessionInvariant'
<1>1. /\ jobs \in [Worker -> Job]
      /\ followupLock \in Worker \cup {None}
      /\ conversations \in [Conversation -> Record \cup {Absent}]
      /\ c \in Conversation
  BY DEF SessionInvariant, SessionTypeOK, Opened
<1>2. /\ jobs' \in [Worker -> Job]
      /\ jobs'[w] = j
      /\ \A v \in Worker \ {w} : jobs'[v] = jobs[v]
  BY <1>1 DEF Goto
<1>3. conversations'[c] = record /\ record # Absent /\ \A d \in Opened \ {c} : conversations'[d] = conversations[d]
  BY <1>1, SessionAssumption DEF Replace, Opened, RecordHolds
<1>4. Grows
  BY <1>1, <1>3 DEF Grows, Issued, Opened, RecordHolds
<1>5. HandsHold(j)'
  BY <1>4, HandsStay
<1>6. \A v \in {w} :
        /\ (HandlerHolds(jobs[v]) /\ HandsHold(jobs[v]))'
        /\ jobs'[v].at # "ask"
        /\ jobs[v].followup = None \/ jobs'[v].followup = jobs[v].followup
  BY <1>2, <1>5
<1>7. {w} \in SUBSET Worker /\ followupLock' \in Worker \cup {None}
  BY <1>1
<1>8. UNCHANGED <<version, ledger, linked, source>>
  OBVIOUS
<1> QED
  BY <1>1, <1>2, <1>6, <1>7, <1>8, ConversationMoves

(* A proposal is recorded, and its creator, if any, moves on with it.      *)
Records(p, origin, Movers) ==
  /\ source' = [source EXCEPT ![p] = origin]
  /\ UNCHANGED <<conversations, fresh, linked, followupLock>>
  /\ disclosed' \subseteq disclosed \cup {p}
  /\ jobs' \in [Worker -> Job]
  /\ \A v \in Worker \ Movers : jobs'[v] = jobs[v]
  /\ \A v \in Movers :
       /\ (HandlerHolds(jobs[v]) /\ HandsHold(jobs[v]))'
       /\ jobs'[v].at # "ask"
       /\ jobs[v].followup = None \/ jobs'[v].followup = jobs[v].followup
  /\ origin = "deferred_followup" => \E v \in Movers : jobs'[v].followup = p

(***************************************************************************)
(* A proposal is recorded, in nobody's hands but those of its creator, who *)
(* discloses at most that one.                                             *)
(***************************************************************************)
LEMMA ProposalMoves ==
  ASSUME SessionInvariant, NEW p \in ProposalId, NEW r \in Request, NEW base \in Nat,
         NEW undo_of \in ProposalId \cup {None}, NEW origin \in Source,
         Issue(p, r, base, undo_of), NEW Movers \in SUBSET Worker, Records(p, origin, Movers)
  PROVE  SessionInvariant'
<1> USE DEF Records
<1> DEFINE record == [request |-> r, base |-> base, status |-> "pending", undo_of |-> undo_of]
<1>1. /\ ledger \in [ProposalId -> Lifecycle \cup {Absent}]
      /\ ledger' = [ledger EXCEPT ![p] = record]
      /\ ledger[p] = Absent
      /\ version' = version
      /\ source \in [ProposalId -> Source \cup {None}]
  BY DEF SessionInvariant, SessionTypeOK, ContractTypeOK, Issue
<1>2. record \in Lifecycle /\ record # Absent
  BY ContractAssumption DEF Lifecycle
<1>3. /\ ledger' \in [ProposalId -> Lifecycle \cup {Absent}]
      /\ ledger'[p] = record
      /\ Issued' = Issued \cup {p}
      /\ \A q \in Issued : q # p /\ ledger'[q] = ledger[q]
  BY <1>1, <1>2 DEF Issued
<1>4. Grows
  BY <1>3 DEF Grows, Opened
<1>5. SessionTypeOK'
  BY <1>1, <1>3 DEF SessionInvariant, SessionTypeOK, ContractTypeOK
<1>6. \A v \in Worker \ Movers : jobs'[v] = jobs[v] /\ StillFresh(v)
  BY DEF StillFresh
<1>7. \A v \in Movers : (HandlerHolds(jobs[v]) /\ HandsHold(jobs[v]) /\ SnapshotHolds(v))'
  BY DEF SnapshotHolds
<1>8. (\A d \in Opened : ConversationHolds(d))'
  BY <1>4 DEF Grows, SessionInvariant, ConversationHolds, Home, Opened
<1>9. (\A q \in ProposalId : LinkHolds(q))'
  BY <1>4 DEF Grows, SessionInvariant, LinkHolds, Home
<1>10. FollowupIsShown'
  <2> SUFFICES ASSUME NEW q \in Issued', source'[q] = "deferred_followup",
                      ledger'[q].status = "pending", linked'[q] = None
               PROVE  \E v \in Worker : jobs'[v].followup = q
    BY DEF FollowupIsShown
  <2>1. CASE q = p
    <3>1. origin = "deferred_followup"
      BY <1>1, <2>1
    <3> QED
      BY <2>1, <3>1
  <2>2. CASE q # p
    <3>1. q \in Issued /\ source[q] = "deferred_followup" /\ ledger[q].status = "pending" /\ linked[q] = None
      BY <1>1, <1>3, <2>2
    <3>2. PICK v \in Worker : jobs[v].followup = q
      BY <3>1 DEF SessionInvariant, FollowupIsShown
    <3>3. q # None
      BY <3>1, ContractAssumption DEF Issued
    <3> QED
      BY <3>2, <3>3
  <2> QED
    BY <2>1, <2>2
<1> QED
  BY <1>4, <1>5, <1>6, <1>7, <1>8, <1>9, <1>10, StepKeeps

(***************************************************************************)
(* The request or the status of proposals changes and at most one thread   *)
(* moves; what was pending and is no more needs nobody's hands.            *)
(***************************************************************************)
LEMMA LifecycleMoves ==
  ASSUME SessionInvariant, ContractTypeOK', Issued' = Issued,
         \A p \in Issued : /\ ledger'[p].request = ledger[p].request
                           /\ ledger'[p].status = "pending" => ledger[p].status = "pending",
         UNCHANGED <<conversations, linked, source, disclosed>>, fresh' \subseteq fresh,
         followupLock' \in Worker \cup {None},
         NEW w \in Worker, NEW j \in Job, Goto(w, j), HandlerHolds(j), HandsHold(j), j.at # "ask",
         \/ jobs[w].followup = None
         \/ j.followup = jobs[w].followup
         \/ ledger'[jobs[w].followup].status # "pending"
  PROVE  SessionInvariant'
<1>1. /\ jobs \in [Worker -> Job]
      /\ jobs' = [jobs EXCEPT ![w] = j]
  BY DEF SessionInvariant, SessionTypeOK, Goto
<1>2. /\ jobs' \in [Worker -> Job]
      /\ jobs'[w] = j
      /\ \A v \in Worker \ {w} : jobs'[v] = jobs[v]
  BY <1>1
<1>3. Grows
  BY DEF Grows, Opened
<1>4. SessionTypeOK'
  BY <1>2 DEF SessionInvariant, SessionTypeOK
<1>5. \A v \in Worker \ {w} : jobs'[v] = jobs[v] /\ StillFresh(v)
  BY <1>2 DEF StillFresh
<1>6. HandsHold(j)'
  BY <1>3, HandsStay
<1>7. \A v \in {w} : (HandlerHolds(jobs[v]) /\ HandsHold(jobs[v]) /\ SnapshotHolds(v))'
  BY <1>2, <1>6 DEF SnapshotHolds
<1>8. (\A d \in Opened : ConversationHolds(d))'
  BY <1>3 DEF Grows, SessionInvariant, ConversationHolds, Home, Opened
<1>9. (\A q \in ProposalId : LinkHolds(q))'
  BY <1>3 DEF Grows, SessionInvariant, LinkHolds, Home
<1>10. FollowupIsShown'
  <2> SUFFICES ASSUME NEW q \in Issued, source[q] = "deferred_followup",
                      ledger'[q].status = "pending", linked[q] = None
               PROVE  \E v \in Worker : jobs'[v].followup = q
    BY DEF FollowupIsShown
  <2>1. PICK v \in Worker : jobs[v].followup = q
    BY DEF SessionInvariant, FollowupIsShown
  <2>2. q # None
    BY ContractAssumption DEF Issued
  <2> QED
    BY <1>2, <2>1, <2>2
<1>11. {w} \in SUBSET Worker
  OBVIOUS
<1> QED
  BY <1>3, <1>4, <1>5, <1>7, <1>8, <1>9, <1>10, <1>11, StepKeeps

-----------------------------------------------------------------------------
(* The steps of a chat and of a message.                                   *)

(***************************************************************************)
(* What is known of a thread when it takes a step.                         *)
(***************************************************************************)
LEMMA JobHolds ==
  ASSUME SessionInvariant, NEW w \in Worker
  PROVE  /\ jobs[w] \in Job
         /\ HandlerHolds(jobs[w]) /\ HandsHold(jobs[w]) /\ SnapshotHolds(w)
         /\ jobs[w].at \in {"look", "think", "reply", "answer", "clarify", "keep", "create", "record",
                            "drop", "extract"} =>
              /\ jobs[w].conversation \in Opened
              /\ conversations[jobs[w].conversation].request = jobs[w].request
              /\ jobs[w].request \in Request
              /\ jobs[w].followup = None
         /\ jobs[w] = Idle => jobs[w].at = "idle" /\ jobs[w].followup = None
<1>1. jobs[w] \in Job /\ HandlerHolds(jobs[w]) /\ HandsHold(jobs[w]) /\ SnapshotHolds(w)
  BY DEF SessionInvariant, SessionTypeOK
<1>2. None \notin Conversation
  BY SessionAssumption
<1> QED
  BY <1>1, <1>2 DEF HandlerHolds, HandsHold, Idle

\* An open conversation has a record, and what a handler sees of it is of its kind.
LEMMA OpenedIsRecord ==
  ASSUME SessionInvariant, NEW c \in Opened
  PROVE  /\ c \in Conversation
         /\ conversations[c] \in Record
         /\ SeenOf(conversations[c]) \in Seen
         /\ ConversationHolds(c)
BY DEF SessionInvariant, SessionTypeOK, Opened, SeenOf, Seen, Record

\* The pending proposal of a request, if any, was issued.
LEMMA PendingIsIssued ==
  ASSUME NEW r
  PROVE  PendingOf(r) \in Undecided(r) \cup {None} /\ PendingOf(r) \in Issued \cup {None}
BY DEF PendingOf, Undecided

(***************************************************************************)
(* A thread at another stage.                                              *)
(***************************************************************************)
LEMMA JobAt ==
  ASSUME NEW j \in Job, NEW at \in Stage
  PROVE  [j EXCEPT !.at = at] \in Job
BY DEF Job

\* A thread at rest has nothing in its hands.
LEMMA IdleIsJob == Idle \in Job /\ HandlerHolds(Idle) /\ HandsHold(Idle) /\ Idle.at = "idle" /\ Idle.followup = None
BY DEF Idle, Job, Stage, HandlerHolds, HandsHold

(***************************************************************************)
(* A thread that gives up or is done.                                      *)
(***************************************************************************)
LEMMA DoneKeeps ==
  ASSUME SessionInvariant, NEW w \in Worker, OnlyJob, Done(w), jobs[w].followup = None
  PROVE  SessionInvariant'
BY IdleIsJob, JobMoves DEF Done

(***************************************************************************)
(* A record with other candidates, or the same again, is still in order.   *)
(***************************************************************************)
LEMMA SameRecordHolds ==
  ASSUME SessionInvariant, NEW c \in Opened, NEW candidates \in Nat \cup {None}
  PROVE  /\ RecordHolds(conversations[c], conversations[c].request)
         /\ RecordHolds([conversations[c] EXCEPT !.candidates = candidates], conversations[c].request)
BY OpenedIsRecord DEF RecordHolds, ConversationHolds, Record

(***************************************************************************)
(* A handler writes its conversation without moving its workflow.          *)
(***************************************************************************)
LEMMA HandlerTouches ==
  ASSUME SessionInvariant, NEW w \in Worker, NEW j \in Job, NEW c \in Opened,
         NEW candidates \in Nat \cup {None},
         \/ Replace(c, conversations[c])
         \/ Replace(c, [conversations[c] EXCEPT !.candidates = candidates]),
         UNCHANGED <<version, ledger, linked, source, followupLock>>,
         disclosed' = disclosed \/ disclosed' \subseteq Issued,
         Goto(w, j), HandlerHolds(j), HandsHold(j), j.at # "ask", jobs[w].followup = None
  PROVE  SessionInvariant'
<1>1. disclosed' \subseteq Issued
  BY DEF SessionInvariant, SessionTypeOK
<1>2. PICK record : Replace(c, record) /\ RecordHolds(record, conversations[c].request)
  BY SameRecordHolds
<1> QED
  BY <1>1, <1>2, HandlerWrites

\* A chat starts with what it read of an active conversation.
LEMMA ChatReadKeeps ==
  ASSUME SessionInvariant, NEW w \in Worker, NEW c \in Conversation, ChatRead(w, c)
  PROVE  SessionInvariant'
<1> DEFINE k == [Idle EXCEPT !.at = "look", !.handler = "chat", !.conversation = c,
                             !.request = conversations[c].request,
                             !.seen = SeenOf(conversations[c])]
<1>1. /\ c \in Opened /\ jobs[w] = Idle /\ Goto(w, k) /\ OnlyJob
  BY DEF ChatRead, Begin, Active
<1>2. conversations[c] \in Record /\ SeenOf(conversations[c]) \in Seen
  BY <1>1, OpenedIsRecord
<1>3. k \in Job
  BY <1>2 DEF Idle, Job, Record, AllHandlers, Stage
<1>4. HandlerHolds(k) /\ HandsHold(k)
  BY <1>1, <1>2 DEF Idle, HandlerHolds, HandsHold, Record
<1> QED
  BY <1>1, <1>3, <1>4, JobMoves DEF Idle

\* Looking at the request takes up its version and its pending proposal.
LEMMA ChatLookKeeps ==
  ASSUME SessionInvariant, NEW w \in Worker, ChatLook(w)
  PROVE  SessionInvariant'
<1>1. PICK j : j = jobs[w]
  OBVIOUS
<1> DEFINE looked == [j EXCEPT !.at = "think", !.base = version[j.request],
                               !.pending = PendingOf(j.request)]
           again == [looked EXCEPT !.seen = SeenOf(conversations[j.conversation])]
<1>2. /\ j.at = "look" /\ j \in Job /\ HandlerHolds(j) /\ HandsHold(j)
      /\ j.conversation \in Opened /\ conversations[j.conversation].request = j.request
      /\ j.request \in Request /\ j.followup = None
  BY <1>1, JobHolds DEF ChatLook
<1>3. version[j.request] \in Nat /\ PendingOf(j.request) \in Issued \cup {None} /\ Issued \subseteq ProposalId
  BY <1>2, PendingIsIssued DEF SessionInvariant, SessionTypeOK, ContractTypeOK, Issued
<1>4. looked \in Job /\ again \in Job
  <2>1. SeenOf(conversations[j.conversation]) \in Seen
    BY <1>2, OpenedIsRecord
  <2>2. looked \in Job
    <3>1. /\ "think" \in Stage /\ version[j.request] \in Nat \cup {None}
          /\ PendingOf(j.request) \in ProposalId \cup {None}
      BY <1>3 DEF Stage
    <3>2. [j EXCEPT !.at = "think"] \in Job
      BY <1>2, <3>1 DEF Job
    <3>3. [j EXCEPT !.at = "think", !.base = version[j.request]] \in Job
      BY <3>1, <3>2 DEF Job
    <3> QED
      BY <3>1, <3>3 DEF Job
  <2> HIDE DEF looked
  <2> QED
    BY <2>1, <2>2 DEF Job
<1>5. HandlerHolds(looked) /\ HandlerHolds(again)
  BY <1>2, OpenedIsRecord DEF HandlerHolds, Job
<1>6. HandsHold(looked) /\ HandsHold(again)
  BY <1>2, <1>3 DEF HandsHold, Job
<1>7. looked.followup = None /\ again.followup = None /\ looked.at = "think" /\ again.at = "think"
  BY <1>2 DEF Job
<1>8. CASE Goto(w, looked) /\ OnlyJob
  BY <1>1, <1>2, <1>4, <1>5, <1>6, <1>7, <1>8, JobMoves
<1>9. CASE Touch(j.conversation) /\ Goto(w, again) /\ OnlyConversations
  BY <1>1, <1>2, <1>4, <1>5, <1>6, <1>7, <1>9, HandlerTouches DEF Touch, OnlyConversations
<1>10. CASE Done(w) /\ OnlyJob
  BY <1>1, <1>2, <1>10, DoneKeeps
<1> QED
  BY <1>1, <1>8, <1>9, <1>10 DEF ChatLook

\* Dropping candidates leaves the conversation otherwise as it was.
LEMMA ChatForgetKeeps ==
  ASSUME SessionInvariant, NEW w \in Worker, ChatForget(w)
  PROVE  SessionInvariant'
<1>1. PICK j : j = jobs[w]
  OBVIOUS
<1> DEFINE forgotten == [conversations[j.conversation] EXCEPT !.candidates = None]
           k == [j EXCEPT !.seen = SeenOf(forgotten)]
<1>2. /\ j.at = "think" /\ j \in Job /\ HandlerHolds(j) /\ HandsHold(j)
      /\ j.conversation \in Opened /\ j.followup = None
  BY <1>1, JobHolds DEF ChatForget
<1>3. SeenOf(forgotten) \in Seen
  BY <1>2, OpenedIsRecord DEF Record, SeenOf, Seen
<1>4. k \in Job /\ HandlerHolds(k) /\ HandsHold(k) /\ k.at # "ask"
  BY <1>2, <1>3 DEF Job, HandlerHolds, HandsHold
<1>5. CASE Replace(j.conversation, forgotten) /\ Goto(w, k) /\ OnlyConversations
  BY <1>1, <1>2, <1>4, <1>5, HandlerTouches DEF OnlyConversations
<1>6. CASE Done(w) /\ OnlyJob
  BY <1>1, <1>2, <1>6, DoneKeeps
<1> QED
  BY <1>1, <1>5, <1>6 DEF ChatForget

\* Whatever the model decides, the chat goes on with the same conversation.
LEMMA ChatThinkKeeps ==
  ASSUME SessionInvariant, NEW w \in Worker, ChatThink(w)
  PROVE  SessionInvariant'
<1>1. PICK j : j = jobs[w]
  OBVIOUS
<1>2. /\ j.at = "think" /\ j \in Job /\ HandlerHolds(j) /\ HandsHold(j) /\ j.followup = None
      /\ j.seen \in Seen /\ OnlyJob
  BY <1>1, JobHolds DEF ChatThink, HandlerHolds, HandsHold
<1>3. ASSUME NEW at \in {"reply", "answer", "clarify", "create"}, NEW seen \in {j.seen, None},
             NEW base \in {j.base, None}, NEW pending \in {j.pending, None},
             at = "create" => seen = j.seen,
             Goto(w, [j EXCEPT !.at = at, !.seen = seen, !.base = base, !.pending = pending])
      PROVE  SessionInvariant'
  <2> DEFINE k == [j EXCEPT !.at = at, !.seen = seen, !.base = base, !.pending = pending]
  <2>1. k \in Job
    <3>1. /\ at \in Stage /\ seen \in Seen \cup {None} /\ base \in Nat \cup {None}
          /\ pending \in ProposalId \cup {None}
      BY <1>2 DEF Job, Stage
    <3> DEFINE i == [j EXCEPT !.at = at]
               l == [i EXCEPT !.seen = seen]
               m == [l EXCEPT !.base = base]
    <3>2. i \in Job
      BY <1>2, <3>1 DEF Job
    <3>5. k = [m EXCEPT !.pending = pending]
      OBVIOUS
    <3> HIDE DEF i, k
    <3>3. l \in Job
      BY <3>1, <3>2 DEF Job
    <3> HIDE DEF l
    <3>4. m \in Job
      BY <3>1, <3>3 DEF Job
    <3> HIDE DEF m
    <3> QED
      BY <3>1, <3>4, <3>5 DEF Job
  <2>2. HandlerHolds(k)
    BY <1>2, <1>3 DEF HandlerHolds, Job
  <2>3. HandsHold(k)
    BY <1>2 DEF HandsHold, Job
  <2>4. k.at # "ask" /\ k.followup = None
    BY <1>2 DEF Job
  <2> QED
    BY <1>1, <1>2, <1>3, <2>1, <2>2, <2>3, <2>4, JobMoves
<1>5. \/ Done(w)
      \/ \E at \in {"reply", "answer", "clarify", "create"}, seen \in {j.seen, None},
            base \in {j.base, None}, pending \in {j.pending, None} :
           /\ at = "create" => seen = j.seen
           /\ Goto(w, [j EXCEPT !.at = at, !.seen = seen, !.base = base, !.pending = pending])
  <2>2. [j EXCEPT !.at = "clarify", !.seen = None, !.pending = None]
        = [j EXCEPT !.at = "clarify", !.seen = None, !.base = j.base, !.pending = None]
    BY <1>2 DEF Job
  <2>3. [j EXCEPT !.at = "reply", !.seen = None, !.base = None]
        = [j EXCEPT !.at = "reply", !.seen = None, !.base = None, !.pending = j.pending]
    BY <1>2 DEF Job
  <2>4. [j EXCEPT !.at = "answer", !.seen = None, !.base = None]
        = [j EXCEPT !.at = "answer", !.seen = None, !.base = None, !.pending = j.pending]
    BY <1>2 DEF Job
  <2>5. [j EXCEPT !.at = "create"]
        = [j EXCEPT !.at = "create", !.seen = j.seen, !.base = j.base, !.pending = j.pending]
    BY <1>2 DEF Job
  <2> QED
    BY <1>1, <2>2, <2>3, <2>4, <2>5 DEF ChatThink
<1> QED
  BY <1>1, <1>2, <1>3, <1>5, DoneKeeps

\* A reply that names the pending proposal discloses an issued one.
LEMMA ChatReplyKeeps ==
  ASSUME SessionInvariant, NEW w \in Worker, ChatReply(w)
  PROVE  SessionInvariant'
<1>1. PICK j : j = jobs[w]
  OBVIOUS
<1>2. /\ j.at \in {"reply", "answer", "clarify"} /\ j \in Job /\ HandlerHolds(j) /\ HandsHold(j)
      /\ j.conversation \in Opened /\ j.followup = None
  BY <1>1, JobHolds DEF ChatReply
<1> DEFINE answered == [j EXCEPT !.at = "plan", !.seen = SeenOf(conversations[j.conversation])]
           clarified == [j EXCEPT !.at = "keep"]
<1>3. SeenOf(conversations[j.conversation]) \in Seen
  BY <1>2, OpenedIsRecord
<1>4. clarified \in Job /\ answered \in Job
  <2>1. clarified \in Job
    BY <1>2 DEF Job, Stage
  <2>2. [j EXCEPT !.at = "plan"] \in Job
    BY <1>2 DEF Job, Stage
  <2>3. answered \in Job
    BY <1>3, <2>2 DEF Job
  <2> QED
    BY <2>1, <2>3
<1>5. j.at = "clarify" => HandlerHolds(clarified) /\ HandsHold(clarified) /\ clarified.at # "ask"
  BY <1>2 DEF Job, HandlerHolds, HandsHold
<1>6. j.at = "answer" => HandlerHolds(answered) /\ HandsHold(answered) /\ answered.at # "ask"
  BY <1>2, <1>3 DEF Job, HandlerHolds, HandsHold
<1>7. CASE Touch(j.conversation) /\ disclosed' = disclosed \cup ({j.pending} \ {None})
           /\ UNCHANGED <<version, ledger, linked, source, followupLock>>
  <2>1. disclosed' \subseteq Issued
    BY <1>2, <1>7 DEF HandsHold, SessionInvariant, SessionTypeOK
  <2>2. PICK k \in {Idle, clarified, answered} : Goto(w, k) /\ HandlerHolds(k) /\ HandsHold(k) /\ k.at # "ask"
    <3>1. CASE j.at = "reply"
      BY <1>1, <1>7, <3>1, IdleIsJob DEF ChatReply, Done, Touch
    <3>2. CASE j.at = "answer"
      BY <1>1, <1>6, <1>7, <3>2 DEF ChatReply, Touch
    <3>3. CASE j.at = "clarify"
      BY <1>1, <1>5, <1>7, <3>3 DEF ChatReply, Touch
    <3> QED
      BY <1>2, <3>1, <3>2, <3>3
  <2>3. k \in Job
    BY <1>4, <2>2, IdleIsJob
  <2> QED
    BY <1>1, <1>2, <1>7, <2>1, <2>2, <2>3, HandlerTouches DEF Touch
<1>8. CASE Done(w) /\ OnlyJob
  BY <1>1, <1>2, <1>8, DoneKeeps
<1> QED
  BY <1>1, <1>7, <1>8 DEF ChatReply

\* Kept candidates are the only thing a clarification writes.
LEMMA ChatKeepKeeps ==
  ASSUME SessionInvariant, NEW w \in Worker, ChatKeep(w)
  PROVE  SessionInvariant'
<1>1. PICK j : j = jobs[w]
  OBVIOUS
<1>2. /\ j.at = "keep" /\ j \in Job /\ j.conversation \in Opened /\ j.followup = None
      /\ j.base \in Nat \cup {None}
  BY <1>1, JobHolds DEF ChatKeep, Job
<1>3. CASE Replace(j.conversation, [conversations[j.conversation] EXCEPT !.candidates = j.base])
           /\ OnlyConversations
  BY <1>1, <1>2, <1>3, IdleIsJob, HandlerTouches DEF OnlyConversations, ChatKeep, Done
<1>4. CASE OnlyJob
  BY <1>1, <1>2, <1>4, DoneKeeps DEF ChatKeep
<1> QED
  BY <1>1, <1>3, <1>4 DEF ChatKeep

\* The exchange about a proposal leaves the workflow where it is.
LEMMA ChatRecordKeeps ==
  ASSUME SessionInvariant, NEW w \in Worker, ChatRecord(w)
  PROVE  SessionInvariant'
<1>1. PICK j : j = jobs[w]
  OBVIOUS
<1>2. /\ j.at = "record" /\ j \in Job /\ HandlerHolds(j) /\ HandsHold(j)
      /\ j.conversation \in Opened /\ j.followup = None
  BY <1>1, JobHolds DEF ChatRecord
<1> DEFINE dropping == [j EXCEPT !.at = "drop"]
<1>3. dropping \in Job /\ HandlerHolds(dropping) /\ HandsHold(dropping) /\ dropping.at # "ask"
  BY <1>2 DEF Job, Stage, HandlerHolds, HandsHold
<1>4. CASE Touch(j.conversation) /\ OnlyConversations /\ (Goto(w, dropping) \/ Done(w))
  <2>1. PICK k \in {Idle, dropping} : Goto(w, k)
    BY <1>4 DEF Done
  <2>2. k \in Job /\ HandlerHolds(k) /\ HandsHold(k) /\ k.at # "ask"
    BY <1>3, <2>1, IdleIsJob
  <2> QED
    BY <1>1, <1>2, <1>4, <2>1, <2>2, HandlerTouches DEF Touch, OnlyConversations
<1>5. CASE Done(w) /\ OnlyJob
  BY <1>1, <1>2, <1>5, DoneKeeps
<1> QED
  BY <1>1, <1>4, <1>5 DEF ChatRecord

\* The consumed candidates are the only thing that is dropped.
LEMMA ChatDropKeeps ==
  ASSUME SessionInvariant, NEW w \in Worker, ChatDrop(w)
  PROVE  SessionInvariant'
<1>1. PICK j : j = jobs[w]
  OBVIOUS
<1>2. j.at = "drop" /\ j.conversation \in Opened /\ j.followup = None
  BY <1>1, JobHolds DEF ChatDrop
<1>3. CASE Replace(j.conversation, [conversations[j.conversation] EXCEPT !.candidates = None])
           /\ OnlyConversations
  BY <1>1, <1>2, <1>3, IdleIsJob, HandlerTouches DEF OnlyConversations, ChatDrop, Done
<1>4. CASE OnlyJob
  BY <1>1, <1>2, <1>4, DoneKeeps DEF ChatDrop
<1> QED
  BY <1>1, <1>3, <1>4 DEF ChatDrop

(***************************************************************************)
(* A recorded proposal is at home, and everything else stays.              *)
(***************************************************************************)
LEMMA RecordedIsHome ==
  ASSUME SessionInvariant, NEW p \in ProposalId, NEW r \in Request, NEW base \in Nat,
         NEW undo_of \in ProposalId \cup {None}, Issue(p, r, base, undo_of), UNCHANGED conversations
  PROVE  Grows /\ Home(p, r)' /\ Issued' = Issued \cup {p}
<1> DEFINE record == [request |-> r, base |-> base, status |-> "pending", undo_of |-> undo_of]
<1>1. /\ ledger \in [ProposalId -> Lifecycle \cup {Absent}]
      /\ ledger' = [ledger EXCEPT ![p] = record]
      /\ ledger[p] = Absent
  BY DEF SessionInvariant, SessionTypeOK, ContractTypeOK, Issue
<1>2. record # Absent
  BY ContractAssumption DEF Lifecycle
<1>3. /\ ledger'[p] = record
      /\ Issued' = Issued \cup {p}
      /\ \A q \in Issued : q # p /\ ledger'[q] = ledger[q]
  BY <1>1, <1>2 DEF Issued
<1> QED
  BY <1>3 DEF Grows, Opened, Home

(***************************************************************************)
(* A handler records a proposal on the current version and moves on.       *)
(***************************************************************************)
LEMMA HandlerProposes ==
  ASSUME SessionInvariant, NEW w \in Worker, NEW p \in ProposalId, NEW r \in Request,
         NEW origin \in Source, NewProposal(p, r, origin), disclosed' \subseteq disclosed \cup {p},
         NEW k \in Job, HandlerHolds(k), HandsHold(k)', k.at # "ask", Goto(w, k),
         jobs[w].followup = None, origin = "deferred_followup" => k.followup = p
  PROVE  SessionInvariant'
<1>1. jobs \in [Worker -> Job] /\ version[r] \in Nat
  BY DEF SessionInvariant, SessionTypeOK, ContractTypeOK
<1>2. /\ jobs' \in [Worker -> Job]
      /\ jobs'[w] = k
      /\ \A v \in Worker \ {w} : jobs'[v] = jobs[v]
  BY <1>1 DEF Goto
<1>3. HandsHold(jobs[w])'
  BY <1>2
<1>4. PICK Movers \in SUBSET Worker : Movers = {w}
  OBVIOUS
<1>5. \A v \in Movers :
         /\ (HandlerHolds(jobs[v]) /\ HandsHold(jobs[v]))'
         /\ jobs'[v].at # "ask"
         /\ jobs[v].followup = None \/ jobs'[v].followup = jobs[v].followup
  BY <1>2, <1>3, <1>4
<1>6. PICK base \in Nat : base = version[r]
  BY <1>1
<1>7. PICK undo_of \in ProposalId \cup {None} : undo_of = None
  OBVIOUS
<1>8. /\ Issue(p, r, base, undo_of)
      /\ source' = [source EXCEPT ![p] = origin]
      /\ UNCHANGED <<conversations, fresh, linked, followupLock>>
  BY <1>6, <1>7 DEF NewProposal
<1>9. origin = "deferred_followup" => \E v \in Movers : jobs'[v].followup = p
  BY <1>2, <1>4
<1>10. \A v \in Worker \ Movers : jobs'[v] = jobs[v]
  BY <1>2, <1>4
<1>11. Records(p, origin, Movers) /\ Issue(p, r, base, undo_of)
  BY <1>2, <1>8, <1>9, <1>10, <1>5 DEF Records
<1> QED
  BY <1>11, ProposalMoves

\* A chat takes the proposal it created into its hands.
LEMMA ChatCreateKeeps ==
  ASSUME SessionInvariant, NEW w \in Worker, ChatCreate(w)
  PROVE  SessionInvariant'
<1>1. PICK j : j = jobs[w]
  OBVIOUS
<1>2. /\ j.at = "create" /\ j \in Job /\ HandlerHolds(j) /\ HandsHold(j)
      /\ j.conversation \in Opened /\ j.followup = None /\ j.request \in Request
      /\ j.handler = "chat" /\ j.seen \in Seen
  BY <1>1, JobHolds DEF ChatCreate, HandlerHolds
<1>3. ASSUME NEW p \in ProposalId, NewProposal(p, j.request, "main_agent_decision"), UNCHANGED disclosed,
             Goto(w, [j EXCEPT !.at = "dispatch", !.proposal = p, !.base = None])
      PROVE  SessionInvariant'
  <2> DEFINE k == [j EXCEPT !.at = "dispatch", !.proposal = p, !.base = None]
  <2>1. k \in Job
    <3>1. [j EXCEPT !.at = "dispatch"] \in Job
      BY <1>2, JobAt DEF Stage
    <3>2. [j EXCEPT !.at = "dispatch", !.proposal = p] \in Job
      BY <3>1 DEF Job
    <3> QED
      BY <3>2 DEF Job
  <2>2. HandlerHolds(k) /\ k.at # "ask"
    BY <1>2 DEF HandlerHolds, Job
  <2>3. HandsHold(j)' /\ Home(p, j.request)'
    <3>1. version[j.request] \in Nat
      BY <1>2 DEF SessionInvariant, SessionTypeOK, ContractTypeOK
    <3>2. Grows /\ Home(p, j.request)'
      BY <1>2, <1>3, <3>1, RecordedIsHome DEF NewProposal
    <3> QED
      BY <1>2, <3>2, HandsStay
  <2>4. HandsHold(k)'
    BY <1>2, <2>3 DEF HandsHold, Job
  <2> QED
    BY <1>1, <1>2, <1>3, <2>1, <2>2, <2>4, HandlerProposes DEF Source
<1>4. CASE /\ Goto(w, [j EXCEPT !.at = "reply", !.seen = None, !.base = None,
                                !.pending = PendingOf(j.request)])
           /\ OnlyJob
  <2> DEFINE k == [j EXCEPT !.at = "reply", !.seen = None, !.base = None,
                            !.pending = PendingOf(j.request)]
  <2>1. PendingOf(j.request) \in Issued \cup {None} /\ Issued \subseteq ProposalId
    BY PendingIsIssued DEF Issued
  <2>2. k \in Job
    <3>1. [j EXCEPT !.at = "reply"] \in Job
      BY <1>2, JobAt DEF Stage
    <3>2. [j EXCEPT !.at = "reply", !.seen = None] \in Job
      BY <3>1 DEF Job
    <3>3. [j EXCEPT !.at = "reply", !.seen = None, !.base = None] \in Job
      BY <3>2 DEF Job
    <3>4. PendingOf(j.request) \in ProposalId \cup {None}
      BY <2>1
    <3> QED
      BY <3>3, <3>4 DEF Job
  <2>3. HandlerHolds(k) /\ HandsHold(k) /\ k.at # "ask" /\ k.followup = None
    BY <1>2, <2>1 DEF HandlerHolds, HandsHold, Job
  <2> QED
    BY <1>1, <1>2, <1>4, <2>2, <2>3, JobMoves
<1>5. CASE Done(w) /\ OnlyJob
  BY <1>1, <1>2, <1>5, DoneKeeps
<1> QED
  BY <1>1, <1>3, <1>4, <1>5 DEF ChatCreate

\* A message starts with what it read of an active conversation.
LEMMA MessageReadKeeps ==
  ASSUME SessionInvariant, NEW w \in Worker, NEW c \in Conversation, MessageRead(w, c)
  PROVE  SessionInvariant'
<1> DEFINE k == [Idle EXCEPT !.at = "extract", !.handler = "message", !.conversation = c,
                             !.request = conversations[c].request,
                             !.seen = SeenOf(conversations[c]),
                             !.base = version[conversations[c].request]]
<1>1. c \in Opened /\ jobs[w] = Idle /\ Goto(w, k) /\ OnlyJob
  BY DEF MessageRead, Begin, Active
<1>2. conversations[c].request \in Request /\ SeenOf(conversations[c]) \in Seen
  BY <1>1, OpenedIsRecord DEF Record
<1>3. version[conversations[c].request] \in Nat
  BY <1>2 DEF SessionInvariant, SessionTypeOK, ContractTypeOK
<1>4. k \in Job
  BY <1>2, <1>3 DEF Idle, Job, AllHandlers, Stage
<1>5. HandlerHolds(k) /\ HandsHold(k)
  BY <1>1, <1>2 DEF Idle, HandlerHolds, HandsHold
<1> QED
  BY <1>1, <1>4, <1>5, JobMoves DEF Idle

\* A message without a patch ends where it began.
LEMMA MessageEndKeeps ==
  ASSUME SessionInvariant, NEW w \in Worker, MessageEnd(w)
  PROVE  SessionInvariant'
BY JobHolds, DoneKeeps DEF MessageEnd

\* A message, or a correction, takes the proposal it created into its hands.
LEMMA MessageCreateKeeps ==
  ASSUME SessionInvariant, NEW w \in Worker, MessageCreate(w) \/ MessageCorrect(w)
  PROVE  SessionInvariant'
<1>1. PICK j : j = jobs[w]
  OBVIOUS
<1>2. /\ j.at = "extract" /\ j \in Job /\ HandlerHolds(j) /\ HandsHold(j)
      /\ j.conversation \in Opened /\ j.followup = None /\ j.request \in Request
      /\ j.handler = "message" /\ j.seen \in Seen
  BY <1>1, JobHolds DEF MessageCreate, MessageCorrect, HandlerHolds
<1>3. ASSUME NEW p \in ProposalId, NewProposal(p, j.request, "orchestrator_llm"),
             disclosed' \subseteq disclosed \cup {p}, NEW at \in {"dispatch", "register"},
             Goto(w, [j EXCEPT !.at = at, !.proposal = p, !.base = None])
      PROVE  SessionInvariant'
  <2> DEFINE k == [j EXCEPT !.at = at, !.proposal = p, !.base = None]
  <2>1. k \in Job
    <3>1. [j EXCEPT !.at = at] \in Job
      BY <1>2, JobAt DEF Stage
    <3>2. [j EXCEPT !.at = at, !.proposal = p] \in Job
      BY <3>1 DEF Job
    <3> QED
      BY <3>2 DEF Job
  <2>2. HandlerHolds(k) /\ k.at # "ask"
    BY <1>2 DEF HandlerHolds, Job
  <2>3. HandsHold(j)' /\ Home(p, j.request)'
    <3>1. version[j.request] \in Nat
      BY <1>2 DEF SessionInvariant, SessionTypeOK, ContractTypeOK
    <3>2. Grows /\ Home(p, j.request)'
      BY <1>2, <1>3, <3>1, RecordedIsHome DEF NewProposal
    <3> QED
      BY <1>2, <3>2, HandsStay
  <2>4. HandsHold(k)'
    BY <1>2, <2>3 DEF HandsHold, Job
  <2>5. "orchestrator_llm" \in Source
    BY DEF Source
  <2>6. Goto(w, k) /\ jobs[w].followup = None
    BY <1>1, <1>2, <1>3
  <2> HIDE DEF k
  <2> QED
    BY <1>2, <1>3, <2>1, <2>2, <2>4, <2>5, <2>6, HandlerProposes
<1>4. CASE MessageCreate(w)
  <2>1. PICK p \in ProposalId :
          /\ NewProposal(p, j.request, "orchestrator_llm") /\ UNCHANGED disclosed
          /\ Goto(w, [j EXCEPT !.at = "dispatch", !.proposal = p, !.base = None])
    BY <1>1, <1>4 DEF MessageCreate
  <2> QED
    BY <1>3, <2>1
<1>5. CASE MessageCorrect(w)
  <2>1. PICK p \in ProposalId :
          /\ NewProposal(p, j.request, "orchestrator_llm") /\ disclosed' = disclosed \cup {p}
          /\ Goto(w, [j EXCEPT !.at = "register", !.proposal = p, !.base = None])
    BY <1>1, <1>5 DEF MessageCorrect
  <2> QED
    BY <1>3, <2>1
<1> QED
  BY <1>4, <1>5

-----------------------------------------------------------------------------
(* The steps that move the workflow.                                       *)

\* The projection of an open conversation.
LEMMA ContextOfOpened ==
  ASSUME SessionInvariant, NEW c \in Opened
  PROVE  ContextOf(c) \in Context
BY OpenedIsRecord DEF ContextOf, Context, Record

(***************************************************************************)
(* The outcome of a dispatch is a wait for what was created, or the end of *)
(* a wait.                                                                 *)
(***************************************************************************)
LEMMA DispatchMoves ==
  ASSUME SessionInvariant, NEW w \in Worker, jobs[w].at = "dispatch",
         NEW out, out = DispatchOutcome(jobs[w]), out # Rejected
  PROVE  /\ out \in Context
         /\ out.workflow = "awaiting_proposal_approval" =>
              Home(out.proposal, jobs[w].request)
         /\ jobs[w].handler # "decide" \/ jobs[w].followup # None =>
              out.workflow = "awaiting_proposal_approval"
<1>1. PICK j : j = jobs[w]
  OBVIOUS
<1>2. /\ j.at = "dispatch" /\ j \in Job /\ HandlerHolds(j) /\ HandsHold(j)
      /\ j.conversation \in Conversation /\ j.proposal \in ProposalId
  BY <1>1, JobHolds DEF HandlerHolds
<1>3. /\ j.conversation \in Opened /\ Home(j.proposal, j.request)
      /\ j.followup # None => Home(j.followup, j.request)
  BY <1>2, SessionAssumption, ContractAssumption DEF HandsHold
<1>4. PICK c \in Context : c = ContextOf(j.conversation)
  BY <1>3, ContextOfOpened
<1>9. out = DispatchOutcome(j) /\ c = ContextOf(j.conversation)
  BY <1>1, <1>4
<1>5. CASE j.handler # "decide"
  <2>1. out = Created(c, j.seen.workflow, j.proposal)
    BY <1>5, <1>9 DEF DispatchOutcome
  <2>2. j.seen.workflow \in WorkflowState
    BY <1>2, <1>5 DEF HandlerHolds, Seen
  <2>3. out \in Context /\ out.workflow = "awaiting_proposal_approval" /\ out.proposal = j.proposal
    BY <1>2, <2>1, <2>2, CreatedOutcome
  <2> QED
    BY <1>1, <1>3, <2>3
<1>6. CASE j.handler = "decide" /\ j.followup # None
  <2>1. PICK d : d = Continued(c, j.proposal)
    OBVIOUS
  <2>2. out = Then(d, [type |-> "proposal_created", proposal |-> j.followup])
    BY <1>6, <1>9, <2>1 DEF DispatchOutcome, ProposalCreated
  <2>3. d # Rejected
    BY <2>2 DEF Then
  <2>4. d \in Context
    BY <1>2, <2>1, <2>3, ContinuedOutcome
  <2>5. j.followup \in ProposalId
    BY <1>2, <1>6 DEF Job
  <2>6. out \in Context /\ <<d.workflow, "proposal_created", out.workflow>> \in Moves
        /\ out.proposal = j.followup
    BY <2>2, <2>4, <2>5, ThenMoves
  <2> QED
    BY <1>1, <1>3, <1>6, <2>6, WaitsForCreated
<1>7. CASE j.handler = "decide" /\ j.followup = None /\ ledger[j.proposal].status \in {"approved", "rejected"}
  <2>1. out = Continued(c, j.proposal)
    BY <1>7, <1>9 DEF DispatchOutcome
  <2>2. out \in Context /\ out.workflow # "awaiting_proposal_approval"
    BY <1>2, <2>1, ContinuedOutcome
  <2> QED
    BY <1>1, <1>7, <2>2
<1>8. CASE j.handler = "decide" /\ j.followup = None /\ ledger[j.proposal].status \notin {"approved", "rejected"}
  <2>1. out = Transition(c, [type |-> "proposal_terminal", proposal |-> j.proposal])
    BY <1>8, <1>9 DEF DispatchOutcome, ProposalTerminal
  <2>2. out \in Context /\ <<c.workflow, "proposal_terminal", out.workflow>> \in Moves
    BY <1>2, <2>1, TransitionMoves
  <2>3. out.workflow # "awaiting_proposal_approval"
    BY <2>2, WaitsForCreated
  <2> QED
    BY <1>1, <1>8, <2>2, <2>3
<1> QED
  BY <1>5, <1>6, <1>7, <1>8

(***************************************************************************)
(* A thread whose dispatch failed takes its follow-up back or gives up.    *)
(***************************************************************************)
LEMMA DispatchFailedKeeps ==
  ASSUME SessionInvariant, NEW w \in Worker, DispatchFailed(w), jobs[w].at \in {"dispatch", "persist"}
  PROVE  SessionInvariant'
<1>1. PICK j : j = jobs[w]
  OBVIOUS
<1>2. j \in Job /\ HandlerHolds(j) /\ HandsHold(j) /\ j.at \in {"dispatch", "persist"}
  BY <1>1, JobHolds
<1>3. CASE j.followup # None /\ Goto(w, [j EXCEPT !.at = "expire", !.outcome = None]) /\ OnlyJob
  <2> DEFINE k == [j EXCEPT !.at = "expire", !.outcome = None]
  <2>1. k \in Job
    <3>1. [j EXCEPT !.at = "expire"] \in Job
      BY <1>2, JobAt DEF Stage
    <3> QED
      BY <3>1 DEF Job
  <2>2. HandlerHolds(k) /\ k.at # "ask" /\ k.followup = j.followup
    BY <1>2, <1>3 DEF HandlerHolds, HandsHold, Job
  <2>3. HandsHold(k)
    BY <1>2, <1>3 DEF HandsHold, Job
  <2>4. Goto(w, k) /\ OnlyJob
    BY <1>3
  <2> HIDE DEF k
  <2> QED
    BY <1>1, <2>1, <2>2, <2>3, <2>4, JobMoves
<1>4. CASE j.followup = None /\ Done(w) /\ OnlyJob
  BY <1>1, <1>4, DoneKeeps
<1> QED
  BY <1>1, <1>3, <1>4 DEF DispatchFailed

\* The outcome of a dispatch is about a proposal of the same request.
LEMMA DispatchReadKeeps ==
  ASSUME SessionInvariant, NEW w \in Worker, DispatchRead(w)
  PROVE  SessionInvariant'
<1>1. PICK j : j = jobs[w]
  OBVIOUS
<1>2. j \in Job /\ HandlerHolds(j) /\ HandsHold(j) /\ j.at = "dispatch"
  BY <1>1, JobHolds DEF DispatchRead
<1>3. ASSUME NEW out, out = DispatchOutcome(j), out # Rejected,
             Goto(w, [j EXCEPT !.at = "persist", !.outcome = out]), OnlyJob
      PROVE  SessionInvariant'
  <2> DEFINE k == [j EXCEPT !.at = "persist", !.outcome = out]
  <2>1. /\ out \in Context
        /\ out.workflow = "awaiting_proposal_approval" => Home(out.proposal, j.request)
        /\ j.handler # "decide" \/ j.followup # None => out.workflow = "awaiting_proposal_approval"
    BY <1>1, <1>2, <1>3, DispatchMoves
  <2>2. k \in Job
    <3>1. [j EXCEPT !.at = "persist"] \in Job
      BY <1>2, JobAt DEF Stage
    <3> QED
      BY <2>1, <3>1 DEF Job
  <2>3. HandlerHolds(k) /\ k.at # "ask" /\ k.followup = j.followup
    BY <1>2 DEF HandlerHolds, Job
  <2>4. HandsHold(k)
    BY <1>2, <2>1 DEF HandsHold, Job
  <2>5. Goto(w, k) /\ OnlyJob
    BY <1>3
  <2> HIDE DEF k
  <2> QED
    BY <1>1, <2>2, <2>3, <2>4, <2>5, JobMoves
<1>4. CASE DispatchFailed(w)
  BY <1>1, <1>2, <1>4, DispatchFailedKeeps
<1> QED
  BY <1>1, <1>3, <1>4 DEF DispatchRead

(***************************************************************************)
(* What an outcome makes of a conversation of the same request.            *)
(***************************************************************************)
LEMMA MovedHolds ==
  ASSUME SessionInvariant, NEW c \in Opened, NEW out \in Context,
         out.workflow = "awaiting_proposal_approval" => Home(out.proposal, conversations[c].request)
  PROVE  RecordHolds(Moved(c, out), conversations[c].request)
<1>1. conversations[c] \in Record
  BY OpenedIsRecord
<1> QED
  BY <1>1 DEF RecordHolds, Moved, Record, Context

\* An outcome is written to an active conversation of its own request.
LEMMA DispatchPersistKeeps ==
  ASSUME SessionInvariant, NEW w \in Worker, DispatchPersist(w)
  PROVE  SessionInvariant'
<1>1. PICK j : j = jobs[w]
  OBVIOUS
<1>2. j \in Job /\ HandlerHolds(j) /\ HandsHold(j) /\ j.at = "persist"
  BY <1>1, JobHolds DEF DispatchPersist
<1>3. CASE /\ Active(j.conversation) /\ Replace(j.conversation, Moved(j.conversation, j.outcome))
           /\ UNCHANGED <<version, ledger, linked, source, followupLock>>
  <2>1. /\ j.conversation \in Opened /\ conversations[j.conversation].request = j.request
        /\ j.outcome \in Context
        /\ j.outcome.workflow = "awaiting_proposal_approval" => Home(j.outcome.proposal, j.request)
    BY <1>2, <1>3, SessionAssumption DEF HandsHold, HandlerHolds, Active
  <2>2. RecordHolds(Moved(j.conversation, j.outcome), conversations[j.conversation].request)
    BY <2>1, MovedHolds
  <2>3. CASE j.handler = "decide" /\ j.followup = None
    <3>1. Goto(w, Idle) /\ disclosed' \subseteq Issued
      BY <1>1, <1>2, <1>3, <2>3 DEF DispatchPersist, Done, Active, SessionInvariant, SessionTypeOK, DispatchFailed
    <3> QED
      BY <1>1, <1>3, <2>1, <2>2, <2>3, <3>1, IdleIsJob, HandlerWrites
  <2>4. CASE j.handler # "decide" \/ j.followup # None
    <3> DEFINE k == [j EXCEPT !.at = "register", !.outcome = None]
    <3>1. k \in Job
      <4>1. [j EXCEPT !.at = "register"] \in Job
        BY <1>2, JobAt DEF Stage
      <4> QED
        BY <4>1 DEF Job
    <3>2. HandlerHolds(k) /\ k.at # "ask" /\ k.followup = j.followup
      BY <1>2 DEF HandlerHolds, Job
    <3>3. HandsHold(k)
      BY <1>2 DEF HandsHold, Job
    <3>4. Goto(w, k) /\ disclosed' = disclosed \cup {j.outcome.proposal}
      BY <1>1, <1>3, <2>4 DEF DispatchPersist
    <3>5. j.outcome.proposal \in Issued
      BY <1>2, <2>1, <2>4 DEF HandsHold, Home
    <3>6. disclosed' \subseteq Issued
      BY <3>4, <3>5 DEF SessionInvariant, SessionTypeOK
    <3> HIDE DEF k
    <3> QED
      BY <1>1, <1>3, <2>1, <2>2, <3>1, <3>2, <3>3, <3>4, <3>6, HandlerWrites
  <2> QED
    BY <2>3, <2>4
<1>4. CASE DispatchFailed(w)
  BY <1>1, <1>2, <1>4, DispatchFailedKeeps
<1> QED
  BY <1>1, <1>3, <1>4 DEF DispatchPersist

(***************************************************************************)
(* The registration links a proposal to a conversation of its request; a   *)
(* follow-up that leaves the decision's hands is linked from then on.      *)
(***************************************************************************)
LEMMA RegisterKeeps ==
  ASSUME SessionInvariant, NEW w \in Worker, Register(w)
  PROVE  SessionInvariant'
<1>1. PICK j : j = jobs[w]
  OBVIOUS
<1>2. /\ j \in Job /\ HandlerHolds(j) /\ HandsHold(j) /\ j.at = "register"
      /\ jobs \in [Worker -> Job]
      /\ linked \in [ProposalId -> Conversation \cup {None}]
  BY <1>1, JobHolds DEF Register, SessionInvariant, SessionTypeOK
<1>3. /\ j.conversation \in Conversation /\ j.conversation # None /\ j.conversation \in Opened
      /\ conversations[j.conversation].request = j.request
      /\ j.proposal \in ProposalId /\ Home(j.proposal, j.request)
      /\ j.followup # None => j.followup \in ProposalId /\ Home(j.followup, j.request)
  BY <1>2, SessionAssumption, ContractAssumption DEF HandlerHolds, HandsHold, Job
<1>4. PICK p : p = IF j.followup # None THEN j.followup ELSE j.proposal
  OBVIOUS
<1>5. p \in ProposalId /\ Home(p, j.request)
  BY <1>3, <1>4
<1>6. /\ linked' = [linked EXCEPT ![p] = j.conversation]
      /\ followupLock' \in Worker \cup {None}
      /\ UNCHANGED <<version, ledger, conversations, fresh, source, disclosed>>
  BY <1>1, <1>4 DEF Register, SessionInvariant, SessionTypeOK
<1> DEFINE recording == [j EXCEPT !.at = "record"]
<1>7. recording \in Job
  BY <1>2, JobAt DEF Stage
<1>8. j.handler = "chat" => HandlerHolds(recording) /\ HandsHold(recording) /\ recording.at # "ask"
  BY <1>2 DEF HandlerHolds, HandsHold, Job
<1>9. PICK k \in Job : Goto(w, k) /\ HandlerHolds(k) /\ HandsHold(k) /\ k.at # "ask"
  <2>1. CASE j.handler = "chat"
    BY <1>1, <1>7, <1>8, <2>1 DEF Register
  <2>2. CASE j.handler # "chat"
    BY <1>1, <2>2, IdleIsJob DEF Register, Done
  <2> QED
    BY <2>1, <2>2
<1>10. /\ jobs' \in [Worker -> Job]
       /\ jobs'[w] = k
       /\ \A v \in Worker \ {w} : jobs'[v] = jobs[v]
  BY <1>2, <1>9 DEF Goto
<1>11. /\ linked' \in [ProposalId -> Conversation \cup {None}]
       /\ linked'[p] = j.conversation
       /\ \A q \in ProposalId \ {p} : linked'[q] = linked[q]
  BY <1>2, <1>3, <1>5, <1>6
<1>12. Grows
  BY <1>6 DEF Grows, Issued, Opened
<1>13. SessionTypeOK'
  BY <1>6, <1>10, <1>11 DEF SessionInvariant, SessionTypeOK, ContractTypeOK, Issued
<1>14. \A v \in Worker \ {w} : jobs'[v] = jobs[v] /\ StillFresh(v)
  BY <1>6, <1>10 DEF StillFresh
<1>15. HandsHold(k)'
  BY <1>9, <1>12, HandsStay
<1>16. \A v \in {w} : (HandlerHolds(jobs[v]) /\ HandsHold(jobs[v]) /\ SnapshotHolds(v))'
  BY <1>9, <1>10, <1>15 DEF SnapshotHolds
<1>17. (\A c \in Opened : ConversationHolds(c))'
  BY <1>6 DEF SessionInvariant, ConversationHolds, Home, Opened, Issued
<1>18. (\A q \in ProposalId : LinkHolds(q))'
  <2>1. ASSUME NEW q \in ProposalId
        PROVE  LinkHolds(q)'
    <3>1. CASE q = p
      BY <1>3, <1>5, <1>6, <1>11, <3>1 DEF LinkHolds, Home, Opened, Issued
    <3>2. CASE q # p
      <4>1. LinkHolds(q)
        BY DEF SessionInvariant
      <4> QED
        BY <1>6, <1>11, <3>2, <4>1 DEF LinkHolds, Home, Opened, Issued
    <3> QED
      BY <3>1, <3>2
  <2> QED
    BY <2>1
<1>19. FollowupIsShown'
  <2> SUFFICES ASSUME NEW q \in Issued', source'[q] = "deferred_followup",
                      ledger'[q].status = "pending", linked'[q] = None
               PROVE  \E v \in Worker : jobs'[v].followup = q
    BY DEF FollowupIsShown
  <2>1. q \in Issued /\ q \in ProposalId /\ q # None /\ source[q] = "deferred_followup" /\ ledger[q].status = "pending"
    BY <1>6, ContractAssumption DEF Issued
  <2>2. q # p /\ linked[q] = None
    BY <1>3, <1>11, <2>1
  <2>3. PICK v \in Worker : jobs[v].followup = q
    BY <2>1, <2>2 DEF SessionInvariant, FollowupIsShown
  <2>4. v # w
    BY <1>1, <1>4, <2>1, <2>2, <2>3
  <2> QED
    BY <1>10, <2>3, <2>4
<1>20. {w} \in SUBSET Worker
  OBVIOUS
<1> QED
  BY <1>12, <1>13, <1>14, <1>16, <1>17, <1>18, <1>19, <1>20, StepKeeps

(***************************************************************************)
(* The outcome of a plan keeps to the rules of waiting, and a decision's   *)
(* plan is made in the wait for its own proposal.                          *)
(***************************************************************************)
LEMMA PlanMoves ==
  ASSUME SessionInvariant, NEW w \in Worker, jobs[w].at = "plan", NEW isQuestion \in BOOLEAN,
         NEW out, out = PlanOutcome(jobs[w], isQuestion), out # Rejected
  PROVE  /\ out \in Context
         /\ out.workflow = "awaiting_proposal_approval" => Home(out.proposal, jobs[w].request)
         /\ jobs[w].handler = "decide" => Awaits(jobs[w].conversation, jobs[w].proposal)
<1>1. PICK j : j = jobs[w]
  OBVIOUS
<1>2. /\ j \in Job /\ HandlerHolds(j) /\ HandsHold(j) /\ j.at = "plan"
      /\ j.conversation \in Opened /\ conversations[j.conversation].request = j.request
      /\ j.handler \in {"chat", "decide"}
  BY <1>1, JobHolds, SessionAssumption DEF HandlerHolds, HandsHold
<1>3. PICK c \in Context : c = ContextOf(j.conversation)
  BY <1>2, ContextOfOpened
<1>4. /\ c.workflow = conversations[j.conversation].workflow
      /\ c.proposal = conversations[j.conversation].proposal
  BY <1>3 DEF ContextOf
<1>5. CASE j.handler = "chat"
  <2>1. PICK d : d = Answered(c, j.seen.workflow)
    OBVIOUS
  <2>2. out = Asked(d, isQuestion)
    BY <1>1, <1>3, <1>5, <2>1 DEF PlanOutcome
  <2>3. d # Rejected
    BY <2>2 DEF Asked, Then
  <2>4. j.seen.workflow \in WorkflowState
    BY <1>2, <1>5 DEF HandlerHolds, Seen
  <2>5. d \in Context /\ (d.workflow = "awaiting_proposal_approval" => d = c)
    BY <2>1, <2>3, <2>4, AnsweredOutcome
  <2>6. out \in Context /\ (out.workflow = "awaiting_proposal_approval" => out = d)
    BY <2>2, <2>5, AskedOutcome
  <2>7. ConversationHolds(j.conversation)
    BY <1>2, OpenedIsRecord
  <2> QED
    BY <1>1, <1>2, <1>4, <1>5, <2>5, <2>6, <2>7 DEF ConversationHolds
<1>6. CASE j.handler = "decide"
  <2>1. PICK d : d = Continued(c, j.proposal)
    OBVIOUS
  <2>2. out = Asked(d, isQuestion)
    BY <1>1, <1>3, <1>6, <2>1 DEF PlanOutcome
  <2>3. d # Rejected
    BY <2>2 DEF Asked, Then
  <2>4. j.proposal \in ProposalId
    BY <1>2, <1>6 DEF HandlerHolds
  <2>5. /\ d \in Context /\ d.workflow # "awaiting_proposal_approval"
        /\ c.workflow = "awaiting_proposal_approval" /\ c.proposal = j.proposal
    BY <2>1, <2>3, <2>4, ContinuedOutcome
  <2>6. out \in Context /\ (out.workflow = "awaiting_proposal_approval" => out = d)
    BY <2>2, <2>5, AskedOutcome
  <2> QED
    BY <1>1, <1>2, <1>4, <2>5, <2>6 DEF Awaits
<1> QED
  BY <1>2, <1>5, <1>6

(***************************************************************************)
(* A plan that failed ends the chat and lets a decision fall back.         *)
(***************************************************************************)
LEMMA PlanFailedMoves ==
  ASSUME SessionInvariant, NEW w \in Worker, PlanFailed(w), jobs[w].at \in {"plan", "ask"}
  PROVE  \E k \in Job : /\ Goto(w, k) /\ HandlerHolds(k) /\ HandsHold(k)
                        /\ k.at # "ask" /\ k.followup = None
<1>1. PICK j : j = jobs[w]
  OBVIOUS
<1>2. j \in Job /\ HandlerHolds(j) /\ HandsHold(j) /\ j.at \in {"plan", "ask"}
  BY <1>1, JobHolds
<1>3. CASE j.handler = "chat"
  BY <1>1, <1>3, IdleIsJob DEF PlanFailed, Done
<1>4. CASE j.handler # "chat"
  <2> DEFINE k == [j EXCEPT !.at = "dispatch", !.outcome = None]
  <2>1. k \in Job
    <3>1. [j EXCEPT !.at = "dispatch"] \in Job
      BY <1>2, JobAt DEF Stage
    <3> QED
      BY <3>1 DEF Job
  <2>2. HandlerHolds(k) /\ k.at # "ask"
    BY <1>2, <1>4 DEF HandlerHolds, Job
  <2>3. HandsHold(k) /\ k.followup = None
    BY <1>2, <1>4 DEF HandsHold, Job
  <2>4. Goto(w, k)
    BY <1>1, <1>4 DEF PlanFailed
  <2> HIDE DEF k
  <2> QED
    BY <2>1, <2>2, <2>3, <2>4
<1> QED
  BY <1>3, <1>4

\* A planned question is worked out on the conversation as it was just read.
LEMMA PlanKeeps ==
  ASSUME SessionInvariant, NEW w \in Worker, Plan(w)
  PROVE  SessionInvariant'
<1>1. PICK j : j = jobs[w]
  OBVIOUS
<1>2. /\ j \in Job /\ HandlerHolds(j) /\ HandsHold(j) /\ j.at = "plan" /\ j.followup = None
      /\ jobs \in [Worker -> Job]
      /\ UNCHANGED <<version, ledger, conversations, linked, source, disclosed, followupLock>>
  BY <1>1, JobHolds DEF Plan, HandsHold, SessionInvariant, SessionTypeOK
<1>3. ASSUME NEW isQuestion \in BOOLEAN, NEW out, out = PlanOutcome(j, isQuestion), out # Rejected,
             Goto(w, [j EXCEPT !.at = "ask", !.outcome = out]), fresh' = fresh \cup {w}
      PROVE  SessionInvariant'
  <2> DEFINE k == [j EXCEPT !.at = "ask", !.outcome = out]
  <2>1. /\ out \in Context
        /\ out.workflow = "awaiting_proposal_approval" => Home(out.proposal, j.request)
        /\ j.handler = "decide" => Awaits(j.conversation, j.proposal)
    BY <1>1, <1>2, <1>3, PlanMoves
  <2>2. k \in Job
    <3>1. [j EXCEPT !.at = "ask"] \in Job
      BY <1>2, JobAt DEF Stage
    <3> QED
      BY <2>1, <3>1 DEF Job
  <2>3. HandlerHolds(k)
    BY <1>2 DEF HandlerHolds, Job
  <2>4. HandsHold(k)
    BY <1>2, <2>1 DEF HandsHold, Job
  <2>5. /\ k.handler = j.handler /\ k.conversation = j.conversation /\ k.proposal = j.proposal
        /\ k.followup = None
    BY <1>2 DEF Job
  <2>6. /\ jobs' \in [Worker -> Job]
        /\ jobs'[w] = k
        /\ \A v \in Worker \ {w} : jobs'[v] = jobs[v]
    BY <1>2, <1>3, <2>2 DEF Goto
  <2> HIDE DEF k
  <2>7. Grows
    BY <1>2 DEF Grows, Issued, Opened
  <2>8. SessionTypeOK'
    BY <1>2, <1>3, <2>6 DEF SessionInvariant, SessionTypeOK, ContractTypeOK, Issued
  <2>9. \A v \in Worker \ {w} : jobs'[v] = jobs[v] /\ StillFresh(v)
    BY <1>2, <1>3, <2>6 DEF StillFresh
  <2>10. HandsHold(k)'
    BY <2>4, <2>7, HandsStay
  <2>11. SnapshotHolds(w)'
    BY <1>2, <2>1, <2>5, <2>6 DEF SnapshotHolds, Awaits, Opened
  <2>12. \A v \in {w} : (HandlerHolds(jobs[v]) /\ HandsHold(jobs[v]) /\ SnapshotHolds(v))'
    BY <2>3, <2>6, <2>10, <2>11
  <2>13. (\A c \in Opened : ConversationHolds(c))' /\ (\A p \in ProposalId : LinkHolds(p))'
    BY <1>2 DEF SessionInvariant, ConversationHolds, LinkHolds, Home, Opened, Issued
  <2>14. FollowupIsShown'
    <3>1. \A v \in Worker, p \in Issued : jobs[v].followup = p => jobs'[v].followup = p
      BY <1>1, <1>2, <2>6, ContractAssumption DEF Issued
    <3> QED
      BY <1>2, <3>1, FollowupsStay DEF SessionInvariant
  <2>15. {w} \in SUBSET Worker
    OBVIOUS
  <2> QED
    BY <2>7, <2>8, <2>9, <2>12, <2>13, <2>14, <2>15, StepKeeps
<1>4. CASE PlanFailed(w) /\ UNCHANGED fresh
  <2>1. PICK k \in Job : /\ Goto(w, k) /\ HandlerHolds(k) /\ HandsHold(k)
                         /\ k.at # "ask" /\ k.followup = None
    BY <1>1, <1>2, <1>4, PlanFailedMoves
  <2> QED
    BY <1>1, <1>2, <1>4, <2>1, JobMoves DEF OnlyJob
<1> QED
  BY <1>1, <1>3, <1>4 DEF Plan

\* A question is written on an active conversation, or the plan has failed.
LEMMA AskKeeps ==
  ASSUME SessionInvariant, NEW w \in Worker, Ask(w)
  PROVE  SessionInvariant'
<1>1. PICK j : j = jobs[w]
  OBVIOUS
<1>2. /\ j \in Job /\ HandlerHolds(j) /\ HandsHold(j) /\ j.at = "ask" /\ j.followup = None
      /\ UNCHANGED <<version, ledger, linked, source, disclosed, followupLock>>
  BY <1>1, JobHolds DEF Ask, HandsHold, OnlyConversations
<1>3. CASE /\ Active(j.conversation) /\ Replace(j.conversation, Moved(j.conversation, j.outcome))
           /\ Done(w)
  <2>1. /\ j.conversation \in Opened /\ conversations[j.conversation].request = j.request
        /\ j.outcome \in Context
        /\ j.outcome.workflow = "awaiting_proposal_approval" => Home(j.outcome.proposal, j.request)
    BY <1>2, <1>3, SessionAssumption DEF HandsHold, HandlerHolds, Active
  <2>2. RecordHolds(Moved(j.conversation, j.outcome), conversations[j.conversation].request)
    BY <2>1, MovedHolds
  <2>3. Goto(w, Idle) /\ disclosed' \subseteq Issued
    BY <1>2, <1>3 DEF Done, SessionInvariant, SessionTypeOK
  <2> QED
    BY <1>1, <1>2, <1>3, <2>1, <2>2, <2>3, IdleIsJob, HandlerWrites
<1>4. CASE PlanFailed(w) /\ fresh' = fresh \ {w} /\ UNCHANGED conversations
  <2>1. PICK k \in Job : /\ Goto(w, k) /\ HandlerHolds(k) /\ HandsHold(k)
                         /\ k.at # "ask" /\ k.followup = None
    BY <1>1, <1>2, <1>4, PlanFailedMoves
  <2>2. /\ ContractTypeOK' /\ Issued' = Issued /\ followupLock' \in Worker \cup {None}
        /\ \A p \in Issued : /\ ledger'[p].request = ledger[p].request
                             /\ ledger'[p].status = "pending" => ledger[p].status = "pending"
    BY <1>2 DEF SessionInvariant, SessionTypeOK, ContractTypeOK, Issued
  <2> QED
    BY <1>1, <1>2, <1>4, <2>1, <2>2, LifecycleMoves
<1> QED
  BY <1>1, <1>3, <1>4 DEF Ask

-----------------------------------------------------------------------------
(* The steps of a decision and the other handlers.                         *)

(***************************************************************************)
(* A decision changes the status of one pending proposal at most.          *)
(***************************************************************************)
LEMMA DecideChanges ==
  ASSUME ContractTypeOK, NEW p \in ProposalId,
         NEW status \in {"approved", "rejected", "expired", "conflicted", "failed"}, Decide(p, status)
  PROVE  /\ ledger' \in [ProposalId -> Lifecycle \cup {Absent}]
         /\ Issued' = Issued
         /\ ledger'[p].status = status
         /\ \A q \in Issued : /\ ledger'[q].request = ledger[q].request
                              /\ ledger'[q].status = "pending" => ledger[q].status = "pending"
<1>1. /\ ledger \in [ProposalId -> Lifecycle \cup {Absent}]
      /\ p \in Issued
      /\ ledger[p] \in Lifecycle
      /\ ledger[p].status = "pending"
      /\ ledger' = [ledger EXCEPT ![p] = [ledger[p] EXCEPT !.status = status]]
  BY DEF ContractTypeOK, Decide, Issued
<1>2. /\ \A q \in ProposalId \ {p} : ledger'[q] = ledger[q]
      /\ ledger'[p] = [ledger[p] EXCEPT !.status = status]
  BY <1>1
<1>3. ledger'[p] \in Lifecycle
  BY <1>1, <1>2 DEF Lifecycle
<1>4. ledger'[p].request = ledger[p].request /\ ledger'[p].status = status /\ ledger'[p] # Absent
  BY <1>1, <1>2, <1>3, ContractAssumption DEF Lifecycle
<1>5. Issued' = Issued
  BY <1>1, <1>2, <1>4 DEF Issued
<1>6. ledger' \in [ProposalId -> Lifecycle \cup {Absent}]
  BY <1>1, <1>3
<1> QED
  BY <1>1, <1>2, <1>4, <1>5, <1>6 DEF Issued

(***************************************************************************)
(* A decision of a user is a step of the contract, or changes nothing.     *)
(***************************************************************************)
LEMMA ResolveIsContractStep ==
  ASSUME NEW p \in ProposalId, NEW decision \in {"approve", "reject"}, Resolve(p, decision)
  PROVE  Approve(p) \/ Conflict(p) \/ Decline(p) \/ UNCHANGED contractVars
BY DEF Resolve, Decline, contractVars

\* A decision issues nothing, moves no proposal, and makes none pending.
LEMMA ResolveChanges ==
  ASSUME ContractTypeOK, NEW p \in ProposalId,
         Approve(p) \/ Conflict(p) \/ Decline(p) \/ UNCHANGED contractVars
  PROVE  /\ ContractTypeOK' /\ Issued' = Issued
         /\ \A q \in Issued : /\ ledger'[q].request = ledger[q].request
                              /\ ledger'[q].status = "pending" => ledger[q].status = "pending"
<1>1. CASE UNCHANGED contractVars
  BY <1>1 DEF contractVars, ContractTypeOK, Issued
<1>2. CASE Approve(p) \/ Conflict(p) \/ Decline(p)
  <2>1. PICK status \in {"approved", "rejected", "expired", "conflicted", "failed"} : Decide(p, status)
    BY <1>2 DEF Approve, Conflict, Decline
  <2>2. version' \in [Request -> Nat]
    BY <1>2 DEF Approve, Conflict, Decline, ContractTypeOK
  <2> QED
    BY <2>1, <2>2, DecideChanges DEF ContractTypeOK
<1> QED
  BY <1>1, <1>2

\* A decision is taken on a proposal that was disclosed.
LEMMA TakeDecisionKeeps ==
  ASSUME SessionInvariant, NEW w \in Worker, NEW p \in ProposalId,
         NEW decision \in {"approve", "reject"}, TakeDecision(w, p, decision)
  PROVE  SessionInvariant'
<1> DEFINE k == [Idle EXCEPT !.at = "decided", !.handler = "decide", !.proposal = p,
                             !.request = ledger[p].request]
<1>1. /\ jobs[w] = Idle /\ p \in Issued /\ Resolve(p, decision) /\ Goto(w, k)
      /\ UNCHANGED <<conversations, fresh, linked, source, disclosed, followupLock>>
      /\ followupLock \in Worker \cup {None} /\ ContractTypeOK
  BY DEF TakeDecision, Begin, SessionInvariant, SessionTypeOK
<1>2. /\ ContractTypeOK' /\ Issued' = Issued
      /\ \A q \in Issued : /\ ledger'[q].request = ledger[q].request
                           /\ ledger'[q].status = "pending" => ledger[q].status = "pending"
  BY <1>1, ResolveIsContractStep, ResolveChanges
<1>3. ledger[p].request \in Request
  BY <1>1 DEF ContractTypeOK, Issued, Lifecycle
<1>4. k \in Job
  BY <1>3 DEF Idle, Job, AllHandlers, Stage
<1>5. HandlerHolds(k) /\ HandsHold(k) /\ k.at # "ask"
  BY <1>1, <1>3 DEF Idle, HandlerHolds, HandsHold, Home
<1>6. jobs[w].followup = None /\ fresh' \subseteq fresh /\ followupLock' \in Worker \cup {None}
  BY <1>1 DEF Idle
<1>7. Goto(w, k) /\ UNCHANGED <<conversations, linked, source, disclosed>>
  BY <1>1
<1> HIDE DEF k
<1> QED
  BY <1>2, <1>4, <1>5, <1>6, <1>7, LifecycleMoves

(***************************************************************************)
(* Forgotten candidates change neither the request nor the workflow of a   *)
(* conversation.                                                           *)
(***************************************************************************)
LEMMA ForgettingMoves ==
  ASSUME SessionInvariant, NEW r, ForgetCandidates(r) \/ UNCHANGED <<conversations, fresh>>,
         OnlyConversations, NEW w \in Worker, NEW k \in Job, Goto(w, k), HandlerHolds(k), HandsHold(k),
         k.at # "ask", jobs[w].followup = None
  PROVE  SessionInvariant'
<1>1. /\ conversations \in [Conversation -> Record \cup {Absent}]
      /\ jobs \in [Worker -> Job] /\ fresh \subseteq Worker
      /\ UNCHANGED <<version, ledger, linked, source, disclosed, followupLock>>
  BY DEF SessionInvariant, SessionTypeOK, OnlyConversations
<1>2. /\ jobs' \in [Worker -> Job]
      /\ jobs'[w] = k
      /\ \A v \in Worker \ {w} : jobs'[v] = jobs[v]
  BY <1>1 DEF Goto
<1>3. ASSUME NEW c \in Opened
      PROVE  /\ [conversations[c] EXCEPT !.candidates = None] \in Record
             /\ [conversations[c] EXCEPT !.candidates = None].request = conversations[c].request
             /\ [conversations[c] EXCEPT !.candidates = None].workflow = conversations[c].workflow
             /\ [conversations[c] EXCEPT !.candidates = None].proposal = conversations[c].proposal
  BY <1>1, OpenedIsRecord DEF Record
<1>4. /\ conversations' \in [Conversation -> Record \cup {Absent}]
      /\ Opened' = Opened
      /\ fresh' \subseteq fresh
      /\ \A c \in Opened : /\ conversations'[c].request = conversations[c].request
                           /\ conversations'[c].workflow = conversations[c].workflow
                           /\ conversations'[c].proposal = conversations[c].proposal
  <2>1. CASE UNCHANGED <<conversations, fresh>>
    BY <1>1, <2>1 DEF Opened
  <2>2. CASE ForgetCandidates(r)
    <3>1. PICK cleared \in SUBSET Opened :
            /\ conversations' = [c \in Conversation |->
                                   IF c \in cleared THEN [conversations[c] EXCEPT !.candidates = None]
                                   ELSE conversations[c]]
            /\ fresh' \subseteq fresh
      BY <2>2 DEF ForgetCandidates
    <3>2. ASSUME NEW c \in Conversation
          PROVE  /\ conversations'[c] \in Record \cup {Absent}
                 /\ conversations'[c] = Absent <=> conversations[c] = Absent
                 /\ c \in Opened => /\ conversations'[c].request = conversations[c].request
                                    /\ conversations'[c].workflow = conversations[c].workflow
                                    /\ conversations'[c].proposal = conversations[c].proposal
      <4>1. CASE c \in cleared
        <5>1. c \in Opened /\ conversations'[c] = [conversations[c] EXCEPT !.candidates = None]
          BY <3>1, <4>1
        <5>2. conversations[c] # Absent /\ conversations'[c] \in Record /\ conversations'[c] # Absent
          BY <1>3, <5>1, SessionAssumption DEF Opened
        <5> QED
          BY <1>3, <5>1, <5>2
      <4>2. CASE c \notin cleared
        BY <1>1, <3>1, <4>2
      <4> QED
        BY <4>1, <4>2
    <3>3. conversations' \in [Conversation -> Record \cup {Absent}]
      BY <3>1, <3>2
    <3>4. Opened' = Opened
      BY <3>2 DEF Opened
    <3> QED
      BY <3>1, <3>2, <3>3, <3>4 DEF Opened
  <2> QED
    BY <2>1, <2>2
<1>5. Grows
  BY <1>1, <1>4 DEF Grows, Issued
<1>6. SessionTypeOK'
  BY <1>1, <1>2, <1>4 DEF SessionInvariant, SessionTypeOK, ContractTypeOK, Issued
<1>7. \A v \in Worker \ {w} : jobs'[v] = jobs[v] /\ StillFresh(v)
  BY <1>2, <1>4 DEF StillFresh
<1>8. HandsHold(k)'
  BY <1>5, HandsStay
<1>9. \A v \in {w} : (HandlerHolds(jobs[v]) /\ HandsHold(jobs[v]) /\ SnapshotHolds(v))'
  BY <1>2, <1>8 DEF SnapshotHolds
<1>10. (\A c \in Opened : ConversationHolds(c))'
  BY <1>1, <1>4 DEF SessionInvariant, ConversationHolds, Home, Issued
<1>11. (\A p \in ProposalId : LinkHolds(p))'
  BY <1>1, <1>4 DEF SessionInvariant, LinkHolds, Home, Issued
<1>12. FollowupIsShown'
  <2>1. \A v \in Worker, p \in Issued : jobs[v].followup = p => jobs'[v].followup = p
    BY <1>2, ContractAssumption DEF Issued
  <2> QED
    BY <1>1, <2>1, FollowupsStay DEF SessionInvariant
<1>13. {w} \in SUBSET Worker
  OBVIOUS
<1> QED
  BY <1>5, <1>6, <1>7, <1>9, <1>10, <1>11, <1>12, <1>13, StepKeeps

\* A decision goes on in the conversation its proposal is linked to.
LEMMA AfterDecisionKeeps ==
  ASSUME SessionInvariant, NEW w \in Worker, AfterDecision(w)
  PROVE  SessionInvariant'
<1>1. PICK j : j = jobs[w]
  OBVIOUS
<1>2. /\ j \in Job /\ HandlerHolds(j) /\ HandsHold(j) /\ j.at = "decided"
      /\ ForgetCandidates(j.request) \/ UNCHANGED <<conversations, fresh>>
      /\ OnlyConversations
  BY <1>1, JobHolds DEF AfterDecision, OnlyConversations
<1>3. /\ j.followup = None /\ j.handler = "decide" /\ j.request \in Request
      /\ j.proposal \in ProposalId /\ Home(j.proposal, j.request)
  BY <1>2, ContractAssumption DEF HandlerHolds, HandsHold
<1>4. PICK c : c = linked[j.proposal]
  OBVIOUS
<1>5. CASE c = None
  <2>1. Goto(w, Idle)
    BY <1>1, <1>4, <1>5 DEF AfterDecision, Done
  <2> QED
    BY <1>1, <1>2, <1>3, <2>1, IdleIsJob, ForgettingMoves
<1>6. CASE c # None
  <2>1. c \in Opened /\ conversations[c].request = j.request /\ c \in Conversation
    BY <1>3, <1>4, <1>6 DEF SessionInvariant, LinkHolds, Home, Opened
  <2>2. PICK next \in {"enter", "plan", "dispatch"} :
          Goto(w, [j EXCEPT !.at = next, !.conversation = c])
    <3>1. CASE ledger[j.proposal].status = "approved"
      BY <1>1, <1>4, <1>6, <3>1 DEF AfterDecision
    <3>2. CASE ledger[j.proposal].status = "rejected"
      BY <1>1, <1>4, <1>6, <3>2 DEF AfterDecision
    <3>3. CASE ledger[j.proposal].status \notin {"approved", "rejected"}
      BY <1>1, <1>4, <1>6, <3>3 DEF AfterDecision
    <3> QED
      BY <3>1, <3>2, <3>3
  <2> DEFINE k == [j EXCEPT !.at = next, !.conversation = c]
  <2>3. k \in Job
    <3>1. [j EXCEPT !.at = next] \in Job
      BY <1>2, JobAt DEF Stage
    <3> QED
      BY <2>1, <3>1 DEF Job
  <2>4. HandlerHolds(k) /\ k.at # "ask"
    BY <1>2, <1>3, <2>1 DEF HandlerHolds, Job
  <2>5. HandsHold(k)
    BY <1>2, <1>3, <2>1 DEF HandsHold, Job
  <2>6. Goto(w, k)
    BY <2>2
  <2> HIDE DEF k
  <2> QED
    BY <1>1, <1>2, <1>3, <2>3, <2>4, <2>5, <2>6, ForgettingMoves
<1> QED
  BY <1>5, <1>6

\* A saved form makes the conversations of its request forget candidates.
LEMMA InvalidateKeeps ==
  ASSUME SessionInvariant, NEW w \in Worker, InvalidateCandidates(w)
  PROVE  SessionInvariant'
<1>1. jobs[w].at = "invalidate" /\ Goto(w, Idle)
  BY DEF InvalidateCandidates, Done
<1>2. jobs[w].followup = None
  BY <1>1, JobHolds DEF HandsHold
<1> QED
  BY <1>1, <1>2, IdleIsJob, ForgettingMoves DEF InvalidateCandidates

(***************************************************************************)
(* A thread moves, and perhaps takes or releases the follow-up lock.       *)
(***************************************************************************)
LEMMA LockMoves ==
  ASSUME SessionInvariant, NEW w \in Worker, NEW k \in Job, Goto(w, k), HandlerHolds(k), HandsHold(k),
         k.at # "ask", jobs[w].followup = None,
         UNCHANGED <<version, ledger, conversations, fresh, linked, source, disclosed>>,
         followupLock' \in {w, None, followupLock}
  PROVE  SessionInvariant'
<1>1. /\ ContractTypeOK' /\ Issued' = Issued /\ followupLock' \in Worker \cup {None}
      /\ \A p \in Issued : /\ ledger'[p].request = ledger[p].request
                           /\ ledger'[p].status = "pending" => ledger[p].status = "pending"
  BY DEF SessionInvariant, SessionTypeOK, ContractTypeOK, Issued
<1> QED
  BY <1>1, LifecycleMoves

\* Taking the follow-up lock, or passing by, creates nothing.
LEMMA EnterFollowupKeeps ==
  ASSUME SessionInvariant, NEW w \in Worker, EnterFollowup(w)
  PROVE  SessionInvariant'
<1>1. PICK j : j = jobs[w]
  OBVIOUS
<1>2. PICK at \in {"follow", "plan"} :
        /\ Goto(w, [j EXCEPT !.at = at])
        /\ followupLock' \in {w, None, followupLock}
        /\ UNCHANGED <<version, ledger, conversations, fresh, linked, source, disclosed>>
  BY <1>1 DEF EnterFollowup
<1>3. /\ j \in Job /\ HandlerHolds(j) /\ HandsHold(j) /\ j.at = "enter" /\ j.followup = None
  BY <1>1, JobHolds DEF EnterFollowup, HandsHold
<1> DEFINE k == [j EXCEPT !.at = at]
<1>4. k \in Job
  BY <1>3, JobAt DEF Stage
<1>5. HandlerHolds(k) /\ HandsHold(k) /\ k.at # "ask"
  BY <1>3 DEF HandlerHolds, HandsHold, Job
<1> QED
  BY <1>1, <1>2, <1>3, <1>4, <1>5, LockMoves

(***************************************************************************)
(* A follow-up is recorded into the hands of the decision that made it.    *)
(***************************************************************************)
LEMMA CreateFollowupKeeps ==
  ASSUME SessionInvariant, NEW w \in Worker, CreateFollowup(w)
  PROVE  SessionInvariant'
<1>1. PICK j : j = jobs[w]
  OBVIOUS
<1>2. /\ j \in Job /\ HandlerHolds(j) /\ HandsHold(j) /\ j.at = "follow" /\ j.followup = None
      /\ j.handler = "decide" /\ j.request \in Request
  BY <1>1, JobHolds DEF CreateFollowup, HandlerHolds, HandsHold
<1>3. ASSUME NEW f \in ProposalId, NewProposal(f, j.request, "deferred_followup"), UNCHANGED disclosed,
             Goto(w, [j EXCEPT !.at = "dispatch", !.followup = f])
      PROVE  SessionInvariant'
  <2> DEFINE k == [j EXCEPT !.at = "dispatch", !.followup = f]
  <2>1. k \in Job
    <3>1. [j EXCEPT !.at = "dispatch"] \in Job
      BY <1>2, JobAt DEF Stage
    <3> QED
      BY <3>1 DEF Job
  <2>2. HandlerHolds(k) /\ k.at # "ask" /\ k.followup = f
    BY <1>2 DEF HandlerHolds, Job
  <2>3. HandsHold(j)' /\ Home(f, j.request)'
    <3>1. version[j.request] \in Nat
      BY <1>2 DEF SessionInvariant, SessionTypeOK, ContractTypeOK
    <3>2. Grows /\ Home(f, j.request)'
      BY <1>2, <1>3, <3>1, RecordedIsHome DEF NewProposal
    <3> QED
      BY <1>2, <3>2, HandsStay
  <2>4. HandsHold(k)'
    BY <1>2, <2>3 DEF HandsHold, Job
  <2>5. "deferred_followup" \in Source /\ disclosed' \subseteq disclosed \cup {f}
    BY <1>3 DEF Source
  <2>6. Goto(w, k) /\ jobs[w].followup = None
    BY <1>1, <1>2, <1>3
  <2> HIDE DEF k
  <2> QED
    BY <1>2, <1>3, <2>1, <2>2, <2>4, <2>5, <2>6, HandlerProposes
<1>4. CASE /\ Goto(w, [j EXCEPT !.at = "plan"]) /\ followupLock' = None
           /\ UNCHANGED <<version, ledger, conversations, fresh, linked, source, disclosed>>
  <2> DEFINE k == [j EXCEPT !.at = "plan"]
  <2>1. k \in Job
    BY <1>2, JobAt DEF Stage
  <2>2. HandlerHolds(k) /\ HandsHold(k) /\ k.at # "ask"
    BY <1>2 DEF HandlerHolds, HandsHold, Job
  <2> QED
    BY <1>1, <1>2, <1>4, <2>1, <2>2, LockMoves
<1> QED
  BY <1>1, <1>3, <1>4 DEF CreateFollowup

(***************************************************************************)
(* A follow-up the conversation could not take is not left pending.        *)
(***************************************************************************)
LEMMA ExpireFollowupKeeps ==
  ASSUME SessionInvariant, NEW w \in Worker, ExpireFollowup(w)
  PROVE  SessionInvariant'
<1>1. PICK j : j = jobs[w]
  OBVIOUS
<1>2. /\ j \in Job /\ HandlerHolds(j) /\ HandsHold(j) /\ j.at = "expire" /\ j.handler = "decide"
      /\ j.followup \in ProposalId /\ ContractTypeOK
      /\ followupLock' = None
      /\ UNCHANGED <<version, conversations, fresh, linked, source, disclosed>>
  BY <1>1, JobHolds DEF ExpireFollowup, HandlerHolds, SessionInvariant, SessionTypeOK
<1>3. /\ ContractTypeOK' /\ Issued' = Issued /\ ledger'[j.followup].status # "pending"
      /\ \A q \in Issued : /\ ledger'[q].request = ledger[q].request
                           /\ ledger'[q].status = "pending" => ledger[q].status = "pending"
  <2>1. CASE Decide(j.followup, "expired")
    <3>1. /\ ledger' \in [ProposalId -> Lifecycle \cup {Absent}]
          /\ Issued' = Issued
          /\ ledger'[j.followup].status = "expired"
          /\ \A q \in Issued : /\ ledger'[q].request = ledger[q].request
                               /\ ledger'[q].status = "pending" => ledger[q].status = "pending"
      BY <1>2, <2>1, DecideChanges
    <3> QED
      BY <1>2, <3>1 DEF ContractTypeOK
  <2>2. CASE ledger[j.followup].status # "pending" /\ UNCHANGED ledger
    BY <1>2, <2>2 DEF ContractTypeOK, Issued
  <2> QED
    BY <1>1, <2>1, <2>2 DEF ExpireFollowup
<1> DEFINE k == [j EXCEPT !.at = "plan", !.followup = None]
<1>4. k \in Job
  <2>1. [j EXCEPT !.at = "plan"] \in Job
    BY <1>2, JobAt DEF Stage
  <2> QED
    BY <2>1 DEF Job
<1>5. HandlerHolds(k) /\ HandsHold(k) /\ k.at # "ask"
  BY <1>2 DEF HandlerHolds, HandsHold, Job
<1>6. Goto(w, k) /\ followupLock' \in Worker \cup {None} /\ fresh' \subseteq fresh
  BY <1>1, <1>2 DEF ExpireFollowup
<1> HIDE DEF k
<1> QED
  BY <1>1, <1>2, <1>3, <1>4, <1>5, <1>6, LifecycleMoves

\* A saved form is a new version and changes no proposal.
LEMMA SaveFormKeeps ==
  ASSUME SessionInvariant, NEW w \in Worker, NEW r \in Request, SaveForm(w, r)
  PROVE  SessionInvariant'
<1> DEFINE k == [Idle EXCEPT !.at = "invalidate", !.handler = "save", !.request = r]
<1>1. /\ jobs[w] = Idle /\ Goto(w, k) /\ Save(r) /\ ContractTypeOK
      /\ followupLock \in Worker \cup {None}
      /\ UNCHANGED <<conversations, fresh, linked, source, disclosed, followupLock>>
  BY DEF SaveForm, Begin, SessionInvariant, SessionTypeOK
<1>2. /\ ContractTypeOK' /\ Issued' = Issued /\ followupLock' \in Worker \cup {None}
      /\ \A q \in Issued : /\ ledger'[q].request = ledger[q].request
                           /\ ledger'[q].status = "pending" => ledger[q].status = "pending"
  BY <1>1 DEF Save, ContractTypeOK, Issued
<1>3. k \in Job
  BY DEF Idle, Job, AllHandlers, Stage
<1>4. HandlerHolds(k) /\ HandsHold(k) /\ k.at # "ask"
  BY DEF Idle, HandlerHolds, HandsHold
<1>5. jobs[w].followup = None /\ Goto(w, k) /\ fresh' \subseteq fresh
  BY <1>1 DEF Idle
<1> HIDE DEF k
<1> QED
  BY <1>1, <1>2, <1>3, <1>4, <1>5, LifecycleMoves

\* An inverse is a proposal of the request of its original.
LEMMA UndoKeeps ==
  ASSUME SessionInvariant, NEW q \in ProposalId, NEW p \in ProposalId, Undo(q, p)
  PROVE  SessionInvariant'
<1>1. /\ p \in Issued /\ Issue(q, ledger[p].request, version[ledger[p].request], p)
      /\ disclosed' = disclosed \cup {q}
      /\ source' = [source EXCEPT ![q] = "server_inverse"]
      /\ UNCHANGED <<conversations, fresh, linked, followupLock, jobs>>
      /\ jobs \in [Worker -> Job]
  BY DEF Undo, ProposeUndo, SessionInvariant, SessionTypeOK
<1>2. ledger[p].request \in Request /\ version[ledger[p].request] \in Nat
  BY <1>1 DEF SessionInvariant, SessionTypeOK, ContractTypeOK, Issued, Lifecycle
<1>3. "server_inverse" \in Source /\ p \in ProposalId \cup {None} /\ {} \in SUBSET Worker
  BY DEF Source
<1>4. disclosed' \subseteq disclosed \cup {q} /\ jobs' \in [Worker -> Job]
  BY <1>1
<1>5. \A v \in Worker \ {} : jobs'[v] = jobs[v]
  BY <1>1
<1>6. PICK r \in Request : r = ledger[p].request
  BY <1>2
<1>7. PICK origin \in Source : origin = "server_inverse"
  BY <1>3
<1>8. /\ Issue(q, r, version[r], p) /\ version[r] \in Nat
      /\ source' = [source EXCEPT ![q] = origin] /\ origin # "deferred_followup"
  BY <1>1, <1>2, <1>6, <1>7
<1>9. PICK Movers \in SUBSET Worker : Movers = {}
  BY <1>3
<1>10. \A v \in Worker \ Movers : jobs'[v] = jobs[v]
  BY <1>5
<1>11. \A v \in Movers :
         /\ (HandlerHolds(jobs[v]) /\ HandsHold(jobs[v]))'
         /\ jobs'[v].at # "ask"
         /\ jobs[v].followup = None \/ jobs'[v].followup = jobs[v].followup
  BY <1>9
<1>12. origin = "deferred_followup" => \E v \in Movers : jobs'[v].followup = q
  BY <1>8
<1>13. PICK base \in Nat : base = version[r]
  BY <1>8
<1>14. Issue(q, r, base, p) /\ source' = [source EXCEPT ![q] = origin]
  BY <1>8, <1>13
<1>15. UNCHANGED <<conversations, fresh, linked, followupLock>>
  BY <1>1
<1>16. Records(q, origin, Movers) /\ Issue(q, r, base, p)
  BY <1>4, <1>10, <1>11, <1>12, <1>14, <1>15 DEF Records
<1> QED
  BY <1>3, <1>16, ProposalMoves

\* A new conversation waits for nothing, whatever reference the client gave it.
LEMMA OpenKeeps ==
  ASSUME SessionInvariant, NEW c \in Conversation, NEW r \in Request,
         NEW p \in ProposalId \cup {None}, Open(c, r, p)
  PROVE  SessionInvariant'
<1> DEFINE record == [request |-> r, workflow |-> "started", proposal |-> p, status |-> "active",
                      candidates |-> None]
<1>1. /\ c \notin Opened /\ Replace(c, record)
      /\ UNCHANGED <<version, ledger, linked, source>>
      /\ disclosed' \subseteq Issued /\ followupLock' \in Worker \cup {None}
      /\ jobs' = jobs /\ jobs' \in [Worker -> Job]
  BY DEF Open, OnlyConversations, Opened, SessionInvariant, SessionTypeOK
<1>2. RecordHolds(record, r)
  BY DEF RecordHolds, Record, WorkflowState, Status
<1>3. {} \in SUBSET Worker /\ \A v \in Worker \ {} : jobs'[v] = jobs[v]
  BY <1>1
<1> HIDE DEF record
<1> QED
  BY <1>1, <1>2, <1>3, ConversationMoves

\* Pausing, resuming and closing move no workflow.
LEMMA ChangeStatusKeeps ==
  ASSUME SessionInvariant, NEW c \in Conversation, NEW from, NEW to \in Status, ChangeStatus(c, from, to)
  PROVE  SessionInvariant'
<1> DEFINE record == [conversations[c] EXCEPT !.status = to]
<1>1. /\ c \in Opened /\ Replace(c, record)
      /\ UNCHANGED <<version, ledger, linked, source>>
      /\ disclosed' \subseteq Issued /\ followupLock' \in Worker \cup {None}
      /\ jobs' = jobs /\ jobs' \in [Worker -> Job]
  BY DEF ChangeStatus, OnlyConversations, SessionInvariant, SessionTypeOK
<1>2. PICK r : r = conversations[c].request
  OBVIOUS
<1>3. RecordHolds(record, r)
  BY <1>1, <1>2, OpenedIsRecord DEF RecordHolds, Record, ConversationHolds
<1>4. {} \in SUBSET Worker /\ \A v \in Worker \ {} : jobs'[v] = jobs[v]
  BY <1>1
<1>5. Replace(c, record)
  BY <1>1
<1> HIDE DEF record
<1> QED
  BY <1>1, <1>2, <1>3, <1>4, <1>5, ConversationMoves

-----------------------------------------------------------------------------
(* The invariant of the specification.                                     *)

\* A server that was just started satisfies the invariant.
LEMMA SessionInitInvariant == SessionInit => SessionInvariant
<1> SUFFICES ASSUME SessionInit PROVE SessionInvariant
  OBVIOUS
<1>1. Issued = {} /\ Opened = {}
  BY DEF SessionInit, ContractInit, Issued, Opened
<1>2. SessionTypeOK
  BY <1>1, IdleIsJob DEF SessionInit, ContractInit, SessionTypeOK, ContractTypeOK
<1>3. \A p \in ProposalId : LinkHolds(p)
  BY DEF SessionInit, LinkHolds
<1>4. \A w \in Worker : HandlerHolds(jobs[w]) /\ HandsHold(jobs[w]) /\ SnapshotHolds(w)
  BY IdleIsJob DEF SessionInit, SnapshotHolds
<1> QED
  BY <1>1, <1>2, <1>3, <1>4 DEF SessionInvariant, FollowupIsShown

\* Where nothing changes nothing breaks.
LEMMA UnchangedKeeps ==
  ASSUME SessionInvariant, UNCHANGED vars
  PROVE  SessionInvariant'
<1>1. UNCHANGED <<version, ledger, conversations, fresh, linked, source, disclosed, followupLock, jobs>>
  BY DEF vars, sessionVars
<1>2. Grows
  BY <1>1 DEF Grows, Issued, Opened
<1>3. SessionTypeOK'
  BY <1>1 DEF SessionInvariant, SessionTypeOK, ContractTypeOK, Issued
<1>4. {} \in SUBSET Worker /\ \A v \in Worker \ {} : jobs'[v] = jobs[v] /\ StillFresh(v)
  BY <1>1 DEF StillFresh
<1>5. (\A c \in Opened : ConversationHolds(c))' /\ (\A p \in ProposalId : LinkHolds(p))'
  BY <1>1 DEF SessionInvariant, ConversationHolds, LinkHolds, Home, Opened, Issued
<1>6. FollowupIsShown'
  BY <1>1 DEF SessionInvariant, FollowupIsShown, Issued
<1> QED
  BY <1>2, <1>3, <1>4, <1>5, <1>6, StepKeeps

(***************************************************************************)
(* Every step of every thread keeps the invariant.                         *)
(***************************************************************************)
LEMMA SessionNextKeeps ==
  ASSUME SessionInvariant, [SessionNext]_vars
  PROVE  SessionInvariant'
<1>1. ASSUME NEW w \in Worker, Receive(w)
      PROVE  SessionInvariant'
  BY <1>1, ChatReadKeeps, MessageReadKeeps, TakeDecisionKeeps, SaveFormKeeps DEF Receive
<1>2. ASSUME NEW w \in Worker, Proceed(w)
      PROVE  SessionInvariant'
  <2>1. CASE ChatLook(w) \/ ChatForget(w) \/ ChatThink(w) \/ ChatReply(w) \/ ChatKeep(w)
    BY <2>1, ChatLookKeeps, ChatForgetKeeps, ChatThinkKeeps, ChatReplyKeeps, ChatKeepKeeps
  <2>2. CASE ChatCreate(w) \/ ChatRecord(w) \/ ChatDrop(w) \/ MessageEnd(w)
    BY <2>2, ChatCreateKeeps, ChatRecordKeeps, ChatDropKeeps, MessageEndKeeps
  <2>3. CASE MessageCreate(w) \/ MessageCorrect(w) \/ DispatchRead(w) \/ DispatchPersist(w)
    BY <2>3, MessageCreateKeeps, DispatchReadKeeps, DispatchPersistKeeps
  <2>4. CASE Register(w) \/ Plan(w) \/ Ask(w) \/ AfterDecision(w)
    BY <2>4, RegisterKeeps, PlanKeeps, AskKeeps, AfterDecisionKeeps
  <2>5. CASE CreateFollowup(w) \/ ExpireFollowup(w) \/ InvalidateCandidates(w)
    BY <2>5, CreateFollowupKeeps, ExpireFollowupKeeps, InvalidateKeeps
  <2> QED
    BY <1>2, <2>1, <2>2, <2>3, <2>4, <2>5 DEF Proceed
<1>3. ASSUME NEW c \in Conversation, Pause(c) \/ Resume(c) \/ Close(c)
      PROVE  SessionInvariant'
  BY <1>3, ChangeStatusKeeps DEF Pause, Resume, Close, Status
<1> QED
  BY <1>1, <1>2, <1>3, EnterFollowupKeeps, UndoKeeps, OpenKeeps, UnchangedKeeps DEF SessionNext

-----------------------------------------------------------------------------
(* The session drives the proposals as the contract allows.                *)

(***************************************************************************)
(* A proposal of a handler is made on a version the request has reached.   *)
(***************************************************************************)
LEMMA ProposingIsContractStep ==
  ASSUME SessionInvariant, NEW p \in ProposalId, NEW r \in Request, NEW origin, NewProposal(p, r, origin)
  PROVE  ContractNext
<1>1. version[r] \in Nat
  BY DEF SessionInvariant, SessionTypeOK, ContractTypeOK
<1>2. Issue(p, r, version[r], None)
  BY DEF NewProposal
<1>3. Propose(p, r)
  BY <1>1, <1>2 DEF Propose
<1> QED
  BY <1>3 DEF ContractNext

\* What a handler does in the middle of a request is allowed by the contract.
LEMMA ProceedIsContractStep ==
  ASSUME SessionInvariant, NEW w \in Worker, Proceed(w)
  PROVE  [ContractNext]_contractVars
<1>1. /\ jobs[w].at \in {"create", "extract"} => jobs[w].request \in Request
      /\ jobs[w].at = "follow" => jobs[w].request \in Request
      /\ jobs[w].at = "expire" => jobs[w].followup \in ProposalId
  BY JobHolds DEF HandlerHolds
<1>2. CASE ChatLook(w) \/ ChatForget(w) \/ ChatThink(w) \/ ChatReply(w) \/ ChatKeep(w)
  BY <1>2 DEF ChatLook, ChatForget, ChatThink, ChatReply, ChatKeep, OnlyJob, OnlyConversations, contractVars
<1>3. CASE ChatRecord(w) \/ ChatDrop(w) \/ MessageEnd(w) \/ InvalidateCandidates(w) \/ Register(w)
  BY <1>3 DEF ChatRecord, ChatDrop, MessageEnd, InvalidateCandidates, Register, OnlyJob,
     OnlyConversations, contractVars
<1>4. CASE DispatchRead(w) \/ DispatchPersist(w) \/ Plan(w) \/ Ask(w) \/ AfterDecision(w)
  BY <1>4 DEF DispatchRead, DispatchPersist, DispatchFailed, Plan, Ask, AfterDecision, OnlyJob,
     OnlyConversations, contractVars
<1>5. CASE ChatCreate(w)
  <2>1. CASE OnlyJob
    BY <2>1 DEF OnlyJob, contractVars
  <2>2. CASE ~OnlyJob
    <3>1. PICK p \in ProposalId : NewProposal(p, jobs[w].request, "main_agent_decision")
      BY <1>5, <2>2 DEF ChatCreate
    <3>2. jobs[w].request \in Request
      BY <1>1, <1>5 DEF ChatCreate
    <3> QED
      BY <3>1, <3>2, ProposingIsContractStep
  <2> QED
    BY <2>1, <2>2
<1>6. CASE MessageCreate(w) \/ MessageCorrect(w)
  <2>1. PICK p \in ProposalId : NewProposal(p, jobs[w].request, "orchestrator_llm")
    BY <1>6 DEF MessageCreate, MessageCorrect
  <2>2. jobs[w].request \in Request
    BY <1>1, <1>6 DEF MessageCreate, MessageCorrect
  <2> QED
    BY <2>1, <2>2, ProposingIsContractStep
<1>7. CASE CreateFollowup(w)
  <2>1. CASE UNCHANGED <<version, ledger>>
    BY <2>1 DEF contractVars
  <2>2. CASE ~UNCHANGED <<version, ledger>>
    <3>1. PICK f \in ProposalId : NewProposal(f, jobs[w].request, "deferred_followup")
      BY <1>7, <2>2 DEF CreateFollowup
    <3>2. jobs[w].request \in Request
      BY <1>1, <1>7 DEF CreateFollowup
    <3> QED
      BY <3>1, <3>2, ProposingIsContractStep
  <2> QED
    BY <2>1, <2>2
<1>8. CASE ExpireFollowup(w)
  <2>1. CASE Decide(jobs[w].followup, "expired")
    <3>1. Decline(jobs[w].followup)
      BY <1>8, <2>1 DEF ExpireFollowup, Decline
    <3> QED
      BY <1>1, <1>8, <3>1 DEF ExpireFollowup, ContractNext
  <2>2. CASE UNCHANGED ledger
    BY <1>8, <2>2 DEF ExpireFollowup, contractVars
  <2> QED
    BY <1>8, <2>1, <2>2 DEF ExpireFollowup
<1> QED
  BY <1>2, <1>3, <1>4, <1>5, <1>6, <1>7, <1>8 DEF Proceed

\* Every step of a session is allowed by the contract.
LEMMA SessionStepsAreContractSteps ==
  ASSUME SessionInvariant, [SessionNext]_vars
  PROVE  [ContractNext]_contractVars
<1>1. ASSUME NEW w \in Worker, Receive(w)
      PROVE  [ContractNext]_contractVars
  <2>1. ASSUME NEW c \in Conversation, ChatRead(w, c) \/ MessageRead(w, c)
        PROVE  [ContractNext]_contractVars
    BY <2>1 DEF ChatRead, MessageRead, OnlyJob, contractVars
  <2>2. ASSUME NEW p \in ProposalId, NEW decision \in {"approve", "reject"}, TakeDecision(w, p, decision)
        PROVE  [ContractNext]_contractVars
    <3>1. Approve(p) \/ Conflict(p) \/ Decline(p) \/ UNCHANGED contractVars
      BY <2>2, ResolveIsContractStep DEF TakeDecision
    <3> QED
      BY <3>1 DEF ContractNext
  <2>3. ASSUME NEW r \in Request, SaveForm(w, r)
        PROVE  [ContractNext]_contractVars
    BY <2>3 DEF SaveForm, ContractNext
  <2> QED
    BY <1>1, <2>1, <2>2, <2>3 DEF Receive
<1>2. ASSUME NEW w \in Worker, EnterFollowup(w)
      PROVE  [ContractNext]_contractVars
  BY <1>2 DEF EnterFollowup, contractVars
<1>3. ASSUME NEW q \in ProposalId, NEW p \in ProposalId, Undo(q, p)
      PROVE  [ContractNext]_contractVars
  BY <1>3 DEF Undo, ContractNext
<1>4. ASSUME NEW c \in Conversation, NEW r \in Request, NEW p \in ProposalId \cup {None}, Open(c, r, p)
      PROVE  [ContractNext]_contractVars
  BY <1>4 DEF Open, OnlyConversations, contractVars
<1>5. ASSUME NEW c \in Conversation, Pause(c) \/ Resume(c) \/ Close(c)
      PROVE  [ContractNext]_contractVars
  BY <1>5 DEF Pause, Resume, Close, ChangeStatus, OnlyConversations, contractVars
<1>6. CASE UNCHANGED vars
  BY <1>6 DEF vars, contractVars
<1> QED
  BY <1>1, <1>2, <1>3, <1>4, <1>5, <1>6, ProceedIsContractStep DEF SessionNext

-----------------------------------------------------------------------------
(* Who moves, and what becomes of a conversation.                          *)

(***************************************************************************)
(* A thread moves by its own steps only, and one that is at another stage  *)
(* than the questions does not leave it.                                   *)
(***************************************************************************)
LEMMA OnlyAskEnds ==
  ASSUME SessionInvariant, SessionNext, NEW v \in Worker, jobs[v].at = "ask", jobs'[v] # jobs[v]
  PROVE  Ask(v)
<1>1. jobs \in [Worker -> Job]
  BY DEF SessionInvariant, SessionTypeOK
<1>2. ASSUME NEW w \in Worker, NEW k, Goto(w, k)
      PROVE  w = v
  BY <1>1, <1>2 DEF Goto
<1>3. ASSUME NEW w \in Worker, Receive(w)
      PROVE  FALSE
  <2>1. jobs[w] = Idle /\ \E k : Goto(w, k)
    BY <1>3 DEF Receive, ChatRead, MessageRead, TakeDecision, SaveForm, Begin
  <2>2. w = v /\ Idle.at # "ask"
    BY <1>2, <2>1, IdleIsJob
  <2> QED
    BY <2>1, <2>2
<1>4. ASSUME NEW w \in Worker, Proceed(w) \/ EnterFollowup(w)
      PROVE  Ask(v)
  <2>1. CASE ChatLook(w) \/ ChatForget(w) \/ ChatThink(w) \/ ChatReply(w) \/ ChatKeep(w)
    <3>1. jobs[w].at # "ask" /\ \E k : Goto(w, k)
      BY <2>1 DEF ChatLook, ChatForget, ChatThink, ChatReply, ChatKeep, Done
    <3> QED
      BY <1>2, <3>1
  <2>2. CASE ChatCreate(w) \/ ChatRecord(w) \/ ChatDrop(w) \/ MessageEnd(w)
    <3>1. jobs[w].at # "ask" /\ \E k : Goto(w, k)
      BY <2>2 DEF ChatCreate, ChatRecord, ChatDrop, MessageEnd, Done
    <3> QED
      BY <1>2, <3>1
  <2>3. CASE MessageCreate(w) \/ MessageCorrect(w) \/ DispatchRead(w) \/ DispatchPersist(w)
    <3>1. jobs[w].at # "ask" /\ \E k : Goto(w, k)
      BY <2>3 DEF MessageCreate, MessageCorrect, DispatchRead, DispatchPersist, DispatchFailed, Done
    <3> QED
      BY <1>2, <3>1
  <2>4. CASE Register(w) \/ Plan(w) \/ AfterDecision(w)
    <3>1. jobs[w].at # "ask" /\ \E k : Goto(w, k)
      BY <2>4 DEF Register, Plan, PlanFailed, AfterDecision, Done
    <3> QED
      BY <1>2, <3>1
  <2>5. CASE CreateFollowup(w) \/ ExpireFollowup(w) \/ InvalidateCandidates(w) \/ EnterFollowup(w)
    <3>1. jobs[w].at # "ask" /\ \E k : Goto(w, k)
      BY <2>5 DEF CreateFollowup, ExpireFollowup, InvalidateCandidates, EnterFollowup, Done
    <3> QED
      BY <1>2, <3>1
  <2>6. CASE Ask(w)
    <3>1. \E k : Goto(w, k)
      BY <2>6 DEF Ask, PlanFailed, Done
    <3> QED
      BY <1>2, <2>6, <3>1
  <2> QED
    BY <1>4, <2>1, <2>2, <2>3, <2>4, <2>5, <2>6 DEF Proceed
<1>5. ASSUME NEW c \in Conversation, Pause(c) \/ Resume(c) \/ Close(c)
      PROVE  FALSE
  BY <1>5 DEF Pause, Resume, Close, ChangeStatus
<1>6. ASSUME NEW q \in ProposalId, NEW p \in ProposalId, Undo(q, p)
      PROVE  FALSE
  BY <1>6 DEF Undo
<1>7. ASSUME NEW c \in Conversation, NEW r \in Request, NEW p \in ProposalId \cup {None}, Open(c, r, p)
      PROVE  FALSE
  BY <1>7 DEF Open
<1> QED
  BY <1>3, <1>4, <1>5, <1>6, <1>7 DEF SessionNext

(***************************************************************************)
(* A decision that asked its question was in the wait for its proposal.    *)
(***************************************************************************)
LEMMA QuestionStepEndsWait ==
  ASSUME SessionInvariant, SessionNext, NEW w \in Worker,
         jobs[w].handler = "decide", jobs[w].at = "ask", jobs'[w] = Idle
  PROVE  Awaits(jobs[w].conversation, jobs[w].proposal)
<1>1. jobs'[w] # jobs[w]
  BY IdleIsJob
<1>2. Ask(w)
  BY <1>1, OnlyAskEnds
<1>3. jobs \in [Worker -> Job]
  BY DEF SessionInvariant, SessionTypeOK
<1>4. CASE w \in fresh
  BY <1>4, JobHolds DEF SnapshotHolds
<1>5. CASE w \notin fresh
  <2>1. Goto(w, [jobs[w] EXCEPT !.at = "dispatch", !.outcome = None])
    BY <1>2, <1>5 DEF Ask, PlanFailed
  <2>2. jobs'[w].at = "dispatch"
    BY <1>3, <2>1 DEF Goto, Job
  <2> QED
    BY <2>2, IdleIsJob
<1> QED
  BY <1>4, <1>5

(***************************************************************************)
(* What is not active keeps its workflow and its reference, and stays      *)
(* closed if it was.                                                       *)
(***************************************************************************)
FrozenAt(c) ==
  conversations[c].status # "active" =>
    /\ conversations'[c].workflow = conversations[c].workflow
    /\ conversations'[c].proposal = conversations[c].proposal
    /\ conversations[c].status = "closed" => conversations'[c].status = "closed"

(***************************************************************************)
(* A write of another conversation, or of an active one, freezes nothing.  *)
(***************************************************************************)
LEMMA ReplaceFreezes ==
  ASSUME SessionInvariant, NEW c, NEW record, Replace(c, record), NEW d \in Opened,
         c = d => \/ conversations[d].status = "active"
                  \/ /\ record.workflow = conversations[d].workflow
                     /\ record.proposal = conversations[d].proposal
                     /\ conversations[d].status = "closed" => record.status = "closed"
  PROVE  FrozenAt(d)
<1>1. d \in Conversation /\ conversations \in [Conversation -> Record \cup {Absent}]
  BY DEF Opened, SessionInvariant, SessionTypeOK
<1>2. conversations'[d] = IF c = d THEN record ELSE conversations[d]
  BY <1>1 DEF Replace
<1> QED
  BY <1>2 DEF FrozenAt

\* Conversations nobody writes stay as they are.
LEMMA UnchangedFreezes ==
  ASSUME UNCHANGED conversations, NEW d
  PROVE  FrozenAt(d)
BY DEF FrozenAt

\* Forgetting candidates moves no workflow.
LEMMA ForgetFreezes ==
  ASSUME SessionInvariant, NEW r, ForgetCandidates(r), NEW d \in Opened
  PROVE  FrozenAt(d)
<1>1. d \in Conversation /\ conversations[d] \in Record
  BY OpenedIsRecord
<1>2. conversations'[d] \in {conversations[d], [conversations[d] EXCEPT !.candidates = None]}
  BY <1>1 DEF ForgetCandidates
<1>3. /\ [conversations[d] EXCEPT !.candidates = None].workflow = conversations[d].workflow
      /\ [conversations[d] EXCEPT !.candidates = None].proposal = conversations[d].proposal
      /\ [conversations[d] EXCEPT !.candidates = None].status = conversations[d].status
  BY <1>1 DEF Record
<1> QED
  BY <1>2, <1>3 DEF FrozenAt

(***************************************************************************)
(* No step of any thread moves a conversation that is not active.          *)
(***************************************************************************)
LEMMA StepFreezes ==
  ASSUME SessionInvariant, [SessionNext]_vars, NEW d \in Opened
  PROVE  FrozenAt(d)
<1>1. ASSUME NEW c, NEW record, Active(c), Replace(c, record)
      PROVE  FrozenAt(d)
  BY <1>1, ReplaceFreezes DEF Active
<1>2. ASSUME NEW w \in Worker, Receive(w) \/ EnterFollowup(w)
      PROVE  FrozenAt(d)
  <2>1. UNCHANGED conversations
    BY <1>2 DEF Receive, EnterFollowup, ChatRead, MessageRead, TakeDecision, SaveForm, OnlyJob
  <2> QED
    BY <2>1, UnchangedFreezes
<1>3. ASSUME NEW w \in Worker, Proceed(w)
      PROVE  FrozenAt(d)
  <2>1. CASE ChatLook(w) \/ ChatForget(w) \/ ChatThink(w) \/ ChatReply(w) \/ ChatKeep(w)
    <3>1. UNCHANGED conversations \/ \E c, record : Active(c) /\ Replace(c, record)
      BY <2>1 DEF ChatLook, ChatForget, ChatThink, ChatReply, ChatKeep, OnlyJob, Touch
    <3> QED
      BY <1>1, <3>1, UnchangedFreezes
  <2>2. CASE ChatRecord(w) \/ ChatDrop(w) \/ MessageEnd(w) \/ Register(w) \/ Plan(w)
    <3>1. UNCHANGED conversations \/ \E c, record : Active(c) /\ Replace(c, record)
      BY <2>2 DEF ChatRecord, ChatDrop, MessageEnd, Register, Plan, OnlyJob, Touch
    <3> QED
      BY <1>1, <3>1, UnchangedFreezes
  <2>3. CASE DispatchRead(w) \/ DispatchPersist(w) \/ Ask(w)
    <3>1. UNCHANGED conversations \/ \E c, record : Active(c) /\ Replace(c, record)
      BY <2>3 DEF DispatchRead, DispatchPersist, DispatchFailed, Ask, OnlyJob
    <3> QED
      BY <1>1, <3>1, UnchangedFreezes
  <2>4. CASE ChatCreate(w) \/ MessageCreate(w) \/ MessageCorrect(w) \/ CreateFollowup(w) \/ ExpireFollowup(w)
    <3>1. UNCHANGED conversations
      BY <2>4 DEF ChatCreate, MessageCreate, MessageCorrect, CreateFollowup, ExpireFollowup, OnlyJob, NewProposal
    <3> QED
      BY <3>1, UnchangedFreezes
  <2>5. CASE AfterDecision(w) \/ InvalidateCandidates(w)
    <3>1. UNCHANGED conversations \/ \E r : ForgetCandidates(r)
      BY <2>5 DEF AfterDecision, InvalidateCandidates
    <3> QED
      BY <3>1, UnchangedFreezes, ForgetFreezes
  <2> QED
    BY <1>3, <2>1, <2>2, <2>3, <2>4, <2>5 DEF Proceed
<1>4. ASSUME NEW q \in ProposalId, NEW p \in ProposalId, Undo(q, p)
      PROVE  FrozenAt(d)
  BY <1>4, UnchangedFreezes DEF Undo
<1>5. ASSUME NEW c \in Conversation, NEW r \in Request, NEW p \in ProposalId \cup {None}, Open(c, r, p)
      PROVE  FrozenAt(d)
  <2>1. c # d /\ \E record : Replace(c, record)
    BY <1>5 DEF Open, Opened
  <2> QED
    BY <2>1, ReplaceFreezes
<1>6. ASSUME NEW c \in Conversation, Pause(c) \/ Resume(c) \/ Close(c)
      PROVE  FrozenAt(d)
  <2>1. PICK to \in Status :
          /\ Replace(c, [conversations[c] EXCEPT !.status = to])
          /\ conversations[c].status = "closed" => to = "closed"
          /\ c \in Opened
    BY <1>6 DEF Pause, Resume, Close, ChangeStatus, Status
  <2>2. conversations[c] \in Record
    BY <2>1, OpenedIsRecord
  <2>3. PICK record : record = [conversations[c] EXCEPT !.status = to]
    OBVIOUS
  <2>4. /\ record.workflow = conversations[c].workflow
        /\ record.proposal = conversations[c].proposal
        /\ record.status = to
    BY <2>2, <2>3 DEF Record
  <2> QED
    BY <2>1, <2>3, <2>4, ReplaceFreezes
<1>7. CASE UNCHANGED vars
  BY <1>7, UnchangedFreezes DEF vars, sessionVars
<1> QED
  BY <1>2, <1>3, <1>4, <1>5, <1>6, <1>7 DEF SessionNext

-----------------------------------------------------------------------------
(* One request after the other.                                            *)

\* There is one thread, so that a handler is done before the next begins.
OneAtATime == \A v, w \in Worker : v = w

\* The proposal is decided, which it stays.
Over(p) == p \in Issued /\ ledger[p].status # "pending"

(* An outcome leaves a wait as it is, or the proposal waited for is over.  *)
WaitRespected(c, out) ==
  conversations[c].workflow = "awaiting_proposal_approval" =>
    \/ /\ out.workflow = "awaiting_proposal_approval"
       /\ out.proposal = conversations[c].proposal
    \/ Over(conversations[c].proposal)

(* A decision deals with a proposal that is over, and what a thread is     *)
(* about to write respects the wait it will write over.                    *)
HandRespects(j) ==
  /\ j.at # "idle" /\ j.handler = "decide" => Over(j.proposal)
  /\ j.at \in {"persist", "ask"} => WaitRespected(j.conversation, j.outcome)

OneThreadInvariant ==
  /\ SessionInvariant
  /\ OneAtATime
  /\ \A w \in Worker : HandRespects(jobs[w])

(***************************************************************************)
(* The only way on from a wait is the end of its proposal, or a failure.   *)
(***************************************************************************)
LEMMA OnlyTerminalEnds ==
  ASSUME NEW c \in Context, c.workflow = "awaiting_proposal_approval",
         NEW type, type \notin {"proposal_terminal", "fail"}, NEW p
  PROVE  Transition(c, [type |-> type, proposal |-> p]) = Rejected
<1>1. \A t : <<c.workflow, type, t>> \notin Moves
  BY DEF Moves, WorkflowState
<1> QED
  BY <1>1 DEF Transition, Allowed

\* Nothing is proposed in a conversation that waits.
LEMMA CreatedNotInWait ==
  ASSUME NEW c \in Context, c.workflow = "awaiting_proposal_approval", NEW read, NEW p
  PROVE  Created(c, read, p) = Rejected
<1>1. Transition(c, [type |-> "start", proposal |-> None]) = Rejected
  BY OnlyTerminalEnds
<1>2. Transition(c, [type |-> "proposal_created", proposal |-> p]) = Rejected
  BY OnlyTerminalEnds
<1> QED
  BY <1>1, <1>2 DEF Created, Then, Start, Event, ProposalCreated

\* An answer leaves a conversation that waits as it is, or is refused.
LEMMA AnsweredInWait ==
  ASSUME NEW c \in Context, c.workflow = "awaiting_proposal_approval", NEW read \in WorkflowState
  PROVE  Answered(c, read) \in {c, Rejected}
<1>1. Transition(c, [type |-> "start", proposal |-> None]) = Rejected
  BY OnlyTerminalEnds
<1>2. Transition(c, [type |-> "answer_received", proposal |-> None]) = Rejected
  BY OnlyTerminalEnds
<1>3. Transition(c, [type |-> "plan_next_question", proposal |-> None]) = Rejected
  BY OnlyTerminalEnds
<1>4. CASE read = "started"
  BY <1>1, <1>4 DEF Answered, Then, Start, Event
<1>5. CASE read = "awaiting_answer"
  BY <1>2, <1>5 DEF Answered, AnswerReceived, Event
<1>6. CASE read = "proposal_completed"
  BY <1>3, <1>6 DEF Answered, PlanNextQuestion, Event
<1>7. CASE read \notin {"started", "awaiting_answer", "proposal_completed"}
  BY <1>7 DEF Answered
<1> QED
  BY <1>4, <1>5, <1>6, <1>7

\* A question is not asked in a conversation that waits.
LEMMA AskedInWait ==
  ASSUME NEW c \in Context, c.workflow = "awaiting_proposal_approval", NEW isQuestion \in BOOLEAN
  PROVE  Asked(c, isQuestion) \in {c, Rejected}
<1>1. Transition(c, [type |-> "question_planned", proposal |-> None]) = Rejected
  BY OnlyTerminalEnds
<1> QED
  BY <1>1 DEF Asked, Then, QuestionPlanned, Event

(***************************************************************************)
(* A dispatch out of a wait is about the proposal waited for, which its    *)
(* handler has decided.                                                    *)
(***************************************************************************)
LEMMA DispatchRespects ==
  ASSUME SessionInvariant, NEW w \in Worker, jobs[w].at = "dispatch", HandRespects(jobs[w]),
         DispatchOutcome(jobs[w]) # Rejected
  PROVE  WaitRespected(jobs[w].conversation, DispatchOutcome(jobs[w]))
<1>1. PICK j : j = jobs[w]
  OBVIOUS
<1>2. /\ j.at = "dispatch" /\ HandlerHolds(j) /\ HandsHold(j) /\ HandRespects(j)
      /\ j.conversation \in Conversation /\ j.proposal \in ProposalId
  BY <1>1, JobHolds DEF HandlerHolds
<1>3. j.conversation \in Opened
  BY <1>2, SessionAssumption DEF HandsHold
<1>4. PICK c \in Context : c = ContextOf(j.conversation)
  BY <1>3, ContextOfOpened
<1>5. /\ c.workflow = conversations[j.conversation].workflow
      /\ c.proposal = conversations[j.conversation].proposal
  BY <1>4 DEF ContextOf
<1>6. PICK out : out = DispatchOutcome(j) /\ out # Rejected
  BY <1>1
<1>7. SUFFICES ASSUME c.workflow = "awaiting_proposal_approval"
               PROVE  Over(c.proposal)
  BY <1>1, <1>5 DEF WaitRespected
<1>8. j.handler = "decide"
  <2>1. CASE j.handler # "decide"
    <3>1. out = Created(c, j.seen.workflow, j.proposal)
      BY <1>4, <1>6, <2>1 DEF DispatchOutcome
    <3> QED
      BY <1>6, <1>7, <3>1, CreatedNotInWait
  <2> QED
    BY <2>1
<1>9. Over(j.proposal)
  BY <1>2, <1>8 DEF HandRespects
<1>10. ASSUME Continued(c, j.proposal) # Rejected
       PROVE  c.proposal = j.proposal
  BY <1>2, <1>10, ContinuedOutcome
<1>11. CASE j.followup # None
  <2>1. out = Then(Continued(c, j.proposal), ProposalCreated(j.followup))
    BY <1>4, <1>6, <1>8, <1>11 DEF DispatchOutcome
  <2>2. Continued(c, j.proposal) # Rejected
    BY <1>6, <2>1 DEF Then
  <2> QED
    BY <1>9, <1>10, <2>2
<1>12. CASE j.followup = None /\ ledger[j.proposal].status \in {"approved", "rejected"}
  <2>1. out = Continued(c, j.proposal)
    BY <1>4, <1>6, <1>8, <1>12 DEF DispatchOutcome
  <2> QED
    BY <1>6, <1>9, <1>10, <2>1
<1>13. CASE j.followup = None /\ ledger[j.proposal].status \notin {"approved", "rejected"}
  <2>1. out = Transition(c, [type |-> "proposal_terminal", proposal |-> j.proposal])
    BY <1>4, <1>6, <1>8, <1>13 DEF DispatchOutcome, ProposalTerminal
  <2>2. c.proposal = j.proposal
    BY <1>6, <2>1 DEF Transition, Allowed
  <2> QED
    BY <1>9, <2>2
<1> QED
  BY <1>11, <1>12, <1>13

(***************************************************************************)
(* A plan made in a wait leaves it as it is, or ends it for a decision on  *)
(* the proposal waited for.                                                *)
(***************************************************************************)
LEMMA PlanRespects ==
  ASSUME SessionInvariant, NEW w \in Worker, jobs[w].at = "plan", HandRespects(jobs[w]),
         NEW isQuestion \in BOOLEAN, PlanOutcome(jobs[w], isQuestion) # Rejected
  PROVE  WaitRespected(jobs[w].conversation, PlanOutcome(jobs[w], isQuestion))
<1>1. PICK j : j = jobs[w]
  OBVIOUS
<1>2. /\ HandlerHolds(j) /\ HandRespects(j) /\ j.at = "plan"
      /\ j.conversation \in Opened /\ j.handler \in {"chat", "decide"}
  BY <1>1, JobHolds, SessionAssumption DEF HandlerHolds, HandsHold
<1>3. PICK c \in Context : c = ContextOf(j.conversation)
  BY <1>2, ContextOfOpened
<1>4. /\ c.workflow = conversations[j.conversation].workflow
      /\ c.proposal = conversations[j.conversation].proposal
  BY <1>3 DEF ContextOf
<1>5. PICK out : out = PlanOutcome(j, isQuestion) /\ out # Rejected
  BY <1>1
<1>6. SUFFICES ASSUME c.workflow = "awaiting_proposal_approval"
               PROVE  out = c \/ Over(c.proposal)
  BY <1>1, <1>4, <1>5 DEF WaitRespected
<1>7. CASE j.handler = "chat"
  <2>1. out = Asked(Answered(c, j.seen.workflow), isQuestion)
    BY <1>3, <1>5, <1>7 DEF PlanOutcome
  <2>2. j.seen.workflow \in WorkflowState
    BY <1>2, <1>7 DEF HandlerHolds, Seen
  <2>3. Answered(c, j.seen.workflow) \in {c, Rejected}
    BY <1>6, <2>2, AnsweredInWait
  <2>4. Asked(Rejected, isQuestion) = Rejected
    BY DEF Asked, Then
  <2>5. Asked(c, isQuestion) \in {c, Rejected}
    BY <1>6, AskedInWait
  <2> QED
    BY <1>5, <2>1, <2>3, <2>4, <2>5
<1>8. CASE j.handler = "decide"
  <2>1. out = Asked(Continued(c, j.proposal), isQuestion)
    BY <1>3, <1>5, <1>8 DEF PlanOutcome
  <2>2. Continued(c, j.proposal) # Rejected
    BY <1>5, <2>1 DEF Asked, Then
  <2>3. j.proposal \in ProposalId
    BY <1>2, <1>8 DEF HandlerHolds
  <2>4. c.proposal = j.proposal
    BY <2>2, <2>3, ContinuedOutcome
  <2> QED
    BY <1>2, <1>8, <2>4 DEF HandRespects
<1> QED
  BY <1>2, <1>7, <1>8

\* What was decided stays decided.
LEMMA OverStays ==
  ASSUME ContractTypeOK, [ContractNext]_contractVars, NEW p, Over(p)
  PROVE  Over(p)'
<1>1. p \in ProposalId /\ ledger[p] # Absent /\ ledger[p].status # "pending"
  BY DEF Over, Issued
<1>2. ledger \in [ProposalId -> Lifecycle \cup {Absent}]
  BY DEF ContractTypeOK
<1>3. ASSUME NEW q, NEW r, NEW base, NEW origin, Issue(q, r, base, origin)
      PROVE  ledger'[p] = ledger[p]
  BY <1>1, <1>2, <1>3 DEF Issue
<1>4. ASSUME NEW q, NEW status, Decide(q, status)
      PROVE  ledger'[p] = ledger[p]
  BY <1>1, <1>2, <1>4 DEF Decide
<1>5. ledger'[p] = ledger[p]
  <2>1. CASE UNCHANGED contractVars
    BY <2>1 DEF contractVars
  <2>2. CASE \E r \in Request : Save(r)
    BY <2>2 DEF Save
  <2>3. CASE \/ \E q \in ProposalId, r \in Request : Propose(q, r)
             \/ \E q, o \in ProposalId : ProposeUndo(q, o)
    BY <1>3, <2>3 DEF Propose, ProposeUndo
  <2>4. CASE \E q \in ProposalId : Approve(q) \/ Conflict(q) \/ Decline(q)
    BY <1>4, <2>4 DEF Approve, Conflict, Decline
  <2> QED
    BY <2>1, <2>2, <2>3, <2>4 DEF ContractNext
<1> QED
  BY <1>1, <1>5 DEF Over, Issued

\* A proposal a decision was taken on is over.
LEMMA ResolvedIsOver ==
  ASSUME ContractTypeOK, NEW p \in Issued, NEW decision \in {"approve", "reject"},
         Resolve(p, decision)
  PROVE  Over(p)'
<1>1. p \in ProposalId
  BY DEF Issued
<1>2. CASE ledger[p].status # "pending"
  BY <1>2 DEF Resolve, Over, Issued
<1>3. CASE ledger[p].status = "pending"
  <2>1. PICK status \in {"approved", "rejected", "expired", "conflicted", "failed"} : Decide(p, status)
    BY <1>3 DEF Resolve, Approve, Conflict
  <2>2. Issued' = Issued /\ ledger'[p].status = status
    BY <1>1, <2>1, DecideChanges
  <2> QED
    BY <2>1, <2>2 DEF Over
<1> QED
  BY <1>2, <1>3

(* A conversation keeps its workflow state and its reference.              *)
WorkflowStays(d) ==
  /\ d \in Opened'
  /\ conversations'[d].workflow = conversations[d].workflow
  /\ conversations'[d].proposal = conversations[d].proposal

(* A thread writes the outcome it has worked out, and has it no more.      *)
WrittenBy(w, d) ==
  /\ jobs[w].at \in {"persist", "ask"}
  /\ jobs[w].conversation = d
  /\ d \in Opened'
  /\ conversations'[d].workflow = jobs[w].outcome.workflow
  /\ conversations'[d].proposal = jobs[w].outcome.proposal
  /\ jobs'[w].at \notin {"persist", "ask"}

\* A write of another conversation, or of one that keeps its workflow.
LEMMA ReplaceLeavesWorkflow ==
  ASSUME SessionInvariant, NEW c, NEW record, Replace(c, record), NEW d \in Opened,
         c = d => /\ record \in Record
                  /\ record.workflow = conversations[d].workflow
                  /\ record.proposal = conversations[d].proposal
  PROVE  WorkflowStays(d)
<1>1. d \in Conversation /\ conversations \in [Conversation -> Record \cup {Absent}]
  BY DEF Opened, SessionInvariant, SessionTypeOK
<1>2. conversations'[d] = IF c = d THEN record ELSE conversations[d]
  BY <1>1 DEF Replace
<1> QED
  BY <1>1, <1>2, SessionAssumption DEF WorkflowStays, Opened

\* A write that leaves the workflow: the same record, other candidates or another status.
Touches(c) ==
  /\ c \in Opened
  /\ \/ Replace(c, conversations[c])
     \/ \E v \in Nat \cup {None} : Replace(c, [conversations[c] EXCEPT !.candidates = v])
     \/ \E v \in Status : Replace(c, [conversations[c] EXCEPT !.status = v])

\* It leaves the workflow of every conversation.
LEMMA TouchLeavesWorkflow ==
  ASSUME SessionInvariant, NEW c, Touches(c), NEW d \in Opened
  PROVE  WorkflowStays(d)
<1>1. conversations[c] \in Record
  BY OpenedIsRecord DEF Touches
<1>2. PICK record : /\ Replace(c, record)
                    /\ \/ record = conversations[c]
                       \/ \E v \in Nat \cup {None} : record = [conversations[c] EXCEPT !.candidates = v]
                       \/ \E v \in Status : record = [conversations[c] EXCEPT !.status = v]
  BY DEF Touches
<1>3. /\ record \in Record
      /\ record.workflow = conversations[c].workflow
      /\ record.proposal = conversations[c].proposal
  BY <1>1, <1>2 DEF Record
<1> QED
  BY <1>2, <1>3, ReplaceLeavesWorkflow

\* Conversations nobody writes keep their workflow.
LEMMA UnchangedLeavesWorkflow ==
  ASSUME UNCHANGED conversations, NEW d \in Opened
  PROVE  WorkflowStays(d)
BY DEF WorkflowStays, Opened

\* Forgetting candidates moves no workflow.
LEMMA ForgetLeavesWorkflow ==
  ASSUME SessionInvariant, NEW r, ForgetCandidates(r), NEW d \in Opened
  PROVE  WorkflowStays(d)
<1>1. d \in Conversation /\ conversations[d] \in Record
  BY OpenedIsRecord
<1>2. conversations'[d] \in {conversations[d], [conversations[d] EXCEPT !.candidates = None]}
  BY <1>1 DEF ForgetCandidates
<1>3. /\ conversations'[d] \in Record
      /\ conversations'[d].workflow = conversations[d].workflow
      /\ conversations'[d].proposal = conversations[d].proposal
  BY <1>1, <1>2 DEF Record
<1> QED
  BY <1>1, <1>3, SessionAssumption DEF WorkflowStays, Opened

(***************************************************************************)
(* An outcome is written over the conversation it was worked out for.      *)
(***************************************************************************)
LEMMA OutcomeIsWritten ==
  ASSUME SessionInvariant, NEW w \in Worker, DispatchPersist(w) \/ Ask(w), NEW d \in Opened
  PROVE  WorkflowStays(d) \/ WrittenBy(w, d)
<1>1. PICK j : j = jobs[w]
  OBVIOUS
<1>2. /\ j \in Job /\ HandsHold(j) /\ j.at \in {"persist", "ask"}
      /\ jobs \in [Worker -> Job] /\ d \in Conversation
      /\ conversations \in [Conversation -> Record \cup {Absent}]
  BY <1>1, JobHolds DEF DispatchPersist, Ask, SessionInvariant, SessionTypeOK, Opened
<1>3. CASE UNCHANGED conversations
  BY <1>3, UnchangedLeavesWorkflow
<1>4. CASE ~UNCHANGED conversations
  <2>1. /\ Active(j.conversation) /\ Replace(j.conversation, Moved(j.conversation, j.outcome))
        /\ Done(w) \/ Goto(w, [j EXCEPT !.at = "register", !.outcome = None])
    BY <1>1, <1>4 DEF DispatchPersist, DispatchFailed, Ask, OnlyJob
  <2>2. jobs'[w].at \notin {"persist", "ask"}
    <3>1. CASE Done(w)
      BY <1>2, <3>1, IdleIsJob DEF Done, Goto
    <3>2. CASE Goto(w, [j EXCEPT !.at = "register", !.outcome = None])
      BY <1>2, <3>2 DEF Goto, Job
    <3> QED
      BY <2>1, <3>1, <3>2
  <2>3. CASE j.conversation # d
    BY <2>1, <2>3, ReplaceLeavesWorkflow
  <2>4. CASE j.conversation = d
    <3>1. conversations[d] \in Record /\ j.outcome \in Context
      BY <1>2, OpenedIsRecord DEF HandsHold
    <3>2. conversations'[d] = Moved(d, j.outcome)
      BY <1>2, <2>1, <2>4 DEF Replace
    <3>3. /\ Moved(d, j.outcome) \in Record
          /\ Moved(d, j.outcome).workflow = j.outcome.workflow
          /\ Moved(d, j.outcome).proposal = j.outcome.proposal
      BY <3>1 DEF Moved, Record, Context
    <3>4. d \in Opened'
      BY <1>2, <3>2, <3>3, SessionAssumption DEF Opened
    <3> QED
      BY <1>1, <1>2, <2>2, <2>4, <3>2, <3>3, <3>4 DEF WrittenBy
  <2> QED
    BY <2>3, <2>4
<1> QED
  BY <1>3, <1>4

(***************************************************************************)
(* A step leaves the workflow of a conversation, unless a thread writes    *)
(* there what it has worked out.                                           *)
(***************************************************************************)
LEMMA StepLeavesWorkflow ==
  ASSUME SessionInvariant, [SessionNext]_vars, NEW d \in Opened
  PROVE  WorkflowStays(d) \/ \E w \in Worker : WrittenBy(w, d)
<1>1. ASSUME NEW w \in Worker, Receive(w) \/ EnterFollowup(w)
      PROVE  WorkflowStays(d)
  <2>1. UNCHANGED conversations
    BY <1>1 DEF Receive, EnterFollowup, ChatRead, MessageRead, TakeDecision, SaveForm, OnlyJob
  <2> QED
    BY <2>1, UnchangedLeavesWorkflow
<1>2. ASSUME NEW w \in Worker, Proceed(w)
      PROVE  WorkflowStays(d) \/ WrittenBy(w, d)
  <2>1. CASE ChatLook(w) \/ ChatReply(w) \/ ChatRecord(w)
    <3>1. UNCHANGED conversations \/ \E c : Touches(c)
      BY <2>1 DEF ChatLook, ChatReply, ChatRecord, OnlyJob, Touch, Active, Touches
    <3> QED
      BY <3>1, UnchangedLeavesWorkflow, TouchLeavesWorkflow
  <2>2. CASE ChatForget(w) \/ ChatKeep(w) \/ ChatDrop(w)
    <3>1. jobs[w].base \in Nat \cup {None}
      BY JobHolds DEF Job
    <3>2. UNCHANGED conversations \/ \E c : Touches(c)
      BY <2>2, <3>1 DEF ChatForget, ChatKeep, ChatDrop, OnlyJob, Active, Touches
    <3> QED
      BY <3>2, UnchangedLeavesWorkflow, TouchLeavesWorkflow
  <2>3. CASE DispatchRead(w) \/ Plan(w) \/ MessageEnd(w) \/ Register(w) \/ ChatThink(w)
    <3>1. UNCHANGED conversations
      BY <2>3 DEF DispatchRead, DispatchFailed, Plan, MessageEnd, Register, ChatThink, OnlyJob
    <3> QED
      BY <3>1, UnchangedLeavesWorkflow
  <2>4. CASE ChatCreate(w) \/ MessageCreate(w) \/ MessageCorrect(w) \/ CreateFollowup(w) \/ ExpireFollowup(w)
    <3>1. UNCHANGED conversations
      BY <2>4 DEF ChatCreate, MessageCreate, MessageCorrect, CreateFollowup, ExpireFollowup, OnlyJob, NewProposal
    <3> QED
      BY <3>1, UnchangedLeavesWorkflow
  <2>5. CASE AfterDecision(w) \/ InvalidateCandidates(w)
    <3>1. UNCHANGED conversations \/ \E r : ForgetCandidates(r)
      BY <2>5 DEF AfterDecision, InvalidateCandidates
    <3> QED
      BY <3>1, UnchangedLeavesWorkflow, ForgetLeavesWorkflow
  <2>6. CASE DispatchPersist(w) \/ Ask(w)
    BY <2>6, OutcomeIsWritten
  <2> QED
    BY <1>2, <2>1, <2>2, <2>3, <2>4, <2>5, <2>6 DEF Proceed
<1>3. ASSUME NEW q \in ProposalId, NEW p \in ProposalId, Undo(q, p)
      PROVE  WorkflowStays(d)
  BY <1>3, UnchangedLeavesWorkflow DEF Undo
<1>4. ASSUME NEW c \in Conversation, NEW r \in Request, NEW p \in ProposalId \cup {None}, Open(c, r, p)
      PROVE  WorkflowStays(d)
  <2>1. c # d /\ \E record : Replace(c, record)
    BY <1>4 DEF Open, Opened
  <2> QED
    BY <2>1, ReplaceLeavesWorkflow
<1>5. ASSUME NEW c \in Conversation, Pause(c) \/ Resume(c) \/ Close(c)
      PROVE  WorkflowStays(d)
  <2>1. Touches(c)
    BY <1>5 DEF Pause, Resume, Close, ChangeStatus, Status, Touches
  <2> QED
    BY <2>1, TouchLeavesWorkflow
<1>6. CASE UNCHANGED vars
  BY <1>6, UnchangedLeavesWorkflow DEF vars, sessionVars
<1> QED
  BY <1>1, <1>2, <1>3, <1>4, <1>5, <1>6 DEF SessionNext

(***************************************************************************)
(* What a thread has in its hands after a step, when it is the only one    *)
(* that moves.                                                             *)
(***************************************************************************)
LEMMA ThreadsMove ==
  ASSUME SessionInvariant, SessionNext, NEW v \in Worker, jobs'[v] # jobs[v]
  PROVE  Receive(v) \/ Proceed(v) \/ EnterFollowup(v)
<1>1. jobs \in [Worker -> Job]
  BY DEF SessionInvariant, SessionTypeOK
<1>2. ASSUME NEW w \in Worker, NEW k, Goto(w, k)
      PROVE  w = v
  BY <1>1, <1>2 DEF Goto
<1>3. ASSUME NEW w \in Worker, Receive(w)
      PROVE  \E k : Goto(w, k)
  BY <1>3 DEF Receive, ChatRead, MessageRead, TakeDecision, SaveForm, Begin
<1>4. ASSUME NEW w \in Worker, Proceed(w) \/ EnterFollowup(w)
      PROVE  \E k : Goto(w, k)
  <2>1. CASE ChatLook(w) \/ ChatForget(w) \/ ChatThink(w) \/ ChatReply(w) \/ ChatKeep(w)
    BY <2>1 DEF ChatLook, ChatForget, ChatThink, ChatReply, ChatKeep, Done
  <2>2. CASE ChatCreate(w) \/ ChatRecord(w) \/ ChatDrop(w) \/ MessageEnd(w)
    BY <2>2 DEF ChatCreate, ChatRecord, ChatDrop, MessageEnd, Done
  <2>3. CASE MessageCreate(w) \/ MessageCorrect(w) \/ DispatchRead(w) \/ DispatchPersist(w)
    BY <2>3 DEF MessageCreate, MessageCorrect, DispatchRead, DispatchPersist, DispatchFailed, Done
  <2>4. CASE Register(w) \/ Plan(w) \/ AfterDecision(w) \/ Ask(w)
    BY <2>4 DEF Register, Plan, PlanFailed, AfterDecision, Ask, Done
  <2>5. CASE CreateFollowup(w) \/ ExpireFollowup(w) \/ InvalidateCandidates(w) \/ EnterFollowup(w)
    BY <2>5 DEF CreateFollowup, ExpireFollowup, InvalidateCandidates, EnterFollowup, Done
  <2> QED
    BY <1>4, <2>1, <2>2, <2>3, <2>4, <2>5 DEF Proceed
<1>5. ASSUME NEW c \in Conversation, Pause(c) \/ Resume(c) \/ Close(c)
      PROVE  FALSE
  BY <1>5 DEF Pause, Resume, Close, ChangeStatus
<1>6. ASSUME NEW q \in ProposalId, NEW p \in ProposalId, Undo(q, p)
      PROVE  FALSE
  BY <1>6 DEF Undo
<1>7. ASSUME NEW c \in Conversation, NEW r \in Request, NEW p \in ProposalId \cup {None}, Open(c, r, p)
      PROVE  FALSE
  BY <1>7 DEF Open
<1> QED
  BY <1>2, <1>3, <1>4, <1>5, <1>6, <1>7 DEF SessionNext

(* Where a step takes a thread, as far as waits are concerned: it rests or *)
(* deals with no decision, it goes on with the same one, or it has just    *)
(* taken one; and it has no outcome but by working one out.                *)
Passes(j, k) ==
  /\ k.at \notin {"persist", "ask"}
  /\ k.at # "idle" /\ k.handler = "decide" =>
       j.at # "idle" /\ j.handler = "decide" /\ k.proposal = j.proposal

\* A thread at rest deals with nothing.
LEMMA IdlePasses ==
  ASSUME NEW j
  PROVE  Passes(j, Idle)
BY DEF Idle, Passes

(***************************************************************************)
(* A step in the middle of a request passes, or works out an outcome.      *)
(***************************************************************************)
LEMMA ProceedPasses ==
  ASSUME SessionInvariant, NEW w \in Worker, Proceed(w) \/ EnterFollowup(w)
  PROVE  Passes(jobs[w], jobs'[w]) \/ DispatchRead(w) \/ Plan(w)
<1>1. PICK j : j = jobs[w]
  OBVIOUS
<1>2. /\ j \in Job /\ HandlerHolds(j) /\ HandsHold(j) /\ jobs \in [Worker -> Job]
  BY <1>1, JobHolds DEF SessionInvariant, SessionTypeOK
<1>3. ASSUME NEW k, Goto(w, k), Passes(j, k)
      PROVE  Passes(jobs[w], jobs'[w])
  BY <1>1, <1>2, <1>3 DEF Goto
<1>4. CASE Done(w)
  BY <1>1, <1>3, <1>4, IdlePasses DEF Done
<1>5. CASE ChatLook(w) \/ ChatForget(w)
  <2> DEFINE looked == [j EXCEPT !.at = "think", !.base = version[j.request],
                                 !.pending = PendingOf(j.request)]
             again(record) == [looked EXCEPT !.seen = SeenOf(record)]
             forgot(record) == [j EXCEPT !.seen = SeenOf(record)]
  <2>1. j.at \in {"look", "think"} /\ j.handler # "decide"
    BY <1>1, <1>2, <1>5 DEF ChatLook, ChatForget, HandlerHolds
  <2>2. /\ Passes(j, looked)
        /\ \A record : Passes(j, again(record)) /\ Passes(j, forgot(record))
    BY <1>2, <2>1 DEF Job, Passes
  <2>3. \/ Done(w) \/ Goto(w, looked)
        \/ \E record : Goto(w, again(record)) \/ Goto(w, forgot(record))
    BY <1>1, <1>5 DEF ChatLook, ChatForget
  <2> HIDE DEF looked, again, forgot
  <2> QED
    BY <1>3, <1>4, <2>2, <2>3
<1>6. CASE ChatThink(w)
  <2> DEFINE next == {[j EXCEPT !.at = "reply", !.seen = None, !.base = None, !.pending = None],
                      [j EXCEPT !.at = "clarify", !.seen = None, !.pending = None],
                      [j EXCEPT !.at = "reply", !.seen = None, !.base = None],
                      [j EXCEPT !.at = "answer", !.seen = None, !.base = None],
                      [j EXCEPT !.at = "create"]}
  <2>1. j.handler # "decide"
    BY <1>1, <1>2, <1>6 DEF ChatThink, HandlerHolds
  <2>2. \A k \in next : Passes(j, k)
    BY <1>2, <2>1 DEF Job, Passes
  <2>3. Done(w) \/ \E k \in next : Goto(w, k)
    BY <1>1, <1>6 DEF ChatThink
  <2> HIDE DEF next
  <2> QED
    BY <1>3, <1>4, <2>2, <2>3
<1>7. CASE ChatCreate(w) \/ MessageEnd(w) \/ MessageCreate(w) \/ MessageCorrect(w)
  <2> DEFINE proposed(at, p) == [j EXCEPT !.at = at, !.proposal = p, !.base = None]
             refused == [j EXCEPT !.at = "reply", !.seen = None, !.base = None,
                                  !.pending = PendingOf(j.request)]
  <2>1. j.handler # "decide"
    BY <1>1, <1>2, <1>7 DEF ChatCreate, MessageEnd, MessageCreate, MessageCorrect, HandlerHolds
  <2>2. /\ Passes(j, refused)
        /\ \A p : Passes(j, proposed("dispatch", p)) /\ Passes(j, proposed("register", p))
    BY <1>2, <2>1 DEF Job, Passes
  <2>3. \/ Done(w) \/ Goto(w, refused)
        \/ \E p : Goto(w, proposed("dispatch", p)) \/ Goto(w, proposed("register", p))
    BY <1>1, <1>7 DEF ChatCreate, MessageEnd, MessageCreate, MessageCorrect
  <2> HIDE DEF proposed, refused
  <2> QED
    BY <1>3, <1>4, <2>2, <2>3
<1>8. CASE ChatReply(w) \/ ChatKeep(w) \/ ChatRecord(w) \/ ChatDrop(w)
  <2> DEFINE next == {[j EXCEPT !.at = "plan", !.seen = SeenOf(conversations[j.conversation])],
                      [j EXCEPT !.at = "keep"], [j EXCEPT !.at = "drop"]}
  <2>1. \/ j.at = "record" /\ j.handler \in {"chat", "decide"}
        \/ j.at \in {"reply", "answer", "clarify", "keep", "drop"} /\ j.handler # "decide"
    BY <1>1, <1>2, <1>8 DEF ChatReply, ChatKeep, ChatRecord, ChatDrop, HandlerHolds
  <2>2. \A k \in next : Passes(j, k)
    BY <1>2, <2>1 DEF Job, Passes
  <2>3. Done(w) \/ \E k \in next : Goto(w, k)
    <3>1. CASE ChatReply(w)
      <4>1. CASE j.at = "reply"
        BY <1>1, <3>1, <4>1 DEF ChatReply
      <4>2. CASE j.at = "answer"
        BY <1>1, <3>1, <4>2 DEF ChatReply
      <4>3. CASE j.at = "clarify"
        BY <1>1, <3>1, <4>3 DEF ChatReply
      <4> QED
        BY <1>1, <3>1, <4>1, <4>2, <4>3 DEF ChatReply
    <3>2. CASE ChatKeep(w) \/ ChatRecord(w) \/ ChatDrop(w)
      BY <1>1, <3>2 DEF ChatKeep, ChatRecord, ChatDrop
    <3> QED
      BY <1>8, <3>1, <3>2
  <2> HIDE DEF next
  <2> QED
    BY <1>3, <1>4, <2>2, <2>3
<1>9. CASE DispatchPersist(w) \/ Register(w) \/ Ask(w) \/ InvalidateCandidates(w)
  <2> DEFINE stages == {"register", "expire", "dispatch"}
             written(at) == [j EXCEPT !.at = at, !.outcome = None]
             registered == [j EXCEPT !.at = "record"]
  <2>1. j.at # "idle"
    BY <1>1, <1>9 DEF DispatchPersist, Register, Ask, InvalidateCandidates
  <2>2. ASSUME NEW at \in stages
        PROVE  Passes(j, written(at))
    BY <1>2, <2>1 DEF Job, Passes
  <2>3. Passes(j, registered)
    BY <1>2, <2>1 DEF Job, Passes
  <2>4. Done(w) \/ Goto(w, registered) \/ \E at \in stages : Goto(w, written(at))
    BY <1>1, <1>9
       DEF DispatchPersist, DispatchFailed, Register, Ask, PlanFailed, InvalidateCandidates
  <2> HIDE DEF stages, written, registered
  <2> QED
    BY <1>3, <1>4, <2>2, <2>3, <2>4
<1>10. CASE AfterDecision(w) \/ EnterFollowup(w) \/ CreateFollowup(w) \/ ExpireFollowup(w)
  <2> DEFINE stages == {"enter", "plan", "dispatch", "follow"}
             reported(at, c) == [j EXCEPT !.at = at, !.conversation = c]
             moved(at) == [j EXCEPT !.at = at]
             followed(at, f) == [j EXCEPT !.at = at, !.followup = f]
  <2>1. j.at # "idle"
    BY <1>1, <1>10 DEF AfterDecision, EnterFollowup, CreateFollowup, ExpireFollowup
  <2>2. ASSUME NEW at \in stages
        PROVE  Passes(j, moved(at)) /\ \A v : Passes(j, reported(at, v)) /\ Passes(j, followed(at, v))
    <3>1. Passes(j, moved(at))
      BY <1>2, <2>1 DEF Job, Passes
    <3>2. ASSUME NEW v
          PROVE  Passes(j, reported(at, v))
      BY <1>2, <2>1 DEF Job, Passes
    <3>3. ASSUME NEW v
          PROVE  Passes(j, followed(at, v))
      BY <1>2, <2>1 DEF Job, Passes
    <3> HIDE DEF reported, moved, followed
    <3> QED
      BY <3>1, <3>2, <3>3
  <2>3. \/ Done(w)
        \/ \E at \in stages : Goto(w, moved(at)) \/ \E v : Goto(w, reported(at, v)) \/ Goto(w, followed(at, v))
    <3>1. CASE AfterDecision(w)
      <4>1. \/ Done(w)
            \/ \E next \in {"enter", "plan", "dispatch"} : Goto(w, reported(next, linked[j.proposal]))
        <5>1. CASE ledger[j.proposal].status = "approved"
          BY <1>1, <3>1, <5>1 DEF AfterDecision
        <5>2. CASE ledger[j.proposal].status = "rejected"
          BY <1>1, <3>1, <5>2 DEF AfterDecision
        <5>3. CASE ledger[j.proposal].status \notin {"approved", "rejected"}
          BY <1>1, <3>1, <5>3 DEF AfterDecision
        <5> QED
          BY <5>1, <5>2, <5>3
      <4> HIDE DEF reported
      <4> QED
        BY <4>1
    <3>2. CASE EnterFollowup(w)
      BY <1>1, <3>2 DEF EnterFollowup
    <3>3. CASE CreateFollowup(w) \/ ExpireFollowup(w)
      BY <1>1, <3>3 DEF CreateFollowup, ExpireFollowup
    <3> QED
      BY <1>10, <3>1, <3>2, <3>3
  <2> HIDE DEF stages, reported, moved, followed
  <2> QED
    BY <1>3, <1>4, <2>2, <2>3
<1> QED
  BY <1>5, <1>6, <1>7, <1>8, <1>9, <1>10 DEF Proceed

\* A new request of a client passes, or is a decision on a proposal that is over then.
LEMMA ReceivePasses ==
  ASSUME SessionInvariant, NEW w \in Worker, Receive(w)
  PROVE  /\ jobs'[w].at \notin {"persist", "ask"}
         /\ \A p : jobs'[w].handler = "decide" /\ jobs'[w].proposal = p => Over(p)'
<1>1. jobs \in [Worker -> Job] /\ ContractTypeOK /\ disclosed \subseteq Issued
  BY DEF SessionInvariant, SessionTypeOK
<1>2. ASSUME NEW p \in ProposalId, NEW decision \in {"approve", "reject"}, TakeDecision(w, p, decision)
      PROVE  jobs'[w].at = "decided" /\ jobs'[w].proposal = p /\ Over(p)'
  <2>1. jobs'[w] = [Idle EXCEPT !.at = "decided", !.handler = "decide", !.proposal = p,
                                !.request = ledger[p].request]
    BY <1>1, <1>2 DEF TakeDecision, Goto
  <2>2. p \in Issued /\ Resolve(p, decision)
    BY <1>1, <1>2 DEF TakeDecision
  <2> QED
    BY <1>1, <2>1, <2>2, ResolvedIsOver DEF Idle
<1>3. ASSUME NEW c \in Conversation, ChatRead(w, c) \/ MessageRead(w, c)
      PROVE  jobs'[w].at \in {"look", "extract"} /\ jobs'[w].handler # "decide"
  BY <1>1, <1>3 DEF ChatRead, MessageRead, Goto, Idle
<1>4. ASSUME NEW r \in Request, SaveForm(w, r)
      PROVE  jobs'[w].at = "invalidate" /\ jobs'[w].handler # "decide"
  BY <1>1, <1>4 DEF SaveForm, Goto, Idle
<1> QED
  BY <1>2, <1>3, <1>4 DEF Receive

(***************************************************************************)
(* What is about to be written still respects the wait after a step that   *)
(* leaves the workflow.                                                    *)
(***************************************************************************)
LEMMA RespectStays ==
  ASSUME NEW d, NEW out, WaitRespected(d, out), WorkflowStays(d),
         \A p : Over(p) => Over(p)'
  PROVE  WaitRespected(d, out)'
BY DEF WaitRespected, WorkflowStays

\* A thread that works an outcome out respects the wait it found.
LEMMA OutcomeRespects ==
  ASSUME SessionInvariant, NEW w \in Worker, HandRespects(jobs[w]), DispatchRead(w) \/ Plan(w)
  PROVE  HandRespects(jobs'[w])
<1>1. PICK j : j = jobs[w]
  OBVIOUS
<1>2. /\ j \in Job /\ HandRespects(j) /\ jobs \in [Worker -> Job]
      /\ j.at \in {"dispatch", "plan"}
  BY <1>1, JobHolds DEF SessionInvariant, SessionTypeOK, DispatchRead, Plan
<1>3. ASSUME NEW k, Goto(w, k), Passes(j, k)
      PROVE  HandRespects(jobs'[w])
  BY <1>2, <1>3 DEF Goto, Passes, HandRespects
<1>4. CASE Done(w)
  BY <1>3, <1>4, IdlePasses DEF Done
<1>5. ASSUME NEW at \in {"expire", "dispatch"}, Goto(w, [j EXCEPT !.at = at, !.outcome = None])
      PROVE  HandRespects(jobs'[w])
  <2>1. PICK k : k = [j EXCEPT !.at = at, !.outcome = None]
    OBVIOUS
  <2>2. Passes(j, k)
    BY <1>2, <2>1 DEF Passes, Job
  <2> QED
    BY <1>3, <1>5, <2>1, <2>2
<1>6. ASSUME NEW at \in {"persist", "ask"}, NEW out, WaitRespected(j.conversation, out),
             Goto(w, [j EXCEPT !.at = at, !.outcome = out])
      PROVE  HandRespects(jobs'[w])
  <2>1. PICK k : k = [j EXCEPT !.at = at, !.outcome = out]
    OBVIOUS
  <2>2. /\ k.handler = j.handler /\ k.proposal = j.proposal
        /\ k.conversation = j.conversation /\ k.outcome = out
    BY <1>2, <2>1 DEF Job
  <2>3. HandRespects(k)
    BY <1>2, <1>6, <2>2 DEF HandRespects
  <2> QED
    BY <1>2, <1>6, <2>1, <2>3 DEF Goto
<1>7. CASE DispatchRead(w)
  <2>1. CASE DispatchFailed(w)
    BY <1>1, <1>4, <1>5, <2>1 DEF DispatchFailed
  <2>2. CASE ~DispatchFailed(w)
    <3>1. /\ j.at = "dispatch" /\ DispatchOutcome(j) # Rejected
          /\ Goto(w, [j EXCEPT !.at = "persist", !.outcome = DispatchOutcome(j)])
      BY <1>1, <1>7, <2>2 DEF DispatchRead
    <3>2. WaitRespected(j.conversation, DispatchOutcome(j))
      BY <1>1, <1>2, <3>1, DispatchRespects
    <3> QED
      BY <1>6, <3>1, <3>2
  <2> QED
    BY <2>1, <2>2
<1>8. CASE Plan(w)
  <2>1. PICK isQuestion \in BOOLEAN :
          \/ /\ PlanOutcome(j, isQuestion) # Rejected
             /\ Goto(w, [j EXCEPT !.at = "ask", !.outcome = PlanOutcome(j, isQuestion)])
          \/ PlanFailed(w)
    BY <1>1, <1>8 DEF Plan
  <2>2. CASE PlanFailed(w)
    BY <1>1, <1>4, <1>5, <2>2 DEF PlanFailed
  <2>3. CASE ~PlanFailed(w)
    <3>1. WaitRespected(j.conversation, PlanOutcome(j, isQuestion))
      BY <1>1, <1>2, <1>8, <2>1, <2>3, PlanRespects DEF Plan
    <3> QED
      BY <1>6, <2>1, <2>3, <3>1
  <2> QED
    BY <2>2, <2>3
<1> QED
  BY <1>7, <1>8

(***************************************************************************)
(* One request after the other, every step respects the waits: nobody      *)
(* writes between a thread's reading of a conversation and its writing.    *)
(***************************************************************************)
LEMMA OneThreadKeeps ==
  ASSUME OneThreadInvariant, [SessionNext]_vars
  PROVE  OneThreadInvariant'
<1>1. /\ SessionInvariant /\ SessionInvariant' /\ OneAtATime
      /\ ContractTypeOK /\ [ContractNext]_contractVars
  BY SessionNextKeeps, SessionStepsAreContractSteps
     DEF OneThreadInvariant, SessionInvariant, SessionTypeOK
<1>2. \A p : Over(p) => Over(p)'
  BY <1>1, OverStays
<1>3. ASSUME NEW w \in Worker
      PROVE  HandRespects(jobs[w])'
  <2>1. PICK j : j = jobs[w]
    OBVIOUS
  <2>2. HandRespects(j) /\ HandlerHolds(j) /\ HandsHold(j)
    BY <1>1, <2>1, JobHolds DEF OneThreadInvariant
  <2>3. PICK k : k = jobs'[w]
    OBVIOUS
  <2>4. SUFFICES HandRespects(k)'
    BY <2>3
  <2>5. CASE k = j
    <3>1. j.at # "idle" /\ j.handler = "decide" => Over(j.proposal)'
      BY <1>2, <2>2 DEF HandRespects
    <3>2. ASSUME j.at \in {"persist", "ask"}
          PROVE  WaitRespected(j.conversation, j.outcome)'
      <4>1. j.conversation \in Opened
        BY <2>2, <3>2, SessionAssumption DEF HandlerHolds, HandsHold
      <4>2. WorkflowStays(j.conversation)
        <5>1. ASSUME NEW v \in Worker, WrittenBy(v, j.conversation)
              PROVE  FALSE
          BY <1>1, <2>1, <2>3, <2>5, <3>2, <5>1 DEF OneAtATime, WrittenBy
        <5> QED
          BY <1>1, <4>1, <5>1, StepLeavesWorkflow
      <4>3. WaitRespected(j.conversation, j.outcome)
        BY <2>2, <3>2 DEF HandRespects
      <4> QED
        BY <1>2, <4>2, <4>3, RespectStays
    <3> QED
      BY <2>5, <3>1, <3>2 DEF HandRespects
  <2>6. CASE k # j
    <3>1. Receive(w) \/ Proceed(w) \/ EnterFollowup(w)
      BY <1>1, <2>1, <2>3, <2>6, ThreadsMove DEF vars, sessionVars
    <3>2. CASE Receive(w)
      BY <1>1, <2>3, <3>2, ReceivePasses DEF HandRespects
    <3>3. CASE DispatchRead(w) \/ Plan(w)
      <4>1. HandRespects(k)
        BY <1>1, <2>1, <2>2, <2>3, <3>3, OutcomeRespects
      <4>2. UNCHANGED <<ledger, conversations>>
        BY <3>3 DEF DispatchRead, DispatchFailed, Plan, OnlyJob
      <4> QED
        BY <4>1, <4>2 DEF HandRespects, WaitRespected, Over, Issued
    <3>4. CASE Passes(j, k)
      BY <1>2, <2>2, <3>4 DEF Passes, HandRespects
    <3> QED
      BY <1>1, <2>1, <2>3, <3>1, <3>2, <3>3, <3>4, ProceedPasses
  <2> QED
    BY <2>5, <2>6
<1>4. OneAtATime'
  BY <1>1 DEF OneAtATime
<1> QED
  BY <1>1, <1>3, <1>4 DEF OneThreadInvariant

(***************************************************************************)
(* A wait that ends is one whose proposal was decided.                     *)
(***************************************************************************)
LEMMA StepEndsDecidedWaits ==
  ASSUME OneThreadInvariant, [SessionNext]_vars, NEW c \in Conversation, NEW p \in ProposalId,
         Awaits(c, p), ~Awaits(c, p)'
  PROVE  ledger[p].status # "pending"
<1>1. SessionInvariant /\ c \in Opened
  BY DEF OneThreadInvariant, Awaits
<1>2. ~WorkflowStays(c)
  BY DEF WorkflowStays, Awaits
<1>3. PICK w \in Worker : WrittenBy(w, c)
  BY <1>1, <1>2, StepLeavesWorkflow
<1>4. WaitRespected(c, jobs[w].outcome)
  BY <1>3 DEF OneThreadInvariant, HandRespects, WrittenBy
<1> QED
  BY <1>3, <1>4 DEF WaitRespected, WrittenBy, Awaits, Over

-----------------------------------------------------------------------------
(* What holds of every session.                                            *)

(***************************************************************************)
(* The invariant holds in every state of every session.                    *)
(***************************************************************************)
THEOREM SessionInvariantHolds == SessionSpec => []SessionInvariant
<1>1. SessionInit => SessionInvariant
  BY SessionInitInvariant
<1>2. SessionInvariant /\ [SessionNext]_vars => SessionInvariant'
  BY SessionNextKeeps
<1> QED
  BY <1>1, <1>2, PTL DEF SessionSpec

(***************************************************************************)
(* What the stores, the links and the local variables of the handlers hold *)
(* is of its kind, and only issued proposals are disclosed.                *)
(***************************************************************************)
THEOREM SessionTypesHold == SessionSpec => []SessionTypeOK
<1>1. SessionInvariant => SessionTypeOK
  BY DEF SessionInvariant
<1> QED
  BY <1>1, SessionInvariantHolds, PTL

(***************************************************************************)
(* A conversation waits for, and a decision reports to a conversation      *)
(* about, a recorded proposal of the same request, however the reads and   *)
(* writes of the handlers interleave.                                      *)
(***************************************************************************)
THEOREM ProposalsStayHomeHolds == SessionSpec => []ProposalsStayHome
<1>1. ASSUME SessionInvariant
      PROVE  ProposalsStayHome
  <2>1. ASSUME NEW c \in Conversation, NEW p \in ProposalId \cup {None}, Awaits(c, p)
        PROVE  p \in Issued /\ ledger[p].request = conversations[c].request
    BY <1>1, <2>1 DEF SessionInvariant, ConversationHolds, Awaits, Home
  <2>2. ASSUME NEW p \in ProposalId, linked[p] # None
        PROVE  /\ p \in Issued
               /\ linked[p] \in Opened
               /\ conversations[linked[p]].request = ledger[p].request
    BY <1>1, <2>2 DEF SessionInvariant, LinkHolds, Home
  <2> QED
    BY <2>1, <2>2 DEF ProposalsStayHome
<1> QED
  BY <1>1, SessionInvariantHolds, PTL

(***************************************************************************)
(* A follow-up proposal that is still pending is registered with its       *)
(* conversation or in the hands of the decision that made it.              *)
(***************************************************************************)
THEOREM FollowupIsShownHolds == SessionSpec => []FollowupIsShown
<1>1. SessionInvariant => FollowupIsShown
  BY DEF SessionInvariant
<1> QED
  BY <1>1, SessionInvariantHolds, PTL

(***************************************************************************)
(* However threads interleave, the calls the handlers make of the proposal *)
(* service are steps its contract allows.                                  *)
(***************************************************************************)
THEOREM SessionImplementsContract == SessionSpec => ContractSpec
<1>1. SessionInit => ContractInit
  BY DEF SessionInit
<1>2. SessionInvariant /\ [SessionNext]_vars => [ContractNext]_contractVars
  BY SessionStepsAreContractSteps
<1> QED
  BY <1>1, <1>2, SessionInvariantHolds, PTL DEF SessionSpec, ContractSpec

(***************************************************************************)
(* Two approvals never wrote the same version of a request, whichever      *)
(* conversations and threads they were decided in.                         *)
(***************************************************************************)
THEOREM SessionApprovesOncePerVersion == SessionSpec => []OneApprovalPerVersion
BY SessionImplementsContract, ContractHolds, PTL

(***************************************************************************)
(* A paused or closed conversation keeps its workflow state and its        *)
(* reference, whatever was worked out before, and a closed one stays so.   *)
(***************************************************************************)
THEOREM InactiveFrozenHolds == SessionSpec => InactiveFrozen
<1>1. ASSUME SessionInvariant, [SessionNext]_vars
      PROVE  [\A c \in Opened :
               conversations[c].status # "active" =>
                 /\ conversations'[c].workflow = conversations[c].workflow
                 /\ conversations'[c].proposal = conversations[c].proposal
                 /\ conversations[c].status = "closed" => conversations'[c].status = "closed"]_vars
  BY <1>1, StepFreezes DEF FrozenAt
<1> QED
  BY <1>1, SessionInvariantHolds, PTL DEF SessionSpec, InactiveFrozen

(***************************************************************************)
(* A decision asks its next question out of the wait for that very         *)
(* proposal, on the version of the conversation it planned on.             *)
(***************************************************************************)
THEOREM QuestionEndsWaitHolds == SessionSpec => QuestionEndsWait
<1>1. ASSUME SessionInvariant, [SessionNext]_vars
      PROVE  [\A w \in Worker :
               /\ jobs[w].handler = "decide"
               /\ jobs[w].at = "ask"
               /\ jobs'[w] = Idle
               => Awaits(jobs[w].conversation, jobs[w].proposal)]_vars
  BY <1>1, QuestionStepEndsWait
<1> QED
  BY <1>1, SessionInvariantHolds, PTL DEF SessionSpec, QuestionEndsWait

(***************************************************************************)
(* One request after the other, the invariant holds that every decision    *)
(* and every outcome respects the wait it is about.                        *)
(***************************************************************************)
THEOREM OneThreadInvariantHolds == SessionSpec /\ OneAtATime => []OneThreadInvariant
<1>1. SessionInit /\ OneAtATime => OneThreadInvariant
  <2> SUFFICES ASSUME SessionInit, OneAtATime
               PROVE  OneThreadInvariant
    OBVIOUS
  <2>1. \A w \in Worker : jobs[w] = Idle
    BY DEF SessionInit
  <2>2. HandRespects(Idle)
    BY DEF HandRespects, Idle
  <2> QED
    BY <2>1, <2>2, SessionInitInvariant DEF OneThreadInvariant
<1>2. OneThreadInvariant /\ [SessionNext]_vars => OneThreadInvariant'
  BY OneThreadKeeps
<1> QED
  BY <1>1, <1>2, PTL DEF SessionSpec

(***************************************************************************)
(* While a proposal is awaited, every event but its decision is rejected:  *)
(* when requests are served one after the other, a wait ends only after    *)
(* its proposal was decided, for any number of conversations, requests and *)
(* proposals, pauses and closes.                                           *)
(***************************************************************************)
THEOREM WaitEndsByDecisionHolds == SessionSpec /\ OneAtATime => WaitEndsByDecision
<1>1. ASSUME OneThreadInvariant, [SessionNext]_vars
      PROVE  [\A c \in Conversation, p \in ProposalId :
               Awaits(c, p) /\ ~Awaits(c, p)' => ledger[p].status # "pending"]_vars
  BY <1>1, StepEndsDecidedWaits
<1> QED
  BY <1>1, OneThreadInvariantHolds, PTL DEF SessionSpec, WaitEndsByDecision
=============================================================================
