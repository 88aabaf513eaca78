------------------------------ MODULE Workflow -------------------------------
(***************************************************************************)
(* The pure part of workflow_machine.py: which event moves a conversation  *)
(* from which workflow state to which, and what becomes of its reference   *)
(* to a proposal.  Nothing here reads or writes a store.                   *)
(***************************************************************************)
CONSTANTS
  ProposalId,  \* ids the server can issue
  None,        \* no proposal reference
  Rejected     \* the outcome of an event that raises WorkflowTransitionError

WorkflowState ==
  {"started", "awaiting_answer", "awaiting_proposal_approval", "planning_next_question",
   "proposal_completed", "validation_ready", "paused", "completed", "error"}

\* active, paused or closed; the flag "paused" is TRUE exactly while status is "paused".
Status == {"active", "paused", "closed"}

\* What transition() looks at: the projection WorkflowContext of a conversation.
Context == [workflow : WorkflowState, proposal : ProposalId \cup {None}, status : Status]

(***************************************************************************)
(* Events.  Only two of them carry a proposal id.                          *)
(***************************************************************************)
Event(type) == [type |-> type, proposal |-> None]

Start            == Event("start")
AnswerReceived   == Event("answer_received")
QuestionPlanned  == Event("question_planned")
PlanNextQuestion == Event("plan_next_question")

ProposalCreated(p)  == [type |-> "proposal_created", proposal |-> p]
ProposalTerminal(p) == [type |-> "proposal_terminal", proposal |-> p]

\* The table of moves; "fail" is possible wherever any event is.
Moves ==
  {<<"started", "start", "awaiting_answer">>,
   <<"awaiting_answer", "answer_received", "planning_next_question">>,
   <<"planning_next_question", "question_planned", "awaiting_answer">>,
   <<"awaiting_answer", "proposal_created", "awaiting_proposal_approval">>,
   <<"planning_next_question", "proposal_created", "awaiting_proposal_approval">>,
   <<"awaiting_proposal_approval", "proposal_terminal", "proposal_completed">>,
   <<"proposal_completed", "plan_next_question", "planning_next_question">>,
   <<"planning_next_question", "validation_ready", "validation_ready">>,
   <<"proposal_completed", "validation_ready", "validation_ready">>,
   <<"proposal_completed", "complete", "completed">>,
   <<"validation_ready", "complete", "completed">>}
  \cup {<<s, "fail", "error">> : s \in WorkflowState}

Ended == {"completed", "error", "paused"}

\* Mutant: the terminal event of any proposal ends the wait.
AllowedAnyReference(c, event) ==
  /\ c.status = "active"
  /\ c.workflow \notin Ended
  /\ \E s \in WorkflowState : <<c.workflow, event.type, s>> \in Moves

Allowed(c, event) ==
  /\ c.status = "active"
  /\ c.workflow \notin Ended
  /\ \E s \in WorkflowState : <<c.workflow, event.type, s>> \in Moves
  /\ event.type = "proposal_terminal" => event.proposal = c.proposal

\* Mutant: the reference of a created proposal is not stored.
TransitionUnnamed(c, event) ==
  IF Allowed(c, event)
  THEN [c EXCEPT !.workflow = CHOOSE s \in WorkflowState : <<c.workflow, event.type, s>> \in Moves]
  ELSE Rejected

Transition(c, event) ==
  IF Allowed(c, event)
  THEN [c EXCEPT
          !.workflow = CHOOSE s \in WorkflowState : <<c.workflow, event.type, s>> \in Moves,
          !.proposal = IF event.type = "proposal_created" THEN event.proposal ELSE @]
  ELSE Rejected

\* One more event of a sequence; a rejected event rejects the whole sequence.
Then(c, event) == IF c = Rejected THEN Rejected ELSE Transition(c, event)

(***************************************************************************)
(* The sequences of events the server selects.                             *)
(***************************************************************************)
\* _proposal_creation_events, chosen by the workflow state the handler read.
Created(c, workflowRead, p) ==
  IF workflowRead = "started"
  THEN Then(Transition(c, Start), ProposalCreated(p))
  ELSE Transition(c, ProposalCreated(p))

\* A decided proposal, then back to planning.
Continued(c, p) == Then(Transition(c, ProposalTerminal(p)), PlanNextQuestion)

\* answer_planning_events: what an answer does before the next question.
Answered(c, workflowRead) ==
  CASE workflowRead = "started"            -> Then(Transition(c, Start), AnswerReceived)
    [] workflowRead = "awaiting_answer"    -> Transition(c, AnswerReceived)
    [] workflowRead = "proposal_completed" -> Transition(c, PlanNextQuestion)
    [] OTHER                               -> c

\* apply_next_question: the planner found a question, or only has guidance to give.
Asked(c, isQuestion) == IF isQuestion THEN Then(c, QuestionPlanned) ELSE c
=============================================================================
