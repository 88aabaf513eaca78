---------------------------- MODULE ChatSession ------------------------------
(***************************************************************************)
(* Conversations about a request, as the handlers of app.py and            *)
(* orchestrator_service.py drive them on the threads of one server.        *)
(*                                                                         *)
(* The request versions and the proposals are the variables of             *)
(* ProposalContract, which the proposal service implements                 *)
(* (ProposalRefinement): a call of the service is one of its actions.  A   *)
(* client decides on ids the server has shown it; they cannot be guessed.  *)
(* Each store operation on a conversation is one step; between two of them *)
(* any other thread may run.  jobs[w] is what thread w is in the middle of *)
(* with the local variables of its handler.                                *)
(*                                                                         *)
(* The language model, the planner and the texts are choices: a reply      *)
(* answers, asks back, proposes or fails, a planned step is a question or  *)
(* only guidance.                                                          *)
(***************************************************************************)
EXTENDS ProposalContract, FiniteSets

CONSTANTS
  Conversation,  \* ids of conversations, as many as the store has room for
  Worker,        \* threads of the server, one request of a client at a time
  Handlers,      \* the requests clients send, a subset of AllHandlers
  Rejected       \* the outcome of an event the workflow refuses

INSTANCE Workflow

AllHandlers == {"chat", "message", "decide", "undo", "save", "lifecycle"}

Source == {"main_agent_decision", "orchestrator_llm", "deferred_followup", "server_inverse"}

(***************************************************************************)
(* A conversation record.  candidates stands for the pending write         *)
(* candidates: the request version they were worked out on, or None.  The  *)
(* record's own version is only ever compared for equality with one read   *)
(* before; "fresh" holds the outcome of that comparison.                   *)
(***************************************************************************)
Record == [request    : Request,
           workflow   : WorkflowState,
           proposal   : ProposalId \cup {None},
           status     : Status,
           candidates : Nat \cup {None}]

\* What a handler goes on using of the conversation it read.
Seen == [workflow : WorkflowState, candidates : BOOLEAN]

Stage ==
  {"idle", "look", "think", "reply", "answer", "clarify", "keep", "create", "record", "drop",
   "extract", "dispatch", "persist", "register", "plan", "ask",
   "decided", "enter", "follow", "expire", "invalidate"}

Job == [at           : Stage,
        handler      : AllHandlers \cup {None},
        conversation : Conversation \cup {None},
        request      : Request \cup {None},
        seen         : Seen \cup {None},
        base         : Nat \cup {None},
        pending      : ProposalId \cup {None},
        proposal     : ProposalId \cup {None},
        followup     : ProposalId \cup {None},
        outcome      : Context \cup {None}]

VARIABLES
  conversations,  \* ConversationStore._records
  fresh,          \* threads whose planning snapshot is still the current version
  linked,         \* proposal_conversations
  source,         \* ProposalSnapshot.source
  disclosed,      \* proposals whose id a response has shown to a client
  followupLock,   \* deferred_followup_lock: its holder or None
  jobs

sessionVars == <<conversations, fresh, linked, source, disclosed, followupLock, jobs>>
vars == <<version, ledger, sessionVars>>

ASSUME SessionAssumption ==
  /\ None \notin Worker \cup Conversation \cup Request \cup Nat
  /\ None \notin Record \cup Context
  /\ Absent \notin Record
  /\ Rejected \notin Context \cup {None}
  /\ Handlers \subseteq AllHandlers

SessionTypeOK ==
  /\ ContractTypeOK
  /\ conversations \in [Conversation -> Record \cup {Absent}]
  /\ fresh \subseteq Worker
  /\ linked \in [ProposalId -> Conversation \cup {None}]
  /\ source \in [ProposalId -> Source \cup {None}]
  /\ disclosed \subseteq Issued
  /\ followupLock \in Worker \cup {None}
  /\ jobs \in [Worker -> Job]

Idle == [at |-> "idle", handler |-> None, conversation |-> None, request |-> None,
         seen |-> None, base |-> None, pending |-> None, proposal |-> None,
         followup |-> None, outcome |-> None]

SessionInit ==
  /\ ContractInit
  /\ conversations = [c \in Conversation |-> Absent]
  /\ fresh = {}
  /\ linked = [p \in ProposalId |-> None]
  /\ source = [p \in ProposalId |-> None]
  /\ disclosed = {}
  /\ followupLock = None
  /\ jobs = [w \in Worker |-> Idle]

-----------------------------------------------------------------------------
(***************************************************************************)
(* The conversation store.                                                 *)
(***************************************************************************)
Opened == {c \in Conversation : conversations[c] # Absent}

\* Mutant: a paused conversation is only not closed.
ActiveUnlessClosed(c) == c \in Opened /\ conversations[c].status # "closed"

\* _require_active
Active(c) == c \in Opened /\ conversations[c].status = "active"

ContextOf(c) ==
  [workflow |-> conversations[c].workflow, proposal |-> conversations[c].proposal,
   status |-> conversations[c].status]

SeenOf(record) == [workflow |-> record.workflow, candidates |-> record.candidates # None]

\* _replace: a new version of the record, whatever changed in it.
Replace(c, record) ==
  /\ conversations' = [conversations EXCEPT ![c] = record]
  /\ fresh' = {w \in fresh : jobs[w].conversation # c}

\* append_exchange, clear_active_field: a new version of an active conversation.
Touch(c) == Active(c) /\ Replace(c, conversations[c])

\* clear_pending_write_candidates_for_request
ForgetCandidates(r) ==
  LET cleared == {c \in Opened : conversations[c].request = r /\ conversations[c].candidates # None}
  IN /\ conversations' = [c \in Conversation |->
                            IF c \in cleared THEN [conversations[c] EXCEPT !.candidates = None]
                            ELSE conversations[c]]
     /\ fresh' = {w \in fresh : jobs[w].conversation \notin cleared}

\* pending_proposal_for_request: a request never has two (SinglePending).
PendingOf(r) == IF Undecided(r) = {} THEN None ELSE CHOOSE p \in Undecided(r) : TRUE

\* Where a thread goes next, with some of its local variables changed.
Goto(w, job) == jobs' = [jobs EXCEPT ![w] = job]

Done(w) == Goto(w, Idle)

\* The thread only moves: no store is touched.
OnlyJob == UNCHANGED <<version, ledger, conversations, fresh, linked, source, disclosed, followupLock>>

\* The thread writes conversations and nothing else.
OnlyConversations == UNCHANGED <<version, ledger, linked, source, disclosed, followupLock>>

Begin(w, handler) == handler \in Handlers /\ jobs[w] = Idle

-----------------------------------------------------------------------------
(***************************************************************************)
(* POST /api/chat/send, up to the decision of the language model.          *)
(***************************************************************************)
ChatRead(w, c) ==
  /\ Begin(w, "chat")
  /\ Active(c)
  /\ Goto(w, [Idle EXCEPT !.at = "look", !.handler = "chat", !.conversation = c,
                          !.request = conversations[c].request,
                          !.seen = SeenOf(conversations[c])])
  /\ OnlyJob

(***************************************************************************)
(* The latest request and its pending proposal are read, and an active     *)
(* field the planner would no longer ask for is cleared, which reads the   *)
(* conversation again; a conversation that is not active any more refuses. *)
(***************************************************************************)
ChatLook(w) ==
  LET j      == jobs[w]
      looked == [j EXCEPT !.at = "think", !.base = version[j.request],
                          !.pending = PendingOf(j.request)]
  IN /\ j.at = "look"
     /\ \/ Goto(w, looked) /\ OnlyJob
        \/ /\ Touch(j.conversation)
           /\ Goto(w, [looked EXCEPT !.seen = SeenOf(conversations[j.conversation])])
           /\ OnlyConversations
        \/ ~Active(j.conversation) /\ Done(w) /\ OnlyJob

\* Candidates outside the write contract, or that the model does not go on with.
ChatForget(w) ==
  LET j == jobs[w]
      c == j.conversation
      forgotten == [conversations[c] EXCEPT !.candidates = None]
  IN /\ j.at = "think"
     /\ j.seen.candidates
     /\ \/ /\ Active(c)
           /\ Replace(c, forgotten)
           /\ Goto(w, [j EXCEPT !.seen = SeenOf(forgotten)])
           /\ OnlyConversations
        \/ ~Active(c) /\ Done(w) /\ OnlyJob

(***************************************************************************)
(* The model fails or is refused (stop), answers or asks back (reply),     *)
(* answers and resumes the planned questions (answer), asks back and keeps *)
(* candidates (clarify), or proposes: while a proposal was seen pending a  *)
(* reply that names it, refused unless the workflow seen was ready.        *)
(***************************************************************************)
ChatThink(w) ==
  LET j == jobs[w]
  IN /\ j.at = "think"
     /\ \/ Done(w)
        \/ Goto(w, [j EXCEPT !.at = "reply", !.seen = None, !.base = None, !.pending = None])
        \/ Goto(w, [j EXCEPT !.at = "clarify", !.seen = None, !.pending = None])
        \/ /\ j.pending # None
           /\ Goto(w, [j EXCEPT !.at = "reply", !.seen = None, !.base = None])
        \/ /\ j.pending = None
           /\ Goto(w, [j EXCEPT !.at = "answer", !.seen = None, !.base = None])
        \/ /\ j.pending = None
           /\ j.seen.workflow \in {"started", "awaiting_answer", "planning_next_question"}
           /\ Goto(w, [j EXCEPT !.at = "create"])
     /\ OnlyJob

\* append_exchange of what will be displayed; a wait names the pending proposal.
ChatReply(w) ==
  LET j == jobs[w]
      c == j.conversation
  IN /\ j.at \in {"reply", "answer", "clarify"}
     /\ \/ /\ Touch(c)
           /\ CASE j.at = "reply"   -> Done(w)
                [] j.at = "answer"  -> Goto(w, [j EXCEPT !.at = "plan", !.seen = SeenOf(conversations[c])])
                [] j.at = "clarify" -> Goto(w, [j EXCEPT !.at = "keep"])
           /\ disclosed' = disclosed \cup ({j.pending} \ {None})
           /\ UNCHANGED <<version, ledger, linked, source, followupLock>>
        \/ ~Active(c) /\ Done(w) /\ OnlyJob

\* set_pending_write_candidates, worked out on the request that was looked at.
ChatKeep(w) ==
  LET c == jobs[w].conversation
  IN /\ jobs[w].at = "keep"
     /\ Done(w)
     /\ \/ /\ Active(c)
           /\ Replace(c, [conversations[c] EXCEPT !.candidates = jobs[w].base])
           /\ OnlyConversations
        \/ ~Active(c) /\ OnlyJob

-----------------------------------------------------------------------------
(***************************************************************************)
(* Creating a proposal.  The fence on the version and the record are one   *)
(* step: a form saved between them has the effect of one saved right after *)
(* the record.                                                             *)
(***************************************************************************)
NewProposal(p, r, origin) ==
  /\ Issue(p, r, version[r], None)
  /\ source' = [source EXCEPT ![p] = origin]
  /\ UNCHANGED <<conversations, fresh, linked, followupLock>>

(***************************************************************************)
(* chat_send proposes on the version it looked at: another version ends in *)
(* a conflict, a proposal that became pending meanwhile in a reply, and a  *)
(* batch without effect or a full ledger in a failure.                     *)
(***************************************************************************)
ChatCreate(w) ==
  LET j == jobs[w]
      r == j.request
  IN /\ j.at = "create"
     /\ \/ /\ version[r] = j.base
           /\ \E p \in ProposalId :
                /\ NewProposal(p, r, "main_agent_decision")
                /\ UNCHANGED disclosed
                /\ Goto(w, [j EXCEPT !.at = "dispatch", !.proposal = p, !.base = None])
        \/ /\ version[r] = j.base
           /\ Undecided(r) # {}
           /\ Goto(w, [j EXCEPT !.at = "reply", !.seen = None, !.base = None,
                                !.pending = PendingOf(r)])
           /\ OnlyJob
        \/ /\ version[r] # j.base \/ Undecided(r) = {}
           /\ Done(w)
           /\ OnlyJob

-----------------------------------------------------------------------------
(***************************************************************************)
(* POST /api/orchestrator/messages: OrchestratorService.handle.            *)
(***************************************************************************)
MessageRead(w, c) ==
  /\ Begin(w, "message")
  /\ Active(c)
  /\ Goto(w, [Idle EXCEPT !.at = "extract", !.handler = "message", !.conversation = c,
                          !.request = conversations[c].request,
                          !.seen = SeenOf(conversations[c]),
                          !.base = version[conversations[c].request]])
  /\ OnlyJob

\* No patch intent, a clarification, or a candidate that changes nothing.
MessageEnd(w) ==
  /\ jobs[w].at = "extract"
  /\ Done(w)
  /\ OnlyJob

\* _create_proposal: the workflow is preflighted on the conversation read before.
MessageCreate(w) ==
  LET j == jobs[w]
  IN /\ j.at = "extract"
     /\ \E p \in ProposalId :
          /\ Created([workflow |-> j.seen.workflow, proposal |-> None, status |-> "active"],
                     j.seen.workflow, p) # Rejected
          /\ NewProposal(p, j.request, "orchestrator_llm")
          /\ UNCHANGED disclosed
          /\ Goto(w, [j EXCEPT !.at = "dispatch", !.proposal = p, !.base = None])

\* _create_correction_proposal: fenced by the version read, no workflow event; the
\* audit log names the proposal before it is registered.
MessageCorrect(w) ==
  LET j == jobs[w]
  IN /\ j.at = "extract"
     /\ version[j.request] = j.base
     /\ \E p \in ProposalId :
          /\ NewProposal(p, j.request, "orchestrator_llm")
          /\ disclosed' = disclosed \cup {p}
          /\ Goto(w, [j EXCEPT !.at = "register", !.proposal = p, !.base = None])

-----------------------------------------------------------------------------
(***************************************************************************)
(* Moving the workflow: dispatch_many reads the conversation and works out *)
(* the outcome, then writes it whatever the conversation has become, as    *)
(* long as it is active.                                                   *)
(***************************************************************************)
DispatchOutcome(j) ==
  LET c == ContextOf(j.conversation)
  IN IF j.handler # "decide" THEN Created(c, j.seen.workflow, j.proposal)
     ELSE IF j.followup # None THEN Then(Continued(c, j.proposal), ProposalCreated(j.followup))
     ELSE IF ledger[j.proposal].status \in {"approved", "rejected"} THEN Continued(c, j.proposal)
     ELSE Transition(c, ProposalTerminal(j.proposal))

\* A rejected dispatch: a follow-up is taken back, anything else is left as it is.
DispatchFailed(w) ==
  /\ IF jobs[w].followup # None
     THEN Goto(w, [jobs[w] EXCEPT !.at = "expire", !.outcome = None])
     ELSE Done(w)
  /\ OnlyJob

DispatchRead(w) ==
  LET j   == jobs[w]
      out == DispatchOutcome(j)
  IN /\ j.at = "dispatch"
     /\ \/ /\ out # Rejected
           /\ Goto(w, [j EXCEPT !.at = "persist", !.outcome = out])
           /\ OnlyJob
        \/ out = Rejected /\ DispatchFailed(w)

\* The record with the outcome's workflow state and proposal reference.
Moved(c, outcome) ==
  [conversations[c] EXCEPT !.workflow = outcome.workflow, !.proposal = outcome.proposal]

DispatchPersist(w) ==
  LET j == jobs[w]
      c == j.conversation
  IN /\ j.at = "persist"
     /\ \/ /\ Active(c)
           /\ Replace(c, Moved(c, j.outcome))
           /\ IF j.handler = "decide" /\ j.followup = None
              THEN Done(w) /\ UNCHANGED disclosed
              ELSE /\ Goto(w, [j EXCEPT !.at = "register", !.outcome = None])
                   /\ disclosed' = disclosed \cup {j.outcome.proposal}
           /\ UNCHANGED <<version, ledger, linked, source, followupLock>>
        \/ ~Active(c) /\ DispatchFailed(w)

\* The conversation a later decision on the proposal will report to.
Register(w) ==
  LET j == jobs[w]
      p == IF j.followup # None THEN j.followup ELSE j.proposal
  IN /\ j.at = "register"
     /\ linked' = [linked EXCEPT ![p] = j.conversation]
     /\ followupLock' = IF followupLock = w THEN None ELSE followupLock
     /\ IF j.handler = "chat" THEN Goto(w, [j EXCEPT !.at = "record"]) ELSE Done(w)
     /\ UNCHANGED <<version, ledger, conversations, fresh, source, disclosed>>

\* The exchange that shows the proposal, then the candidates it consumed.
ChatRecord(w) ==
  LET j == jobs[w]
      c == j.conversation
  IN /\ j.at = "record"
     /\ \/ /\ Touch(c)
           /\ IF j.seen.candidates THEN Goto(w, [j EXCEPT !.at = "drop"]) ELSE Done(w)
           /\ OnlyConversations
        \/ ~Active(c) /\ Done(w) /\ OnlyJob

ChatDrop(w) ==
  LET c == jobs[w].conversation
  IN /\ jobs[w].at = "drop"
     /\ Done(w)
     /\ \/ /\ Active(c)
           /\ Replace(c, [conversations[c] EXCEPT !.candidates = None])
           /\ OnlyConversations
        \/ ~Active(c) /\ OnlyJob

-----------------------------------------------------------------------------
(***************************************************************************)
(* apply_next_question: the planned question or guidance, worked out on a  *)
(* read conversation and written only if no other version was written      *)
(* meanwhile.  A chat that fails here ends in an error; a decision falls   *)
(* back to moving the workflow without a question.                         *)
(***************************************************************************)
PlanOutcome(j, isQuestion) ==
  LET c == ContextOf(j.conversation)
  IN Asked(IF j.handler = "chat" THEN Answered(c, j.seen.workflow) ELSE Continued(c, j.proposal),
           isQuestion)

\* Mutant: a decision does not fall back either.
PlanFailedSilently(w) == Done(w)

PlanFailed(w) ==
  IF jobs[w].handler = "chat"
  THEN Done(w)
  ELSE Goto(w, [jobs[w] EXCEPT !.at = "dispatch", !.outcome = None])

Plan(w) ==
  LET j == jobs[w]
  IN /\ j.at = "plan"
     /\ \E isQuestion \in BOOLEAN :
          LET out == PlanOutcome(j, isQuestion)
          IN \/ /\ out # Rejected
                /\ Goto(w, [j EXCEPT !.at = "ask", !.outcome = out])
                /\ fresh' = fresh \cup {w}
             \/ /\ out = Rejected
                /\ PlanFailed(w)
                /\ UNCHANGED fresh
     /\ UNCHANGED <<version, ledger, conversations, linked, source, disclosed, followupLock>>

\* Mutant: apply_planner_message does not compare versions.
AskStale(w) ==
  LET j == jobs[w]
      c == j.conversation
  IN /\ j.at = "ask"
     /\ \/ /\ Active(c)
           /\ Replace(c, Moved(c, j.outcome))
           /\ Done(w)
        \/ /\ ~Active(c)
           /\ PlanFailed(w)
           /\ fresh' = fresh \ {w}
           /\ UNCHANGED conversations
     /\ OnlyConversations

\* apply_planner_message with the version of the read.
Ask(w) ==
  LET j == jobs[w]
      c == j.conversation
  IN /\ j.at = "ask"
     /\ \/ /\ Active(c)
           /\ w \in fresh
           /\ Replace(c, Moved(c, j.outcome))
           /\ Done(w)
        \/ /\ ~Active(c) \/ w \notin fresh
           /\ PlanFailed(w)
           /\ fresh' = fresh \ {w}
           /\ UNCHANGED conversations
     /\ OnlyConversations

-----------------------------------------------------------------------------
(***************************************************************************)
(* POST /api/orchestrator/proposals/decision.                              *)
(***************************************************************************)
\* approve_proposal and reject_proposal; a decided proposal is only returned.
Resolve(p, decision) ==
  IF ledger[p].status # "pending"
  THEN UNCHANGED <<version, ledger>>
  ELSE IF decision = "approve"
       THEN \/ Approve(p)
            \/ Conflict(p)
            \/ version[ledger[p].request] = ledger[p].base /\ Decide(p, "failed") /\ UNCHANGED version
       ELSE Decide(p, "rejected") /\ UNCHANGED version

TakeDecision(w, p, decision) ==
  /\ Begin(w, "decide")
  /\ p \in disclosed
  /\ Resolve(p, decision)
  /\ Goto(w, [Idle EXCEPT !.at = "decided", !.handler = "decide", !.proposal = p,
                          !.request = ledger[p].request])
  /\ UNCHANGED <<conversations, fresh, linked, source, disclosed, followupLock>>

(***************************************************************************)
(* The conversation registered for the proposal, if any, goes on: with a   *)
(* follow-up proposal when an approval made deferred facts applicable,     *)
(* with the next question, or just out of the wait.                        *)
(***************************************************************************)
AfterDecision(w) ==
  LET j      == jobs[w]
      c      == linked[j.proposal]
      status == ledger[j.proposal].status
  IN /\ j.at = "decided"
     /\ IF status = "approved"
        THEN ForgetCandidates(j.request)
        ELSE UNCHANGED <<conversations, fresh>>
     /\ IF c = None
        THEN Done(w)
        ELSE \E next \in CASE status = "approved" -> {"enter", "plan"}
                           [] status = "rejected" -> {"plan"}
                           [] OTHER               -> {"dispatch"} :
               Goto(w, [j EXCEPT !.at = next, !.conversation = c])
     /\ UNCHANGED <<version, ledger, linked, source, disclosed, followupLock>>

\* deferred_followup_lock is taken, and kept if no proposal is pending.
EnterFollowup(w) ==
  LET j == jobs[w]
  IN /\ j.at = "enter"
     /\ followupLock = None
     /\ \/ /\ Undecided(j.request) = {}
           /\ followupLock' = w
           /\ Goto(w, [j EXCEPT !.at = "follow"])
        \/ /\ Undecided(j.request) # {}
           /\ UNCHANGED followupLock
           /\ Goto(w, [j EXCEPT !.at = "plan"])
     /\ UNCHANGED <<version, ledger, conversations, fresh, linked, source, disclosed>>

\* Mutant: a refused follow-up does not release the lock.
CreateHolding(w) ==
  LET j == jobs[w]
  IN /\ j.at = "follow"
     /\ \/ \E f \in ProposalId :
             /\ NewProposal(f, j.request, "deferred_followup")
             /\ UNCHANGED disclosed
             /\ Goto(w, [j EXCEPT !.at = "dispatch", !.followup = f])
        \/ Goto(w, [j EXCEPT !.at = "plan"]) /\ OnlyJob

\* The follow-up is recorded, or the write contract, the catalog or the ledger refuses it.
CreateFollowup(w) ==
  LET j == jobs[w]
  IN /\ j.at = "follow"
     /\ \/ \E f \in ProposalId :
             /\ NewProposal(f, j.request, "deferred_followup")
             /\ UNCHANGED disclosed
             /\ Goto(w, [j EXCEPT !.at = "dispatch", !.followup = f])
        \/ /\ Goto(w, [j EXCEPT !.at = "plan"])
           /\ followupLock' = None
           /\ UNCHANGED <<version, ledger, conversations, fresh, linked, source, disclosed>>

\* Mutant: a follow-up the conversation could not take stays pending.
ExpireNothing(w) ==
  LET j == jobs[w]
  IN /\ j.at = "expire"
     /\ followupLock' = None
     /\ Goto(w, [j EXCEPT !.at = "plan", !.followup = None])
     /\ UNCHANGED <<version, ledger, conversations, fresh, linked, source, disclosed>>

\* expire_proposal for a follow-up the conversation could not take.
ExpireFollowup(w) ==
  LET j == jobs[w]
  IN /\ j.at = "expire"
     /\ \/ Decide(j.followup, "expired")
        \/ ledger[j.followup].status # "pending" /\ UNCHANGED ledger
     /\ followupLock' = None
     /\ Goto(w, [j EXCEPT !.at = "plan", !.followup = None])
     /\ UNCHANGED <<version, conversations, fresh, linked, source, disclosed>>

-----------------------------------------------------------------------------
(***************************************************************************)
(* The other handlers.                                                     *)
(***************************************************************************)
\* POST /api/orchestrator/proposals/undo: one call of the service, no conversation.
Undo(q, p) ==
  /\ "undo" \in Handlers
  /\ p \in disclosed
  /\ ProposeUndo(q, p)
  /\ disclosed' = disclosed \cup {q}
  /\ source' = [source EXCEPT ![q] = "server_inverse"]
  /\ UNCHANGED <<conversations, fresh, linked, followupLock, jobs>>

\* PUT /api/request/versioned: the form is saved, then candidates are forgotten.
SaveForm(w, r) ==
  /\ Begin(w, "save")
  /\ Save(r)
  /\ Goto(w, [Idle EXCEPT !.at = "invalidate", !.handler = "save", !.request = r])
  /\ UNCHANGED <<conversations, fresh, linked, source, disclosed, followupLock>>

InvalidateCandidates(w) ==
  /\ jobs[w].at = "invalidate"
  /\ ForgetCandidates(jobs[w].request)
  /\ Done(w)
  /\ OnlyConversations

\* POST /api/conversations, for a created request; a client may name a proposal.
Open(c, r, p) ==
  /\ conversations[c] = Absent
  /\ p \in disclosed \cup {None}
  /\ Replace(c, [request |-> r, workflow |-> "started", proposal |-> p, status |-> "active",
                 candidates |-> None])
  /\ OnlyConversations /\ UNCHANGED jobs

ChangeStatus(c, from, to) ==
  /\ "lifecycle" \in Handlers
  /\ c \in Opened
  /\ conversations[c].status \in from
  /\ Replace(c, [conversations[c] EXCEPT !.status = to])
  /\ OnlyConversations /\ UNCHANGED jobs

Pause(c)  == ChangeStatus(c, {"active"}, "paused")
Resume(c) == ChangeStatus(c, {"paused"}, "active")
Close(c)  == ChangeStatus(c, {"active", "paused"}, "closed")

-----------------------------------------------------------------------------
\* A step of a handler that was begun, waiting for nobody but the model.
Proceed(w) ==
  \/ ChatLook(w) \/ ChatForget(w) \/ ChatThink(w) \/ ChatReply(w) \/ ChatKeep(w)
  \/ ChatCreate(w) \/ ChatRecord(w) \/ ChatDrop(w)
  \/ MessageEnd(w) \/ MessageCreate(w) \/ MessageCorrect(w)
  \/ DispatchRead(w) \/ DispatchPersist(w) \/ Register(w)
  \/ Plan(w) \/ Ask(w)
  \/ AfterDecision(w) \/ CreateFollowup(w) \/ ExpireFollowup(w)
  \/ InvalidateCandidates(w)

Receive(w) ==
  \/ \E c \in Conversation : ChatRead(w, c) \/ MessageRead(w, c)
  \/ \E p \in ProposalId, decision \in {"approve", "reject"} : TakeDecision(w, p, decision)
  \/ \E r \in Request : SaveForm(w, r)

SessionNext ==
  \/ \E w \in Worker : Receive(w) \/ Proceed(w) \/ EnterFollowup(w)
  \/ \E q, p \in ProposalId : Undo(q, p)
  \/ \E c \in Conversation, r \in Request, p \in ProposalId \cup {None} : Open(c, r, p)
  \/ \E c \in Conversation : Pause(c) \/ Resume(c) \/ Close(c)

SessionSpec == SessionInit /\ [][SessionNext]_vars

(***************************************************************************)
(* A handler that was begun runs on: the lifecycle lock and the store      *)
(* locks are held for one step here.  Only EnterFollowup waits for another *)
(* thread, and the finitely many threads that take the lock release it, so *)
(* each of them gets its turn.                                             *)
(***************************************************************************)
FairSessionSpec ==
  /\ SessionSpec
  /\ \A w \in Worker : WF_vars(Proceed(w)) /\ SF_vars(EnterFollowup(w))

-----------------------------------------------------------------------------
(***************************************************************************)
(* Correctness.                                                            *)
(***************************************************************************)
Awaits(c, p) ==
  /\ c \in Opened
  /\ conversations[c].workflow = "awaiting_proposal_approval"
  /\ conversations[c].proposal = p

(***************************************************************************)
(* A conversation only ever waits for, and a decision only ever reports    *)
(* to a conversation about, a recorded proposal of the same request,       *)
(* although outcomes are worked out and written in different steps.        *)
(***************************************************************************)
ProposalsStayHome ==
  /\ \A c \in Conversation, p \in ProposalId \cup {None} :
       Awaits(c, p) => p \in Issued /\ ledger[p].request = conversations[c].request
  /\ \A p \in ProposalId :
       linked[p] # None =>
         /\ p \in Issued
         /\ linked[p] \in Opened
         /\ conversations[linked[p]].request = ledger[p].request

(***************************************************************************)
(* "A lifecycle change between read and apply cannot advance workflow":    *)
(* whatever was worked out before a pause or a close, the conversation     *)
(* keeps its workflow state and its reference, and a closed one is closed  *)
(* for good.                                                               *)
(***************************************************************************)
InactiveFrozen ==
  [][\A c \in Opened :
       conversations[c].status # "active" =>
         /\ conversations'[c].workflow = conversations[c].workflow
         /\ conversations'[c].proposal = conversations[c].proposal
         /\ conversations[c].status = "closed" => conversations'[c].status = "closed"]_vars

(***************************************************************************)
(* A decision asks its next question out of the wait for that very         *)
(* proposal, so a replayed decision, or two at once, ask once.             *)
(***************************************************************************)
QuestionEndsWait ==
  [][\A w \in Worker :
       /\ jobs[w].handler = "decide"
       /\ jobs[w].at = "ask"
       /\ jobs'[w] = Idle
       => Awaits(jobs[w].conversation, jobs[w].proposal)]_vars

(***************************************************************************)
(* A follow-up proposal nobody was shown does not stay pending: it is in   *)
(* the hands of the decision that created it, or registered with the       *)
(* conversation, or decided.                                               *)
(***************************************************************************)
FollowupIsShown ==
  \A p \in Issued :
    /\ source[p] = "deferred_followup"
    /\ ledger[p].status = "pending"
    => linked[p] # None \/ \E w \in Worker : jobs[w].followup = p

(***************************************************************************)
(* A decision that knows the waiting conversation gets it out of the wait, *)
(* unless it is paused or closed on the way: whatever other threads write  *)
(* to the conversation, the question or its fallback arrives.              *)
(***************************************************************************)
DecisionArrives ==
  \A c \in Conversation, w \in Worker, p \in ProposalId :
    (Awaits(c, p) /\ jobs[w].at = "decided" /\ jobs[w].proposal = p /\ linked[p] = c)
      ~> (~Awaits(c, p) \/ ~Active(c))

\* Every request a client sends is answered: no handler waits for another for ever.
HandlersEnd == \A w \in Worker : jobs[w] # Idle ~> jobs[w] = Idle

-----------------------------------------------------------------------------
(***************************************************************************)
(* What documents and comments say of the conversations.  It is true as    *)
(* long as requests are served one at a time; two threads break it.        *)
(***************************************************************************)
(***************************************************************************)
(* While a proposal is awaited, every event but its decision is rejected   *)
(* (h5_orch_012_workflow_machine.md): the wait for a proposal ends only    *)
(* after it was decided.                                                   *)
(***************************************************************************)
WaitEndsByDecision ==
  [][\A c \in Conversation, p \in ProposalId :
       Awaits(c, p) /\ ~Awaits(c, p)' => ledger[p].status # "pending"]_vars

(***************************************************************************)
(* "This can only happen after an external lifecycle race": the workflow   *)
(* of a message that recorded its proposal fails only if the conversation  *)
(* was paused or closed.                                                   *)
(***************************************************************************)
OnlyLifecycleRaces ==
  [][\A w \in Worker :
       /\ jobs[w].handler = "message"
       /\ jobs[w].at \in {"dispatch", "persist"}
       /\ jobs'[w] = Idle
       => ~Active(jobs[w].conversation)]_vars

=============================================================================
