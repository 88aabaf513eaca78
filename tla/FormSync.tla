------------------------------ MODULE FormSync ------------------------------
(***************************************************************************)
(* How the browser keeps its form and the server's request in step.  The   *)
(* page holds the controls the user types into and a request object; what  *)
(* it sends is the text of the controls and, for everything that has no    *)
(* control of its own (added rows, products, the chosen project), the      *)
(* request object.  A chat, a decision and the Preview action first save   *)
(* the form if it is dirty, naming the version they replace, and then do   *)
(* their own call; an approval is followed by a read of the latest         *)
(* request, which replaces the form.  Beside that, every edit schedules a  *)
(* stateless preview whose answer replaces the request object, unless the  *)
(* user has edited again.  A Word file is made of the preview on the page  *)
(* when that shows the very version the page holds.                        *)
(*                                                                         *)
(* Each call is answered by the server in one step, and its answer reaches *)
(* the page in another; between any two steps the user may edit.           *)
(***************************************************************************)
EXTENDS Integers, Sequences

CONSTANTS FormEdits,       \* bound on the user's edits
          ProposalLimit,   \* bound on the proposals of the chat
          Missing          \* no version, no answer

VARIABLES
  inputs,           \* the text in the controls
  pageShape,        \* requestState, as far as it has no control of its own
  dirty,            \* the form was edited since it was last saved
  pageVersion,      \* requestVersion
  approved,         \* latestApprovedState
  syncedVersion,    \* caseMatrixSyncedRequestVersion
  renderedVersion,  \* previewRenderedRequestVersion
  panel,            \* the preview on the page, if it names a version: its form and that
  refreshDue,       \* the timer of the stateless preview runs
  refresh,          \* the stateless preview on its way: what it will set pageShape to
  calls,            \* the chat, the Preview action and the decisions
  cards,            \* the proposals with a card to decide on
  refreshed,        \* refreshedProposalIds
  server,           \* every version of the request
  proposals,        \* the proposals of the server
  formEdits,        \* the user's edits so far
  replaced,         \* history: texts of approvals the user typed over
  hasty,            \* history: some edit was made while a call was on its way
  overtaken         \* history: an answer came after that of a later version

formVars == <<inputs, pageShape, dirty, pageVersion, approved, syncedVersion, renderedVersion,
              panel, refreshDue, refresh, calls, cards, refreshed, server, proposals,
              formEdits, replaced, hasty, overtaken>>

(* What a call changes on the page, and what it leaves alone. *)
editor    == <<inputs, pageShape, formEdits, replaced, hasty>>
previewer == <<refreshDue, refresh>>
sync      == <<dirty, pageVersion, approved, syncedVersion, overtaken>>

Kinds     == {"text", "shape"}
ProposalIds == 1..ProposalLimit
Chat      == <<"chat", 0>>
Preview   == <<"preview", 0>>
Deciding(p) == <<"decide", p>>
Tasks     == {Chat, Preview} \cup {Deciding(p) : p \in ProposalIds}
Resting   == [at |-> "idle"]

(* Every edit and every proposal writes a value of its own. *)
EditMarks == 1..FormEdits
Mark(p)   == FormEdits + p
Marks     == 0..(FormEdits + ProposalLimit)
Forms     == [Kinds -> Marks]

(* What a save of the form is answered. *)
Kept    == [ok : {TRUE}, version : Nat, form : Forms]
Refused == [ok : {FALSE}]

ASSUME FormAssumption == /\ FormEdits \in Nat /\ ProposalLimit \in Nat
                         /\ Missing \notin Int \cup Kept \cup Refused

Latest    == Len(server)
PageForm  == [text |-> inputs, shape |-> pageShape]
Loading   == calls[Chat].at # "idle"

HasSynced == syncedVersion = pageVersion

HasPreviewDomForWord ==
  /\ HasSynced
  /\ renderedVersion = pageVersion /\ panel.version = pageVersion

Blank     == [k \in Kinds |-> 0]
NoVersion == [form |-> Blank, version |-> Missing]

(* A request that has been created and a conversation about it. *)
FormInit ==
  /\ inputs = 0 /\ pageShape = 0 /\ dirty = FALSE
  /\ pageVersion = 1 /\ approved = Blank /\ syncedVersion = 1
  /\ renderedVersion = Missing /\ panel = NoVersion
  /\ refreshDue = FALSE /\ refresh = Missing
  /\ calls = [t \in Tasks |-> Resting]
  /\ cards = {} /\ refreshed = {}
  /\ server = <<Blank>> /\ proposals = << >>
  /\ formEdits = 0 /\ replaced = {} /\ hasty = FALSE /\ overtaken = FALSE

-----------------------------------------------------------------------------
(* The user edits; every edit schedules a stateless preview and drops the  *)
(* answer of the one on its way.                                           *)

Edited == /\ formEdits < FormEdits
          /\ formEdits' = formEdits + 1
          /\ dirty' = TRUE /\ refreshDue' = TRUE /\ refresh' = Missing
          /\ hasty' = (hasty \/ \E t \in Tasks : calls[t].at # "idle")
          /\ UNCHANGED <<pageVersion, approved, syncedVersion, renderedVersion, panel, calls,
                         cards, refreshed, server, proposals, overtaken>>

TypeText == /\ Edited
            /\ inputs' = formEdits + 1
            /\ replaced' = replaced \cup ({inputs} \ EditMarks)
            /\ UNCHANGED pageShape

Reshape == /\ Edited
           /\ pageShape' = formEdits + 1
           /\ UNCHANGED <<inputs, replaced>>

SendRefresh ==
  /\ refreshDue
  /\ refreshDue' = FALSE /\ refresh' = pageShape
  /\ UNCHANGED <<editor, sync, renderedVersion, panel, calls, cards, refreshed, server,
                 proposals>>

(* The answer of a stateless preview is adopted and drawn. *)
AdoptRefresh ==
  /\ refresh # Missing
  /\ pageShape' = refresh
  /\ panel' = NoVersion
  /\ renderedVersion' = Missing
  /\ refresh' = Missing
  /\ UNCHANGED <<inputs, formEdits, replaced, hasty, sync, refreshDue, calls, cards, refreshed,
                 server, proposals>>

LoseRefresh ==
  /\ refresh # Missing
  /\ refresh' = Missing
  /\ UNCHANGED <<editor, sync, renderedVersion, panel, refreshDue, calls, cards, refreshed,
                 server, proposals>>

-----------------------------------------------------------------------------
(* The calls.                                                              *)

Sending(at, choice) == [at |-> at, answer |-> Missing, choice |-> choice]
Saving(choice) == [at |-> "put", answer |-> Missing, choice |-> choice,
                   draft |-> PageForm, expected |-> pageVersion]

(* createOrchestratorConversation: a dirty form is saved first. *)
Begin(t, choice) ==
  /\ calls[t].at = "idle"
  /\ calls' = [calls EXCEPT ![t] =
       CASE dirty -> Saving(choice)
         [] ~dirty /\ (t # Preview \/ HasSynced) -> Sending("act", choice)
         [] OTHER -> Resting]
  /\ UNCHANGED <<editor, sync, renderedVersion, panel, previewer, refreshed, server,
                 proposals>>

SendChat      == ~Loading /\ Begin(Chat, "send") /\ UNCHANGED cards
PreviewAction == ~Loading /\ Begin(Preview, "show") /\ UNCHANGED cards
Decide(p, decision) ==
  /\ p \in cards
  /\ cards' = cards \ {p}
  /\ Begin(Deciding(p), decision)

Answers(t, answer) ==
  calls' = [calls EXCEPT ![t] = [Sending(@.at, @.choice) EXCEPT !.answer = answer]]

\* Mutant: the version is advanced although the form is not kept.
ServePutUnkept(t) ==
  /\ calls[t].at = "put" /\ calls[t].answer = Missing
  /\ IF calls[t].expected = Latest
     THEN Answers(t, [ok |-> TRUE, version |-> Latest + 1, form |-> calls[t].draft])
     ELSE Answers(t, [ok |-> FALSE])
  /\ UNCHANGED <<server, proposals>>

\* Mutant: the expected version is not compared.
ServePutUnfenced(t) ==
  /\ calls[t].at = "put" /\ calls[t].answer = Missing
  /\ server' = Append(server, calls[t].draft)
  /\ Answers(t, [ok |-> TRUE, version |-> Latest + 1, form |-> calls[t].draft])
  /\ UNCHANGED proposals

(* The server saves a form that names its latest version. *)
ServePut(t) ==
  /\ calls[t].at = "put" /\ calls[t].answer = Missing
  /\ IF calls[t].expected = Latest
     THEN /\ server' = Append(server, calls[t].draft)
          /\ Answers(t, [ok |-> TRUE, version |-> Latest + 1, form |-> calls[t].draft])
     ELSE /\ Answers(t, [ok |-> FALSE])
          /\ UNCHANGED server
  /\ UNCHANGED proposals

(* The latest request: for the Preview action, and after an approval. *)
ServeLatest(t) ==
  /\ \/ t = Preview /\ calls[t].at = "act"
     \/ calls[t].at = "get"
  /\ calls[t].answer = Missing
  /\ Answers(t, [version |-> Latest, form |-> server[Latest]])
  /\ UNCHANGED <<server, proposals>>

(* The chat answers, and may propose a change of the latest version. *)
ServeChat(kind) ==
  /\ calls[Chat].at = "act" /\ calls[Chat].answer = Missing
  /\ IF kind = Missing
     THEN Answers(Chat, 0) /\ UNCHANGED proposals
     ELSE /\ Len(proposals) < ProposalLimit
          /\ \A p \in 1..Len(proposals) : proposals[p].status # "pending"
          /\ proposals' = Append(proposals, [kind |-> kind, base |-> Latest,
                                             status |-> "pending"])
          /\ Answers(Chat, Len(proposals) + 1)
  /\ UNCHANGED server

(* An approval applies the change if its base is still the latest version; *)
(* of a proposal that was decided only this outcome matters any more.      *)
ServeDecision(p) ==
  LET call    == calls[Deciding(p)]
      applies == /\ call.choice = "approve"
                 /\ proposals[p].status = "pending" /\ proposals[p].base = Latest
      status  == IF applies THEN "approved" ELSE "declined"
  IN  /\ call.at = "act" /\ call.answer = Missing
      /\ proposals' = [proposals EXCEPT ![p] = [status |-> status]]
      /\ server' = IF applies
                   THEN Append(server, [server[Latest] EXCEPT ![proposals[p].kind] = Mark(p)])
                   ELSE server
      /\ Answers(Deciding(p), status)

Serve ==
  /\ \/ \E t \in Tasks : ServePut(t) \/ ServeLatest(t)
     \/ \E kind \in Kinds \cup {Missing} : ServeChat(kind)
     \/ \E p \in ProposalIds : ServeDecision(p)
  /\ UNCHANGED <<editor, sync, renderedVersion, panel, previewer, cards, refreshed>>

Ends(t) == calls' = [calls EXCEPT ![t] = Resting]

\* Mutant: a refused save counts as one.
SavedAnyway(t) ==
  /\ calls[t].at = "put" /\ calls[t].answer # Missing
  /\ dirty' = FALSE
  /\ IF calls[t].answer.ok
     THEN /\ pageVersion' = calls[t].answer.version
          /\ approved' = calls[t].answer.form
          /\ syncedVersion' = calls[t].answer.version
          /\ renderedVersion' = Missing
          /\ overtaken' = (overtaken \/ calls[t].answer.version < pageVersion)
     ELSE UNCHANGED <<pageVersion, approved, syncedVersion, renderedVersion, overtaken>>
  /\ calls' = [calls EXCEPT ![t] = Sending("act", calls[t].choice)]
  /\ UNCHANGED <<editor, panel, previewer, cards, refreshed, server, proposals>>

(* The form was saved: the version it got is the page's, and the call that *)
(* wanted it saved goes on.  A refused save ends it.                       *)
Saved(t) ==
  /\ calls[t].at = "put" /\ calls[t].answer # Missing
  /\ IF calls[t].answer.ok
     THEN /\ pageVersion' = calls[t].answer.version
          /\ approved' = calls[t].answer.form
          /\ syncedVersion' = calls[t].answer.version
          /\ renderedVersion' = Missing
          /\ dirty' = FALSE
          /\ overtaken' = (overtaken \/ calls[t].answer.version < pageVersion)
          /\ calls' = [calls EXCEPT ![t] = Sending("act", calls[t].choice)]
     ELSE Ends(t) /\ UNCHANGED <<sync, renderedVersion>>
  /\ UNCHANGED <<editor, panel, previewer, cards, refreshed, server, proposals>>

ChatAnswered ==
  /\ calls[Chat].at = "act" /\ calls[Chat].answer # Missing
  /\ cards' = cards \cup ({calls[Chat].answer} \cap 1..Len(proposals))
  /\ Ends(Chat)
  /\ UNCHANGED <<editor, sync, renderedVersion, panel, previewer, refreshed, server, proposals>>

\* Mutant: any preview is registered as that of the page's version.
PreviewAnsweredUnchecked ==
  LET answer == calls[Preview].answer IN
  /\ calls[Preview].at = "act" /\ answer # Missing
  /\ panel' = [form |-> answer.form, version |-> pageVersion]
  /\ renderedVersion' = pageVersion
  /\ Ends(Preview)
  /\ UNCHANGED <<editor, sync, previewer, cards, refreshed, server, proposals>>

(* The preview is drawn when it is of the version the page holds. *)
PreviewAnswered ==
  LET answer == calls[Preview].answer IN
  /\ calls[Preview].at = "act" /\ answer # Missing
  /\ IF answer.version = pageVersion
     THEN /\ panel' = [form |-> answer.form, version |-> answer.version]
          /\ renderedVersion' = answer.version
     ELSE UNCHANGED <<panel, renderedVersion>>
  /\ Ends(Preview)
  /\ UNCHANGED <<editor, sync, previewer, cards, refreshed, server, proposals>>

(* After an approval the receipts of the old version are taken back and    *)
(* the latest request is read, once for each proposal.                     *)
Decided(p) ==
  /\ calls[Deciding(p)].at = "act" /\ calls[Deciding(p)].answer # Missing
  /\ IF calls[Deciding(p)].answer = "approved" /\ p \notin refreshed
     THEN /\ syncedVersion' = Missing /\ renderedVersion' = Missing
          /\ refreshed' = refreshed \cup {p}
          /\ calls' = [calls EXCEPT ![Deciding(p)] = Sending("get", "approve")]
     ELSE Ends(Deciding(p)) /\ UNCHANGED <<syncedVersion, renderedVersion, refreshed>>
  /\ UNCHANGED <<editor, dirty, pageVersion, approved, panel, previewer, cards, server,
                 proposals, overtaken>>

(* The latest request replaces the form. *)
AdoptLatest(p) ==
  LET answer == calls[Deciding(p)].answer IN
  /\ calls[Deciding(p)].at = "get" /\ answer # Missing
  /\ inputs' = answer.form.text /\ pageShape' = answer.form.shape
  /\ approved' = answer.form
  /\ pageVersion' = answer.version /\ syncedVersion' = answer.version
  /\ dirty' = FALSE
  /\ overtaken' = (overtaken \/ answer.version < pageVersion)
  /\ panel' = NoVersion /\ renderedVersion' = Missing
  /\ Ends(Deciding(p))
  /\ UNCHANGED <<formEdits, replaced, hasty, previewer, cards, refreshed, server, proposals>>

(* A call fails, before or after the server has answered it. *)
Fail(t) ==
  /\ calls[t].at # "idle"
  /\ Ends(t)
  /\ UNCHANGED <<editor, sync, renderedVersion, panel, previewer, cards, refreshed, server,
                 proposals>>

FormNext ==
  \/ TypeText \/ Reshape
  \/ SendRefresh \/ AdoptRefresh \/ LoseRefresh
  \/ SendChat \/ PreviewAction
  \/ \E p \in ProposalIds, decision \in {"approve", "reject"} : Decide(p, decision)
  \/ Serve
  \/ \E t \in Tasks : Saved(t) \/ Fail(t)
  \/ ChatAnswered \/ PreviewAnswered
  \/ \E p \in ProposalIds : Decided(p) \/ AdoptLatest(p)

FormSpec == FormInit /\ [][FormNext]_formVars

-----------------------------------------------------------------------------
(* Properties.                                                             *)

FormTypeOK ==
  /\ inputs \in Marks /\ pageShape \in Marks /\ approved \in Forms
  /\ dirty \in BOOLEAN /\ refreshDue \in BOOLEAN
  /\ pageVersion \in 1..Latest
  /\ syncedVersion \in 1..Latest \cup {Missing}
  /\ renderedVersion \in 1..Latest \cup {Missing}
  /\ panel.form \in Forms /\ panel.version \in 1..Latest \cup {Missing}
  /\ refresh \in Marks \cup {Missing}
  /\ \A t \in Tasks : calls[t].at \in {"idle", "put", "act", "get"}
  /\ cards \subseteq 1..Len(proposals) /\ refreshed \subseteq 1..Len(proposals)
  /\ \A v \in 1..Latest : server[v] \in Forms

(* When a Word file may be made of the preview on the page, that preview   *)
(* shows the version of the request that the page holds, as the server     *)
(* has it, whatever was saved, approved or drawn meanwhile                 *)
(* (hasPreviewDomForWord).                                                 *)
WordShowsServerSnapshot ==
  HasPreviewDomForWord => panel.form = server[pageVersion]

(* The text an approval wrote leaves the request only by a later approval *)
(* or because the user typed over it: no save puts back a text from before *)
(* the approval, although drafts are collected long before they arrive.    *)
(* This needs the answers to reach the page in the order of the versions   *)
(* they carry, which nothing in the page sees to                           *)
(* (refreshApprovedOrchestratorRequest adopts whatever comes).             *)
ApprovedTextStays ==
  [][server' # server /\ ~overtaken =>
       LET old == server[Latest].text
           new == server'[Len(server')].text
       IN  old > FormEdits /\ new < old => old \in replaced]_formVars

(* A user who lets every call be answered before he edits again loses no   *)
(* edit: when the server's request replaces the form, every edit in it has *)
(* been saved (createOrchestratorConversation saves a dirty form before    *)
(* the call, whatever calls came before).                                  *)
UnsavedInputIsKept ==
  [][~hasty /\ syncedVersion' # syncedVersion /\ PageForm' # PageForm =>
       \A k \in Kinds : PageForm[k] \in EditMarks =>
         \E v \in 1..Latest : server[v][k] = PageForm[k]]_formVars
=============================================================================
