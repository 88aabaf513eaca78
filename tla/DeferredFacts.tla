---------------------------- MODULE DeferredFacts ----------------------------
(***************************************************************************)
(* What the user told the chat before the form had a place for it.  Such a *)
(* fact is kept with the request; every chat, save and approval reconciles *)
(* the facts with the document, and a fact whose place is there by then    *)
(* becomes part of the next proposal, or of a follow-up proposal after an  *)
(* approval.  A decision takes the facts of its proposal out.              *)
(*                                                                         *)
(* Once decided a proposal's facts are removed only once, because the      *)
(* server forgets which they were; they stay linked here, and a repeated   *)
(* decision finds nothing left to remove.                                  *)
(*                                                                         *)
(* The handlers run on the threads of the server, and each store call is   *)
(* a step of its own.  One request and one conversation stand for all:     *)
(* facts belong to a request.  A place is a geometry or condition field    *)
(* selected by role, card type and names; what matters of it is whether    *)
(* no item, several items or one item of the document matches, and what    *)
(* the field of that one holds.                                            *)
(***************************************************************************)
EXTENDS Integers, Sequences, FiniteSets

CONSTANTS Places,         \* the places facts are about
          Contained,      \* what a field may hold
          Nowhere, Ambiguous, Vacant,   \* no item, several items, an empty field
          FactCap,        \* MAX_DEFERRED_INPUT_FACTS
          FactThreads,    \* the threads of the server
          FactLimit,      \* bound on the facts told
          SaveLimit,      \* bound on the saves of the form
          FollowLimit     \* bound on the proposals

ASSUME FactsAssumption ==
  /\ Nowhere # Ambiguous /\ Ambiguous # Vacant /\ Vacant # Nowhere
  /\ {Nowhere, Ambiguous, Vacant} \cap Contained = {}
  /\ FactCap \in Nat \ {0} /\ {FactLimit, SaveLimit, FollowLimit} \subseteq Nat

VARIABLES
  document,    \* the latest document, by place
  docVersion,  \* its version
  facts,       \* the facts kept, in the order of their field "since"
  proposed,    \* the proposals, with the facts linked to each
  handler,     \* what each thread is doing and the copies it works on
  told,        \* facts told so far
  saves        \* saves so far

factVars == <<document, docVersion, facts, proposed, handler, told, saves>>

Free      == [at |-> "free"]
FactIds(fs) == {f.id : f \in fs}
Pending   == {p \in 1..Len(proposed) : proposed[p].status = "pending"}

-----------------------------------------------------------------------------
(* reconcile_deferred_facts: what is kept and what could be proposed now.  *)

Resolution(fact, doc) ==
  CASE doc[fact.place] = Nowhere    -> "waiting_target"
    [] doc[fact.place] = Ambiguous  -> "ambiguous"
    [] doc[fact.place] = Vacant     -> "ready"
    [] doc[fact.place] = fact.value -> "already_applied"
    [] OTHER                        -> "superseded"

Checked(fs, snapshot) ==
  {[f EXCEPT !.resolution = Resolution(f, snapshot.doc), !.checked = snapshot.version] : f \in fs}

\* Mutant: an ambiguous fact is given up.
RetainedIfClear(fs, snapshot) ==
  {f \in Checked(fs, snapshot) : f.resolution \in {"ready", "waiting_target"}}

Retained(fs, snapshot) ==
  {f \in Checked(fs, snapshot) : f.resolution \notin {"already_applied", "superseded"}}

Ready(fs) == {f \in fs : f.resolution = "ready"}

(* A new fact takes the place of the one about the same field; a store     *)
(* that was full forgets its oldest fact.                                  *)
Oldest(fs) == {f \in fs : \A g \in fs : f.since <= g.since}

WithFact(fs, fact) ==
  LET same == {f \in fs : f.place = fact.place}
      all  == IF same = {} THEN fs \cup {fact}
              ELSE (fs \ same) \cup {[fact EXCEPT !.since = (CHOOSE f \in same : TRUE).since]}
  IN  IF Cardinality(all) > FactCap THEN all \ Oldest(all) ELSE all

Without(fs, ids) == {f \in fs : f.id \notin ids}

(* The write contract offers a field only where exactly one item has it. *)
Writable(writes, doc) == \A x \in DOMAIN writes : doc[x] \notin {Nowhere, Ambiguous}

WritesOf(ready) == [x \in {f.place : f \in ready} |-> (CHOOSE f \in ready : f.place = x).value]

(* The model's own write of a place wins over the fact kept about it.      *)
Merged(own, due) ==
  [x \in DOMAIN own \cup DOMAIN due |-> IF x \in DOMAIN own THEN own[x] ELSE due[x]]

Applied(doc, writes) == [x \in Places |-> IF x \in DOMAIN writes THEN writes[x] ELSE doc[x]]

NewProposal(base, writes) == [base |-> base, writes |-> writes, status |-> "pending", link |-> {}]

(* A request in which some places are there, still empty. *)
FactsInit ==
  /\ document \in [Places -> {Nowhere, Vacant}] /\ docVersion = 1
  /\ facts = {} /\ proposed = << >>
  /\ handler = [w \in FactThreads |-> Free]
  /\ told = 0 /\ saves = 0

Goes(w, job) == handler' = [handler EXCEPT ![w] = job]
Finishes(w)  == Goes(w, Free)

-----------------------------------------------------------------------------
(* _reconcile_deferred_input: three calls of the store.                    *)

BeginChat(w) ==
  /\ handler[w].at = "free"
  /\ Goes(w, [at |-> "look", for |-> "chat"])
  /\ UNCHANGED <<document, docVersion, facts, proposed, told, saves>>

(* A save of the form changes what the document says of one place. *)
SaveDocument(w, x, v) ==
  /\ handler[w].at = "free" /\ saves < SaveLimit
  /\ document[x] # v
  /\ document' = [document EXCEPT ![x] = v]
  /\ docVersion' = docVersion + 1 /\ saves' = saves + 1
  /\ Goes(w, [at |-> "look", for |-> "save"])
  /\ UNCHANGED <<facts, proposed, told>>

LookAtDocument(w) ==
  /\ handler[w].at = "look"
  /\ Goes(w, [at |-> "read", for |-> handler[w].for,
              snapshot |-> [doc |-> document, version |-> docVersion]])
  /\ UNCHANGED <<document, docVersion, facts, proposed, told, saves>>

ReadFacts(w) ==
  /\ handler[w].at = "read"
  /\ Goes(w, [at |-> "replace", for |-> handler[w].for, snapshot |-> handler[w].snapshot,
              seen |-> facts])
  /\ UNCHANGED <<document, docVersion, facts, proposed, told, saves>>

(* What the retained facts replace is whatever the store holds by now. *)
ReplaceFacts(w) ==
  LET job  == handler[w]
      kept == Retained(job.seen, job.snapshot)
  IN  /\ job.at = "replace"
      /\ facts' = IF kept # job.seen THEN kept ELSE facts
      /\ CASE job.for = "chat" ->
                Goes(w, [at |-> "think", snapshot |-> job.snapshot, ready |-> Ready(kept)])
           [] job.for = "decision" /\ Ready(kept) # {} ->
                Goes(w, [at |-> "follow", ready |-> Ready(kept)])
           [] OTHER -> Finishes(w)
      /\ UNCHANGED <<document, docVersion, proposed, told, saves>>

-----------------------------------------------------------------------------
(* The chat.                                                               *)

(* The model decides: it answers, asks back or proposes writes of its own, *)
(* with which the ready facts are merged; and it may tell a new fact.  A   *)
(* ready fact whose place gets another value is superseded.                *)
Think(w, action, own, fact) ==
  LET job    == handler[w]
      writes == IF action = "answer" THEN own ELSE Merged(own, WritesOf(job.ready))
      others == {f \in job.ready : f.place \in DOMAIN writes /\ writes[f.place] # f.value}
      same   == {f \in job.ready : f.place \in DOMAIN writes /\ writes[f.place] = f.value}
  IN  /\ job.at = "think"
      /\ IF Writable(writes, job.snapshot.doc) /\ (action = "propose" => DOMAIN writes # {})
         THEN Goes(w, [at |-> "remove", action |-> action, writes |-> writes, fact |-> fact,
                       version |-> job.snapshot.version, superseded |-> {f.id : f \in others},
                       included |-> {f.id : f \in same}])
         ELSE Finishes(w)
      /\ UNCHANGED <<document, docVersion, facts, proposed, told, saves>>

RemoveSuperseded(w) ==
  /\ handler[w].at = "remove"
  /\ facts' = Without(facts, handler[w].superseded)
  /\ Goes(w, [handler[w] EXCEPT !.at = "add"])
  /\ UNCHANGED <<document, docVersion, proposed, told, saves>>

(* A fact is only kept for the version it was told about. *)
AddFact(w) ==
  LET job  == handler[w]
      told1 == [id |-> told + 1, since |-> told + 1, place |-> job.fact.place,
                value |-> job.fact.value, resolution |-> "waiting_target", checked |-> job.version]
      goes == IF job.action = "propose" THEN Goes(w, [job EXCEPT !.at = "create"])
              ELSE Finishes(w)
  IN  /\ job.at = "add"
      /\ IF DOMAIN job.fact = {} THEN goes /\ UNCHANGED <<facts, told>>
         ELSE IF job.version # docVersion THEN Finishes(w) /\ UNCHANGED <<facts, told>>
         ELSE /\ facts' = WithFact(facts, told1) /\ told' = told + 1
              /\ goes
      /\ UNCHANGED <<document, docVersion, proposed, saves>>

CreateFromChat(w) ==
  LET job == handler[w] IN
  /\ job.at = "create"
  /\ IF Pending = {} /\ job.version = docVersion /\ Len(proposed) < FollowLimit
     THEN /\ proposed' = Append(proposed, NewProposal(docVersion, job.writes))
          /\ Goes(w, [at |-> "link", proposal |-> Len(proposed) + 1, link |-> job.included])
     ELSE Finishes(w) /\ UNCHANGED proposed
  /\ UNCHANGED <<document, docVersion, facts, told, saves>>

LinkFacts(w) ==
  /\ handler[w].at = "link"
  /\ proposed' = [proposed EXCEPT ![handler[w].proposal].link = handler[w].link]
  /\ Finishes(w)
  /\ UNCHANGED <<document, docVersion, facts, told, saves>>

-----------------------------------------------------------------------------
(* Decisions, which clients may repeat.                                    *)

Settlement(p, decision) ==
  CASE p \notin Pending                                      -> proposed[p].status
    [] p \in Pending /\ decision = "reject"                  -> "rejected"
    [] p \in Pending /\ decision = "approve"
         /\ proposed[p].base = docVersion                    -> "approved"
    [] OTHER                                                 -> "conflicted"

SettleProposal(w, p, decision) ==
  LET status == Settlement(p, decision) IN
  /\ handler[w].at = "free"
  /\ proposed' = [proposed EXCEPT ![p].status = status]
  /\ IF p \in Pending /\ status = "approved"
     THEN /\ document' = Applied(document, proposed[p].writes)
          /\ docVersion' = docVersion + 1
     ELSE UNCHANGED <<document, docVersion>>
  /\ Goes(w, [at |-> "unlink", proposal |-> p, status |-> status])
  /\ UNCHANGED <<facts, told, saves>>

\* Mutant: only an approval takes the facts out.
TakeOutApproved(w) ==
  LET job == handler[w] IN
  /\ job.at = "unlink"
  /\ IF job.status = "approved"
     THEN facts' = Without(facts, proposed[job.proposal].link)
     ELSE UNCHANGED facts
  /\ IF job.status = "approved" THEN Goes(w, [at |-> "look", for |-> "decision"])
     ELSE Finishes(w)
  /\ UNCHANGED <<document, docVersion, proposed, told, saves>>

TakeOutDecided(w) ==
  LET job == handler[w] IN
  /\ job.at = "unlink"
  /\ IF job.status \in {"approved", "rejected"}
     THEN facts' = Without(facts, proposed[job.proposal].link)
     ELSE UNCHANGED facts
  /\ IF job.status = "approved" THEN Goes(w, [at |-> "look", for |-> "decision"])
     ELSE Finishes(w)
  /\ UNCHANGED <<document, docVersion, proposed, told, saves>>

(* The follow-up is created, under a lock, on the document of this moment, *)
(* out of the facts that were ready on the document read before.           *)
FollowUp(w) ==
  LET job == handler[w] IN
  /\ job.at = "follow"
  /\ IF Pending = {} /\ Writable(WritesOf(job.ready), document) /\ Len(proposed) < FollowLimit
     THEN /\ proposed' = Append(proposed, NewProposal(docVersion, WritesOf(job.ready)))
          /\ Goes(w, [at |-> "link", proposal |-> Len(proposed) + 1,
                      link |-> {f.id : f \in job.ready}])
     ELSE Finishes(w) /\ UNCHANGED proposed
  /\ UNCHANGED <<document, docVersion, facts, told, saves>>

(* Bound: of its own accord the model writes to one place at a time.       *)
Own    == UNION {[X -> Contained] : X \in {Y \in SUBSET Places : Cardinality(Y) <= 1}}
NoFact == [x \in {} |-> Vacant]
Tell   == {NoFact} \cup (IF told < FactLimit THEN [place : Places, value : Contained] ELSE {})

FactsNext ==
  \E w \in FactThreads :
    \/ BeginChat(w)
    \/ \E x \in Places, v \in Contained \cup {Nowhere, Ambiguous, Vacant} : SaveDocument(w, x, v)
    \/ LookAtDocument(w) \/ ReadFacts(w) \/ ReplaceFacts(w)
    \/ \E action \in {"clarify", "propose"}, own \in Own, fact \in Tell : Think(w, action, own, fact)
    \/ \E fact \in Tell : Think(w, "answer", NoFact, fact)
    \/ RemoveSuperseded(w) \/ AddFact(w) \/ CreateFromChat(w) \/ LinkFacts(w)
    \/ \E p \in 1..Len(proposed), decision \in {"approve", "reject"} :
         SettleProposal(w, p, decision)
    \/ TakeOutDecided(w) \/ FollowUp(w)

FactsSpec == FactsInit /\ [][FactsNext]_factVars

-----------------------------------------------------------------------------
(* Properties.                                                             *)

Fact == [id : 1..FactLimit, since : 1..FactLimit, place : Places, value : Contained,
         resolution : {"waiting_target", "ambiguous", "ready"}, checked : 1..docVersion]

(* The store never holds two facts about one place, nor more than its cap. *)
FactsTypeOK ==
  /\ document \in [Places -> Contained \cup {Nowhere, Ambiguous, Vacant}]
  /\ facts \subseteq Fact /\ Cardinality(facts) <= FactCap
  /\ \A f, g \in facts : f.place = g.place \/ f.since = g.since => f = g
  /\ \A p \in 1..Len(proposed) : /\ proposed[p].base \in 1..docVersion
                                 /\ proposed[p].link \subseteq 1..FactLimit
  /\ told \in 0..FactLimit

FactOf(id) == CHOOSE f \in facts : f.id = id

(* A fact leaves the store only because the user said something else about *)
(* its place, in a new fact or in a write of the chat, because the field   *)
(* is filled by now, because the proposal it was part of is decided, or    *)
(* because it is the oldest of a full store that gets a new one.           *)
FactsAreKept ==
  [][\A id \in FactIds(facts) \ FactIds(facts') :
       \/ \E f \in facts' : f.place = FactOf(id).place /\ f.id > id
       \/ \E w \in FactThreads : handler[w].at = "remove" /\ id \in handler[w].superseded
       \/ document[FactOf(id).place] \in Contained
       \/ \E p \in 1..Len(proposed) : /\ id \in proposed[p].link
                                      /\ proposed[p].status \in {"approved", "rejected"}
       \/ told' > told /\ Cardinality(facts) = FactCap /\ FactOf(id) \in Oldest(facts)]_factVars

(* A fact the user has decided on is not proposed again: once a proposal   *)
(* that includes it is approved or rejected no other undecided proposal    *)
(* names it, and when the decision has been dealt with it is kept no more. *)
DecidedFactsRest ==
  \A p \in 1..Len(proposed) : \A id \in proposed[p].link :
    proposed[p].status \in {"approved", "rejected"} =>
      /\ \A q \in Pending : id \notin proposed[q].link
      /\ (\A w \in FactThreads : handler[w].at # "unlink") => id \notin FactIds(facts)

=============================================================================
